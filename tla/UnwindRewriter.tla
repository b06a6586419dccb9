---------------------------- MODULE UnwindRewriter ----------------------------
(***************************************************************************)
(* UnwindRewriter (src/converter/unwind_rewriter.cpp): builds the new      *)
(* __eh_frame of the output from the original one and the decoded compact *)
(* unwind entries, then re-bases its PC-relative pointers once the layout  *)
(* has placed the section.                                                 *)
(*                                                                         *)
(* The byte stream is abstracted to the fields a reader of the section     *)
(* interprets: mem maps a stream position to the value of the field that  *)
(* starts there (4-byte words modulo Word, the augmentation string of a    *)
(* CIE, the one-byte augmentation length of an FDE).  Record sizes are the *)
(* byte counts of the code's writes.                                       *)
(***************************************************************************)
EXTENDS CompactEncoding, DwarfUnwindParser, Functions, TLC

CONSTANTS
    Base,          \* writer.get_base(): VA of the first segment with sections
    Sections,      \* bin.sections(): sequence of [address, size] (VAs)
    Personalities, \* info.personalities: image offsets of personality slots
    OrigEhFrame,   \* the input's __eh_frame, see below
    EntryLists,    \* candidate info.entries sequences
    Subl,          \* operand of "sub $n, %rsp" read for indirect stack sizes
    Unreadable,    \* functions whose "sub" operand lies outside the binary
    EhFrameOffsets \* image offsets the layout may give the new .eh_frame

(***************************************************************************)
(* OrigEhFrame = [present : the input has an __eh_frame, begin : VA,     *)
(*   bytes : its content, size : Len(bytes), including the terminator,    *)
(*   records : sequence of [start, len, id] of its chain (id 0 for a CIE, *)
(*   else the CIE pointer), pcrel : set of [pos, target VA, enc] for its  *)
(*   PC-relative pointer fields and their format].  bytes is what          *)
(*   DwarfUnwindParser reads; records and pcrel describe the same chain.  *)
(***************************************************************************)

VARIABLES
    pc,           \* "start", "loop", "converted", "placed", "fixed", "failed",
                  \* "crashed", "hung"
    entries,      \* info.entries
    i,            \* loop index of convert()
    section,      \* the cached enclosing section (index, 0 = nullptr)
    pos,          \* writer.tellp()
    mem,          \* written fields of the stream
    relocations,  \* positions of synthesised PC-relative fields
    pcrelUsages,  \* dwarfParser.pcrelUsages (a sequence of [pos, enc])
    searchMap,    \* <<function offset, FDE offset>> pairs
    ehAddr        \* the section offset later passed to fixup()

vars == <<pc, entries, i, section, pos, mem, relocations, pcrelUsages,
          searchMap, ehAddr>>

NoBound == -1      \* (size_t)-1: no end could be guessed
Field(v) == v % Word

SecStart(s) == Sections[s].address
SecEnd(s) == Sections[s].address + Sections[s].size
Contains(s, faddr) == Base + faddr >= SecStart(s) /\ Base + faddr < SecEnd(s)

\* The linear scan of bin.sections(): the first section holding faddr.
FirstSectionContaining(faddr) ==
    LET hits == {s \in 1..Len(Sections) : Contains(s, faddr)}
    IN IF hits = {} THEN 0 ELSE CHOOSE s \in hits : \A t \in hits : s <= t

\* Faulty variant trusting the cached section without re-checking it.
LookupSectionStale(cached, faddr) ==
    IF cached # 0 THEN cached ELSE FirstSectionContaining(faddr)

\* The section after the cache check of convert().
LookupSection(cached, faddr) ==
    IF cached # 0 /\ Contains(cached, faddr) THEN cached
    ELSE FirstSectionContaining(faddr)

\* Faulty variant bounding a function by the next entry only inside a
\* section.
FunctionEndSectionOnly(sec, k) ==
    IF sec = 0 THEN NoBound
    ELSE IF k + 1 <= Len(entries) /\ entries[k + 1].functionOffset < SecEnd(sec)
         THEN entries[k + 1].functionOffset
         ELSE SecEnd(sec)

\* fend: the enclosing section's end, lowered to the next entry's offset.
FunctionEnd(sec, k) ==
    LET fend == IF sec # 0 THEN SecEnd(sec) ELSE NoBound
    IN IF k + 1 <= Len(entries)
          /\ (fend = NoBound \/ entries[k + 1].functionOffset < fend)
       THEN entries[k + 1].functionOffset
       ELSE fend

Align8(p) == ((p + 7) \div 8) * 8

(***************************************************************************)
(* writeCie: length, CIE id 0, version, augmentation "zPLR" or "zR", the  *)
(* alignment factors and return register, the augmentation data (with a   *)
(* 4-byte PC-relative personality pointer at offset 19 when there is a     *)
(* personality) and def_cfa RSP+8 / offset RIP; padded to 8 bytes.         *)
(***************************************************************************)
CieEnd(p, personality) == Align8(p + IF personality # 0 THEN 30 ELSE 22)

CieFields(p, personality) ==
    LET end == CieEnd(p, personality) IN
    IF personality # 0
    THEN (p :> Field(end - p - 4)) @@ ((p + 4) :> 0) @@ ((p + 9) :> "zPLR")
         @@ ((p + 19) :> Field(personality - (p + 19)))
    ELSE (p :> Field(end - p - 4)) @@ ((p + 4) :> 0) @@ ((p + 9) :> "zR")

(***************************************************************************)
(* convertEntry: a CIE for the entry's personality, then the FDE: length, *)
(* CIE pointer, PC-relative function start, 32-bit length, augmentation   *)
(* length (4 with a PC-relative LSDA pointer), the rules; padded to 8.     *)
(***************************************************************************)
EntryPersonality(e) ==
    IF e.encoding.lsda THEN Personalities[e.encoding.pers] ELSE 0

\* The size of the rules convertRbpFrameEncoding/convertFramelessEncoding
\* write for each encoding the entry lists hold, computed once.
EntryEncodings == UNION {{l[k].encoding : k \in DOMAIN l} : l \in EntryLists}
RulesBytesOf == [enc \in EntryEncodings |-> RulesBytes(EntryRules(enc, Subl))]

FdeEnd(p, e) ==
    Align8(p + 17 + (IF e.encoding.lsda THEN 4 ELSE 0) + RulesBytesOf[e.encoding])

\* Faulty variant whose length field also counts the length word.
FdeFieldsNoLen(pCie, p, e, length) ==
    (p :> Field(FdeEnd(p, e) - p)) @@ ((p + 4) :> (p + 4 - pCie))
    @@ ((p + 8) :> Field(e.functionOffset - (p + 8)))
    @@ ((p + 12) :> Field(length))
    @@ ((p + 16) :> IF e.encoding.lsda THEN 4 ELSE 0)
    @@ (IF e.encoding.lsda THEN (p + 17) :> Field(e.lsda - (p + 17))
                           ELSE [x \in {} |-> 0])

FdeFields(pCie, p, e, length) ==
    (p :> Field(FdeEnd(p, e) - p - 4)) @@ ((p + 4) :> (p + 4 - pCie))
    @@ ((p + 8) :> Field(e.functionOffset - (p + 8)))
    @@ ((p + 12) :> Field(length))
    @@ ((p + 16) :> IF e.encoding.lsda THEN 4 ELSE 0)
    @@ (IF e.encoding.lsda THEN (p + 17) :> Field(e.lsda - (p + 17))
                           ELSE [x \in {} |-> 0])

\* Faulty variant that does not record the LSDA pointer.
FdeRelocationsNoLsda(p, e) == <<p + 8>>

FdeRelocations(p, e) ==
    IF e.encoding.lsda THEN <<p + 8, p + 17>> ELSE <<p + 8>>

\* Faulty variant recording the personality pointer one byte late.
CieRelocationsOff(p, personality) ==
    IF personality # 0 THEN <<p + 20>> ELSE <<>>

CieRelocations(p, personality) ==
    IF personality # 0 THEN <<p + 19>> ELSE <<>>

\* The original section's fields, copied without its terminator.
PrefixFields ==
    LET recs == OrigEhFrame.records IN
    [x \in {recs[k].start : k \in 1..Len(recs)} \cup {u.pos : u \in OrigEhFrame.pcrel} |->
        IF \E u \in OrigEhFrame.pcrel : u.pos = x
        THEN LET u == CHOOSE u \in OrigEhFrame.pcrel : u.pos = x
             IN Field(u.target - (OrigEhFrame.begin + u.pos))
        ELSE LET r == CHOOSE k \in 1..Len(recs) : recs[k].start = x
             IN recs[r].len]
    @@ [x \in {recs[k].start + 4 : k \in 1..Len(recs)} |->
        LET r == CHOOSE k \in 1..Len(recs) : recs[k].start + 4 = x IN recs[r].id]

\* Sort of the search map by function offset (std::sort on the pairs).
SortPairs(s) == SortSeq(s, LAMBDA a, b : a[1] < b[1] \/ (a[1] = b[1] /\ a[2] < b[2]))

-----------------------------------------------------------------------------

Init ==
    /\ pc = "start"
    /\ entries \in EntryLists
    /\ i = 1
    /\ section = 0
    /\ pos = 0
    /\ mem = [x \in {} |-> 0]
    /\ relocations = <<>>
    /\ pcrelUsages = <<>>
    /\ searchMap = <<>>
    /\ ehAddr = 0

\* dwarfParser.parse(bin) over the original section.
Parsed == Parse(OrigEhFrame)

\* Where convert() goes after dwarfParser.parse(bin): without an __eh_frame
\* the parser prints and returns, then origEhFrame->content() dereferences
\* a null pointer; an exception of the parser aborts the conversion; a
\* parser that loops never returns.
AfterParse(outcome) ==
    IF ~OrigEhFrame.present THEN "crashed"
    ELSE CASE outcome \in {"done", "returned"} -> "loop"
           [] outcome = "threw"                -> "failed"
           [] outcome = "loops"                -> "hung"

\* Faulty variant that keeps the original terminator.
StartConvertWithTerminator ==
    /\ pc = "start"
    /\ pc' = AfterParse(Parsed.outcome)
    /\ pcrelUsages' = Parsed.usages
    /\ mem' = PrefixFields
    /\ pos' = OrigEhFrame.size
    /\ UNCHANGED <<entries, i, section, relocations, searchMap, ehAddr>>

\* convert(): dwarfParser.parse(bin), then the copy of the original bytes
\* without the last four.
StartConvert ==
    /\ pc = "start"
    /\ pc' = AfterParse(Parsed.outcome)
    /\ pcrelUsages' = Parsed.usages
    /\ mem' = PrefixFields
    /\ pos' = OrigEhFrame.size - 4
    /\ UNCHANGED <<entries, i, section, relocations, searchMap, ehAddr>>

\* One iteration of the loop of convert() for entries[i]: the enclosing
\* section (cached or found by the scan) and the guessed function end.
CurSection == LookupSection(section, entries[i].functionOffset)
CurEnd == FunctionEnd(CurSection, i)
CurMode == entries[i].encoding.mode

Iteration ==
    /\ pc = "loop"
    /\ i <= Len(entries)
    /\ section' = CurSection

\* No section and no next entry: "Could not guess function size".
SkipUnbounded ==
    /\ Iteration
    /\ CurEnd = NoBound
    /\ i' = i + 1
    /\ UNCHANGED <<pc, entries, pos, mem, relocations, pcrelUsages, searchMap, ehAddr>>

\* convertEntry throws, and the conversion aborts, when
\* info.personalities.at(index - 1) is out of range for a has-LSDA entry or
\* the indirect stack size cannot be read ("Failed to get subl").
PersonalityMissing(e) ==
    e.encoding.lsda /\ e.encoding.pers \notin 1..Len(Personalities)
SublUnreadable(e) ==
    e.encoding.mode = MODE_IND /\ e.functionOffset \in Unreadable
EntryThrows(e) == PersonalityMissing(e) \/ SublUnreadable(e)

\* RBP-frame and frameless entries: writeCie and the FDE of convertEntry.
ConvertSynthesized ==
    /\ Iteration
    /\ CurEnd # NoBound
    /\ CurMode \in {MODE_RBP, MODE_IMMD, MODE_IND}
    /\ ~EntryThrows(entries[i])
    /\ LET e == entries[i]
           personality == EntryPersonality(e)
           p == CieEnd(pos, personality)
       IN /\ mem' = mem @@ CieFields(pos, personality)
                    @@ FdeFields(pos, p, e, CurEnd - e.functionOffset)
          /\ pos' = FdeEnd(p, e)
          /\ relocations' = relocations \o CieRelocations(pos, personality)
                                        \o FdeRelocations(p, e)
          /\ searchMap' = Append(searchMap, <<e.functionOffset, p>>)
    /\ i' = i + 1
    /\ UNCHANGED <<pc, entries, pcrelUsages, ehAddr>>

ConvertFails ==
    /\ Iteration
    /\ CurEnd # NoBound
    /\ CurMode \in {MODE_RBP, MODE_IMMD, MODE_IND}
    /\ EntryThrows(entries[i])
    /\ pc' = "failed"
    /\ UNCHANGED <<entries, i, pos, mem, relocations, pcrelUsages, searchMap, ehAddr>>

\* DWARF-mode entries refer to their FDE in the copied original bytes.
ConvertDwarf ==
    /\ Iteration
    /\ CurEnd # NoBound
    /\ CurMode = MODE_DWARF
    /\ searchMap' = Append(searchMap, <<entries[i].functionOffset,
                                         DwarfSectionOffset(entries[i].encoding)>>)
    /\ i' = i + 1
    /\ UNCHANGED <<pc, entries, pos, mem, relocations, pcrelUsages, ehAddr>>

\* Entries of any other mode (no unwind information) are passed over.
SkipNoUnwind ==
    /\ Iteration
    /\ CurEnd # NoBound
    /\ CurMode \notin {MODE_RBP, MODE_IMMD, MODE_IND, MODE_DWARF}
    /\ i' = i + 1
    /\ UNCHANGED <<pc, entries, pos, mem, relocations, pcrelUsages, searchMap, ehAddr>>

\* End of convert(): the terminator and the sort of the search map.
FinishConvert ==
    /\ pc = "loop"
    /\ i > Len(entries)
    /\ mem' = mem @@ (pos :> 0)
    /\ pos' = pos + 4
    /\ searchMap' = SortPairs(searchMap)
    /\ pc' = "converted"
    /\ UNCHANGED <<entries, i, section, relocations, pcrelUsages, ehAddr>>

\* writer.layout() places the new .eh_frame section.
Layout ==
    /\ pc = "converted"
    /\ \E a \in EhFrameOffsets : ehAddr' = a
    /\ pc' = "placed"
    /\ UNCHANGED <<entries, i, section, pos, mem, relocations, pcrelUsages, searchMap>>

\* The sdata4 entries of pcrelUsages at stream position x.
SdataUsages(x) ==
    Cardinality({k \in DOMAIN pcrelUsages : pcrelUsages[k] = [pos |-> x, enc |-> DW_EH_PE_sdata4]})

\* fixup(addr): synthesised fields lose addr; each sdata4 entry of
\* pcrelUsages adds addr - sectionBegin to its field; other widths are only
\* reported.  An entry beyond the written bytes is not modelled.
Fixup ==
    /\ pc = "placed"
    /\ mem' = [x \in DOMAIN mem |->
                 IF x \in Range(relocations) THEN Field(mem[x] - ehAddr)
                 ELSE IF SdataUsages(x) > 0
                      THEN Field(mem[x] + SdataUsages(x) * (ehAddr - OrigEhFrame.begin))
                 ELSE mem[x]]
    /\ pc' = "fixed"
    /\ UNCHANGED <<entries, i, section, pos, relocations, pcrelUsages, searchMap, ehAddr>>

\* The conversion has ended, written or aborted.
Done == pc \in {"fixed", "failed"} /\ UNCHANGED vars

Next ==
    \/ StartConvert
    \/ SkipUnbounded \/ ConvertSynthesized \/ ConvertFails
    \/ ConvertDwarf \/ SkipNoUnwind
    \/ FinishConvert \/ Layout \/ Fixup \/ Done

Spec == Init /\ [][Next]_vars

-----------------------------------------------------------------------------
(***************************************************************************)
(* dwarfParser.parse() records each PC-relative pointer field of the      *)
(* original chain, and nothing else, exactly once with its format: the    *)
(* fields fixup() re-bases are the input's pointers, each moved once.     *)
(***************************************************************************)
ParserFindsPcrel ==
    pc \notin {"start", "crashed"} =>
        /\ IsInjective(pcrelUsages)
        /\ Range(pcrelUsages) = {[pos |-> u.pos, enc |-> u.enc] : u \in OrigEhFrame.pcrel}

-----------------------------------------------------------------------------
(***************************************************************************)
(* The section as an unwinder reads it: records are chained by their      *)
(* length words from offset 0 to a zero terminator; an FDE's CIE pointer  *)
(* is relative to its own field; a PC-relative field at x resolves to the *)
(* VA of the field plus its value.                                        *)
(***************************************************************************)
Built == pc \in {"converted", "placed", "fixed"}

RECURSIVE ChainFrom(_, _)
ChainFrom(s, fuel) ==
    IF fuel = 0 \/ s \notin DOMAIN mem \/ mem[s] \notin Int THEN <<-1>>
    ELSE IF mem[s] = 0 THEN <<>>
    ELSE <<s>> \o ChainFrom(s + 4 + mem[s], fuel - 1)

Records == ChainFrom(0, 2 * Len(entries) + Len(OrigEhFrame.records) + 1)

CiePointer(f) == f + 4 - mem[f + 4]

Resolve(x) == Field(Base + ehAddr + x + mem[x])

SignedField(v) == IF v >= Word \div 2 THEN v - Word ELSE v

PrefixEnd == OrigEhFrame.size - 4

\* The entries convert() gives unwind information: a mode it handles and a
\* function end it can guess (a section or a following entry).
Converted(k) ==
    /\ entries[k].encoding.mode \in {MODE_RBP, MODE_IMMD, MODE_IND, MODE_DWARF}
    /\ FirstSectionContaining(entries[k].functionOffset) # 0 \/ k < Len(entries)

Synthesized(k) ==
    Converted(k) /\ entries[k].encoding.mode \in {MODE_RBP, MODE_IMMD, MODE_IND}

EntryAt(f) == CHOOSE k \in 1..Len(entries) : entries[k].functionOffset = f

(***************************************************************************)
(* The record chain of the written section is intact: walking the length  *)
(* words from offset 0 (through the copied original records and every     *)
(* back-patched CIE and FDE length of writeCie/convertEntry) ends on the  *)
(* terminator written last, and every FDE's CIE pointer leads to a CIE of *)
(* the chain.                                                             *)
(***************************************************************************)
EhFrameWellFormed ==
    Built =>
        LET c == Records IN
        /\ -1 \notin Range(c)
        /\ IF c = <<>> THEN pos = 4
           ELSE c[Len(c)] + 4 + mem[c[Len(c)]] = pos - 4
        /\ \A k \in 1..Len(c) :
             mem[c[k] + 4] # 0 =>
                /\ CiePointer(c[k]) \in Range(c)
                /\ mem[CiePointer(c[k]) + 4] = 0

(***************************************************************************)
(* The search map later binary-searched through .eh_frame_hdr is strictly *)
(* ascending by function and has one pair for each converted entry: for   *)
(* an RBP-frame or frameless entry the offset of an FDE of the chain, for *)
(* a DWARF-mode entry the FDE offset its encoding names.                  *)
(***************************************************************************)
SearchMapComplete ==
    Built =>
        /\ \A k \in 1..(Len(searchMap) - 1) : searchMap[k][1] < searchMap[k + 1][1]
        /\ {searchMap[k][1] : k \in 1..Len(searchMap)}
              = {entries[k].functionOffset : k \in {j \in 1..Len(entries) : Converted(j)}}
        /\ \A k \in 1..Len(searchMap) :
             LET e == entries[EntryAt(searchMap[k][1])] IN
             IF e.encoding.mode = MODE_DWARF
             THEN searchMap[k][2] = DwarfSectionOffset(e.encoding)
             ELSE /\ searchMap[k][2] \in Range(Records)
                  /\ mem[searchMap[k][2] + 4] # 0

(***************************************************************************)
(* After fixup() every FDE the search map names starts at its function    *)
(* once the section sits at its final address, and the FDEs of converted  *)
(* entries carry the entry's LSDA and, through their CIE, its personality  *)
(* routine: the PC-relative fields survive the move of the section.       *)
(***************************************************************************)
UnwindPointersResolve ==
    pc = "fixed" =>
        \A k \in 1..Len(searchMap) :
            LET f == searchMap[k][1]
                o == searchMap[k][2]
                e == entries[EntryAt(f)]
                c == CiePointer(o)
            IN /\ (o + 8) \in DOMAIN mem
               /\ Resolve(o + 8) = Field(Base + f)
               /\ e.encoding.mode # MODE_DWARF =>
                    /\ mem[o + 16] = (IF e.encoding.lsda THEN 4 ELSE 0)
                    /\ e.encoding.lsda =>
                         /\ Resolve(o + 17) = Field(Base + e.lsda)
                         /\ mem[c + 9] = "zPLR"
                         /\ Resolve(c + 19)
                              = Field(Base + Personalities[e.encoding.pers])

(***************************************************************************)
(* Each synthesised FDE covers its function up to the next entry or the   *)
(* end of the function's section, whichever comes first: FDE ranges stay  *)
(* inside the section and do not overlap.                                 *)
(***************************************************************************)
FdeRangesInsideSections ==
    Built =>
        LET fdes == {k \in 1..Len(searchMap) : searchMap[k][2] >= PrefixEnd
                                              /\ Synthesized(EntryAt(searchMap[k][1]))}
            start(k) == searchMap[k][1]
            end(k) == start(k) + SignedField(mem[searchMap[k][2] + 12])
        IN /\ \A k \in fdes :
                LET s == FirstSectionContaining(start(k))
                IN /\ start(k) < end(k)
                   /\ s # 0 => Base + end(k) <= SecEnd(s)
           /\ \A k1, k2 \in fdes : start(k1) < start(k2) => end(k1) <= start(k2)

TypeOK ==
    /\ pc \in {"start", "loop", "converted", "placed", "fixed", "failed", "crashed", "hung"}
    /\ i \in 1..(Len(entries) + 1)
    /\ section \in 0..Len(Sections)
    /\ pos \in Nat
    /\ \A k \in 1..Len(relocations) : relocations[k] \in DOMAIN mem
    /\ ehAddr \in EhFrameOffsets \cup {0}
=============================================================================
