-------------------------- MODULE MCUnwindRewriter --------------------------
(***************************************************************************)
(* Model values for UnwindRewriter.  Addresses are scaled down: Word plays *)
(* the role of 2^32, so a Base of Word is the usual 64-bit Mach-O base     *)
(* 0x100000000 (a multiple of 2^32) and a Base of 0 a file linked at 0.    *)
(* Two text sections hold functions; offsets 80 (between them) and 200   *)
(* (past them) lie in no section.                                          *)
(***************************************************************************)
EXTENDS EhFrameHdr

MCWord == 65536

MCSections == << [address |-> Base + 16, size |-> 48],
                 [address |-> Base + 96, size |-> 32] >>

\* Image offsets of the personality pointer slots (info.personalities).
MCPersonalities == << 300, 308 >>

\* Encodings with the high byte split out (see CompactEncoding).
Enc(m, lsda, pers, bits) == [mode |-> m, lsda |-> lsda, pers |-> pers, bits |-> bits]
E_RBP      == Enc(MODE_RBP, FALSE, 0, 1 * 2^16 + 1 + 2 * 8)     \* RBX, R12 saved
E_RBP_LSDA == Enc(MODE_RBP, TRUE, 1, 2 * 2^16 + 1)             \* RBX saved
E_IMMD     == Enc(MODE_IMMD, FALSE, 0, 4 * 2^16 + 2 * 2^10 + 7) \* two registers
E_IND_LSDA == Enc(MODE_IND, TRUE, 2, 5 * 2^16 + 1 * 2^13 + 1 * 2^10 + 3)
E_NONE     == Enc(MODE_NONE, FALSE, 0, 0)
E_BADPERS  == Enc(MODE_IMMD, TRUE, 0, 2 * 2^16)                 \* LSDA, no personality
E_DWARF    == Enc(MODE_DWARF, FALSE, 0, 24)                     \* FDE at offset 24

\* The function whose original FDE (at offset 24) is named by E_DWARF.
DwarfFunction == 40

FunctionOffsets == {16, 40, 80, 96, 200}

Entry(f, e) == [functionOffset |-> f, encoding |-> e,
                lsda |-> IF e.lsda THEN 1000 + f ELSE 0]

\* Sorted entry lists of 1 to 3 functions (the compact unwind index is
\* sorted by function offset), each with an encoding of Encodings.
EntriesOver(Encodings) ==
    LET ok(f, e) == (e.mode = MODE_DWARF) <=> (f = DwarfFunction)
        Lists(n) == { s \in [1..n -> FunctionOffsets \X Encodings] :
                        /\ \A k \in 1..(n - 1) : s[k][1] < s[k + 1][1]
                        /\ \A k \in 1..n : ok(s[k][1], s[k][2]) }
    IN UNION { { [k \in 1..n |-> Entry(s[k][1], s[k][2])] : s \in Lists(n) } : n \in 1..3 }

MCEntriesNoDwarf ==
    EntriesOver({E_RBP, E_RBP_LSDA, E_IMMD, E_IND_LSDA, E_NONE, E_BADPERS})
MCEntriesDwarf ==
    EntriesOver({E_RBP, E_IND_LSDA, E_NONE, E_DWARF})

(***************************************************************************)
(* Original __eh_frame sections, as bytes.  A 32-bit field holds a value   *)
(* modulo Word (2^32 scaled down), so its two high bytes are 0.  Every    *)
(* pointer is sdata4 PC-relative (format 11): the target minus the VA of  *)
(* the field at offset at.                                                 *)
(***************************************************************************)
U32(v) == << v % 256, (v \div 256) % 256, (v \div 65536) % 256, v \div 16777216 >>

OrigBegin == Base + 400

PcRel(at, target) == U32(Field(target - (OrigBegin + at)))

\* Two records of each shape as a compiler emits them, each FDE after its
\* CIE: the "zR" CIE with pcrel|sdata4 pointers (0x1b), rules def_cfa
\* RSP+8 and offset RIP; the FDE of DwarfFunction (advance_loc,
\* def_cfa_offset, offset RBP, advance_loc, def_cfa_register, nops); a
\* "zPLR" CIE with an indirect pcrel personality pointer (0x9b) and pcrel
\* LSDA pointers; an FDE with an LSDA pointer and rules advance_loc1,
\* def_cfa_offset 160 (two-byte ULEB128), offset_extended, GNU_args_size,
\* restore, advance_loc, def_cfa_offset and a nop.
CieZR  == U32(20) \o U32(0) \o <<1, 122, 82, 0, 1, 120, 16, 1, 27, 12, 7, 8, 144, 1, 0, 0>>
FdeZR  == U32(28) \o U32(28) \o PcRel(32, Base + DwarfFunction) \o U32(16)
          \o <<0, 65, 14, 16, 134, 2, 67, 13, 6, 0, 0, 0, 0, 0, 0, 0>>
CieZPLR == U32(28) \o U32(0) \o <<1, 122, 80, 76, 82, 0, 1, 120, 16, 7, 155>>
           \o PcRel(75, Base + 300) \o <<27, 27, 12, 7, 8, 144, 1, 0, 0>>
FdeLsda == U32(32) \o U32(36) \o PcRel(96, Base + 104) \o U32(8) \o <<4>>
           \o PcRel(105, Base + 700)
           \o <<2, 4, 14, 160, 1, 5, 3, 3, 46, 16, 198, 68, 14, 8, 0>>
\* A CIE without augmentation (absolute pointers), as hand-written
\* assembly has.
CiePlain == U32(12) \o U32(0) \o <<1, 0, 1, 120, 16, 12, 7, 8>>

\* The pointer fields of these records, as a reader of the DWARF format
\* locates them: FDE starts at 32 and 96, the personality at 75, the LSDA
\* at 105.
Pointers ==
    { [pos |-> 32, target |-> Base + DwarfFunction, enc |-> 11],
      [pos |-> 75, target |-> Base + 300, enc |-> 11],
      [pos |-> 96, target |-> Base + 104, enc |-> 11],
      [pos |-> 105, target |-> Base + 700, enc |-> 11] }

DwarfRecords == << [start |-> 0, len |-> 20, id |-> 0],
                   [start |-> 24, len |-> 28, id |-> 28],
                   [start |-> 56, len |-> 28, id |-> 0],
                   [start |-> 88, len |-> 32, id |-> 36] >>

OrigSection(bytes, recs, pcrel) ==
    [present |-> TRUE, begin |-> OrigBegin, bytes |-> bytes,
     size |-> Len(bytes), records |-> recs, pcrel |-> pcrel]

\* An input without DWARF FDEs: only the terminator.
MCOrigEmpty == OrigSection(U32(0), <<>>, {})

\* The four records and the terminator.
MCOrigDwarf == OrigSection(CieZR \o FdeZR \o CieZPLR \o FdeLsda \o U32(0),
                           DwarfRecords, Pointers)

\* The same, with a plain CIE before the terminator.
MCOrigDwarfPlainLast ==
    OrigSection(CieZR \o FdeZR \o CieZPLR \o FdeLsda \o CiePlain \o U32(0),
                Append(DwarfRecords, [start |-> 124, len |-> 12, id |-> 0]), Pointers)

MCEhFrameOffsets == {400, 512}
=============================================================================
