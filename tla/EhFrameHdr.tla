------------------------------ MODULE EhFrameHdr ------------------------------
(***************************************************************************)
(* EhFrameBuilder (src/converter/main.cpp) composed with the unwind        *)
(* rewriter in the order main() drives them: convert(), the header sized   *)
(* from the search map, writer.layout() placing .eh_frame and right after  *)
(* it .eh_frame_hdr (both in the cLoadData segment), unwindRewriter.fixup, *)
(* then writeAtFixup filling the header from the final addresses.          *)
(*                                                                         *)
(* Addresses are image offsets (VA - Base), as ehAddr is; the header's     *)
(* 32-bit fields are values modulo Word.                                   *)
(***************************************************************************)
EXTENDS UnwindRewriter

VARIABLES
    hdrPc,      \* "none", "built" (size reserved), "written"
    hdrSize,    \* hdrSec size: 12 + 8 * map.size()
    hdrAddr,    \* hdrSec->get_address() - Base once laid out
    hdr         \* [ehFramePtr, fdeCount, table] written by writeAtFixup

hdrVars == <<hdrPc, hdrSize, hdrAddr, hdr>>
allVars == <<vars, hdrVars>>

Align4(p) == ((p + 3) \div 4) * 4

\* EhFrameBuilder::build: the header's size for the search map.
HdrBuild ==
    /\ pc = "converted"
    /\ hdrPc = "none"
    /\ hdrPc' = "built"
    /\ hdrSize' = 12 + 8 * Len(searchMap)
    /\ UNCHANGED <<vars, hdrAddr, hdr>>

\* writer.layout(): .eh_frame at one of the offsets the layout may choose,
\* of size unwindRewriter.size(), and .eh_frame_hdr (4-aligned) after it.
LayoutOutput ==
    /\ hdrPc = "built"
    /\ Layout
    /\ hdrAddr' = Align4(ehAddr' + pos)
    /\ UNCHANGED <<hdrPc, hdrSize, hdr>>

FixupOutput == Fixup /\ UNCHANGED hdrVars

\* Faulty variant storing FDE offsets without frameAddrAdjust.
HdrWriteNoFrameAdjust ==
    /\ pc = "fixed"
    /\ hdrPc = "built"
    /\ LET hdrVA == Base + hdrAddr
       IN hdr' = [ehFramePtr |-> Field(Base + ehAddr - (hdrVA + 4)),
                  fdeCount |-> Len(searchMap),
                  table |-> [k \in 1..Len(searchMap) |->
                               <<Field(searchMap[k][1] - hdrVA), Field(searchMap[k][2])>>]]
    /\ hdrPc' = "written"
    /\ UNCHANGED <<vars, hdrSize, hdrAddr>>

\* writeAtFixup: eh_frame_ptr relative to its own field, the FDE count and
\* per pair the function offset plus funcAddrAdjust (-hdr VA) and the FDE
\* offset plus frameAddrAdjust (eh_frame VA - hdr VA), all as int32.
HdrWrite ==
    /\ pc = "fixed"
    /\ hdrPc = "built"
    /\ LET hdrVA == Base + hdrAddr
           ehVA == Base + ehAddr
       IN hdr' = [ehFramePtr |-> Field(ehVA - (hdrVA + 4)),
                  fdeCount |-> Len(searchMap),
                  table |-> [k \in 1..Len(searchMap) |->
                               <<Field(searchMap[k][1] - hdrVA),
                                 Field(searchMap[k][2] + (ehVA - hdrVA))>>]]
    /\ hdrPc' = "written"
    /\ UNCHANGED <<vars, hdrSize, hdrAddr>>

\* The output has been written, or the conversion aborted.
OutputDone ==
    \/ pc = "failed" /\ UNCHANGED allVars
    \/ hdrPc = "written" /\ UNCHANGED allVars

OutputInit == Init /\ hdrPc = "none" /\ hdrSize = 0 /\ hdrAddr = 0 /\ hdr = "none"

OutputNext ==
    \/ (StartConvert \/ SkipUnbounded \/ ConvertSynthesized \/ ConvertFails
        \/ ConvertDwarf \/ SkipNoUnwind \/ FinishConvert) /\ UNCHANGED hdrVars
    \/ HdrBuild \/ LayoutOutput \/ FixupOutput \/ HdrWrite \/ OutputDone

OutputSpec == OutputInit /\ [][OutputNext]_allVars

-----------------------------------------------------------------------------
(***************************************************************************)
(* .eh_frame_hdr as the unwinder reads it (a PT_GNU_EH_FRAME lookup): the  *)
(* section pointer resolves to .eh_frame; the table, binary-searched by    *)
(* signed initial location relative to the header, is strictly ascending,  *)
(* holds fdeCount rows that fit the size reserved before layout, and each  *)
(* converted function's row leads to an FDE of the written .eh_frame whose *)
(* pc_begin is that function.                                              *)
(***************************************************************************)
HdrLocatesFdes ==
    hdrPc = "written" =>
        LET hdrVA == Base + hdrAddr
            t == hdr.table
            initial(k) == SignedField(t[k][1])
            fde(k) == Field(hdrVA + t[k][2]) - Field(Base + ehAddr)
        IN /\ Field(hdrVA + 4 + hdr.ehFramePtr) = Field(Base + ehAddr)
           /\ hdr.fdeCount = Len(t) /\ hdrSize = 12 + 8 * Len(t)
           /\ \A k \in 1..(Len(t) - 1) : initial(k) < initial(k + 1)
           /\ \A k \in 1..Len(entries) : Converted(k) =>
                \E r \in 1..Len(t) :
                   /\ Field(hdrVA + initial(r)) = Field(Base + entries[k].functionOffset)
                   /\ fde(r) \in Range(Records)
                   /\ mem[fde(r) + 4] # 0
                   /\ Resolve(fde(r) + 8) = Field(Base + entries[k].functionOffset)
=============================================================================
