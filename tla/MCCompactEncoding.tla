-------------------------- MODULE MCCompactEncoding --------------------------
(***************************************************************************)
(* Drives the rewriter's per-entry translation of compact encodings into   *)
(* DWARF rules (UnwindRewriter::convertEntry's instruction part) over      *)
(* every encoding of a bounded input space, and compares the rules with    *)
(* what the unwinder itself restores for that encoding.                    *)
(***************************************************************************)
EXTENDS CompactEncoding, SequencesExt

CONSTANTS
    RbpOffsets,      \* values of the 8-bit RBP_FRAME_OFFSET field
    StackSizes,      \* values of the 8-bit FRAMELESS_STACK_SIZE field
    StackAdjusts,    \* values of the 3-bit FRAMELESS_STACK_ADJUST field
    Subls,           \* operands of the function's "sub $n, %rsp"
    AllRbpSlots      \* TRUE: any 3-bit register slots 0..6; FALSE: packed

ASSUME RbpOffsets \subseteq 0..255 /\ StackSizes \subseteq 0..255
ASSUME StackAdjusts \subseteq 0..7

VARIABLES
    enc,        \* the encoding of the entry being converted
    subl,       \* the stack operand read for it (indirect mode)
    rules,      \* the DWARF rules emitted for it
    converted   \* convertEntry has run for it

vars == <<enc, subl, rules, converted>>

Word(m, b) == [mode |-> m, lsda |-> FALSE, pers |-> 0, bits |-> b]

\* Saved-register slot fields of RBP-frame encodings.  The compiler packs
\* the saved registers from slot 0 upwards; the format itself allows a
\* zero slot anywhere.
SlotField(s) == LET RECURSIVE F(_) F(i) == IF i > Len(s) THEN 0
                                         ELSE s[i] * 8 ^ (i - 1) + F(i + 1)
                IN F(1)
PackedSlots ==
    { SlotField(s) : s \in { t \in BoundedSeq(1..6, 5) : IsRegisterOrder(t, Len(t)) } }
AnySlots == { SlotField(s) : s \in [1..5 -> 0..6] }

RbpInputs ==
    { Word(MODE_RBP, off * 2 ^ 16 + regs) :
        off \in RbpOffsets, regs \in IF AllRbpSlots THEN AnySlots ELSE PackedSlots }

\* Frameless encodings with a permutation the encoder can produce.
FramelessInputs ==
    UNION { { Word(m, size * 2 ^ 16 + adj * 2 ^ 13 + k * 2 ^ 10 + p) :
                p \in 0..(PermutationCount(k) - 1) } :
            m \in {MODE_IMMD, MODE_IND}, size \in StackSizes,
            adj \in StackAdjusts, k \in 1..6 }

\* One compact-unwind entry of the input, of any mode the rewriter
\* synthesises rules for.
Init ==
    /\ enc \in RbpInputs \cup FramelessInputs
    /\ subl \in Subls
    /\ rules = <<>>
    /\ converted = FALSE

ConvertRbpFrame ==
    /\ ~converted
    /\ enc.mode = MODE_RBP
    /\ rules' = EntryRules(enc, subl)
    /\ converted' = TRUE
    /\ UNCHANGED <<enc, subl>>

ConvertFrameless ==
    /\ ~converted
    /\ enc.mode \in {MODE_IMMD, MODE_IND}
    /\ rules' = EntryRules(enc, subl)
    /\ converted' = TRUE
    /\ UNCHANGED <<enc, subl>>

\* The entry has been converted; the loop has no more work for it.
Done == converted /\ UNCHANGED vars

Next == ConvertRbpFrame \/ ConvertFrameless \/ Done

Spec == Init /\ [][Next]_vars

TypeOK ==
    /\ enc.mode \in {MODE_RBP, MODE_IMMD, MODE_IND}
    /\ subl \in Subls
    /\ converted \in BOOLEAN
    /\ \A i \in 1..Len(rules) :
         \/ rules[i].op = "def_cfa_offset" /\ rules[i].n \in Nat
         \/ rules[i].op = "def_cfa_register" /\ rules[i].reg = UNW_RBP
         \/ rules[i].op = "offset" /\ rules[i].reg \in Range(compactRegisterMap)
                                 /\ rules[i].n \in Int

\* DWARF register number -> compact register number.
CompactNumber(reg) == CHOOSE c \in 1..6 : compactRegisterMap[c] = reg

(***************************************************************************)
(* Frameless functions (convertFramelessEncoding with                      *)
(* decodeCompatEncodingPermutation): the CFA is the stack size, and the    *)
(* rules save regCount distinct registers, whose order is the one the      *)
(* permutation field ranks, the i-th at the slot the unwinder reads it     *)
(* from (SP + stackSize - 8 - 8*regCount + 8*i, factor 1 + regCount - i).  *)
(***************************************************************************)
FramelessRegistersRestored ==
    converted /\ enc.mode \in {MODE_IMMD, MODE_IND} =>
        LET k == FramelessRegCount(enc)
            saves == SubSeq(rules, 2, Len(rules))
            regs == [i \in 1..Len(saves) |-> CompactNumber(saves[i].reg)]
        IN /\ rules[1] = [op |-> "def_cfa_offset", n |-> FramelessStackBytes(enc, subl)]
           /\ \A i \in 1..Len(saves) : saves[i].op = "offset"
                                        /\ saves[i].reg \in Range(compactRegisterMap)
           /\ IsRegisterOrder(regs, k)
           /\ PermutationRank(regs) = FramelessPermutation(enc)
           /\ \A i \in 1..k : saves[i].n = 1 + k - (i - 1)

(***************************************************************************)
(* RBP-frame functions (convertRbpFrameEncoding): the rules make RBP+16   *)
(* the CFA, save RBP at CFA-16, and save exactly the registers of the     *)
(* non-zero slots, slot i at the unwinder's CFA factor offset+2-i.         *)
(***************************************************************************)
RbpFrameRegistersRestored ==
    converted /\ enc.mode = MODE_RBP =>
        /\ RuleCfaOffsets(rules) = {16}
        /\ [op |-> "def_cfa_register", reg |-> UNW_RBP] \in Range(rules)
        /\ RuleSaves(rules) = UnwinderRbpSaves(enc) \cup {<<UNW_RBP, 2>>}
=============================================================================
