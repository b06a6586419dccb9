--------------------------- MODULE CompactEncoding ---------------------------
(***************************************************************************)
(* Apple x86-64 compact unwind encodings and their translation into DWARF  *)
(* call-frame rules, as done by src/converter/unwind_rewriter.cpp and      *)
(* src/converter/unwind_compact_decoder.cpp.                               *)
(*                                                                         *)
(* An encoding is a 32-bit word.  It is represented as a record of its    *)
(* architecture-independent high byte (has-LSDA bit, personality index,    *)
(* mode nibble) and its mode-specific low 24 bits, which are kept as an    *)
(* integer so that every EXTRACT_BITS of the code is integer arithmetic.   *)
(*                                                                         *)
(* A DWARF rule emitted by the rewriter is a record                        *)
(*   [op |-> "def_cfa_offset", n |-> k]          DW_CFA_def_cfa_offset k   *)
(*   [op |-> "def_cfa_register", reg |-> r]      DW_CFA_def_cfa_register r *)
(*   [op |-> "offset", reg |-> r, n |-> k]       DW_CFA_offset r, k        *)
(* i.e. register r is saved at CFA + k * dataAlignFactor (-8).             *)
(***************************************************************************)
EXTENDS Integers, Sequences, FiniteSets

\* UNWIND_X86_64_MODE_* >> 24
MODE_NONE  == 0
MODE_RBP   == 1
MODE_IMMD  == 2
MODE_IND   == 3
MODE_DWARF == 4

\* DWARF register numbers (UNW_X86_64_*) used by the rewriter.
UNW_RBX == 3
UNW_RBP == 6
UNW_RSP == 7
UNW_R12 == 12
UNW_R13 == 13
UNW_R14 == 14
UNW_R15 == 15
UNW_RIP == 16

\* compactRegisterMap: compact register number 1..6 -> DWARF register.
compactRegisterMap == <<UNW_RBX, UNW_R12, UNW_R13, UNW_R14, UNW_R15, UNW_RBP>>

\* EXTRACT_BITS(value, mask) for a mask of width bits starting at shift.
ExtractBits(value, shift, width) == (value \div (2 ^ shift)) % (2 ^ width)

\* The fields of the low 24 bits named by the UNWIND_X86_64_* masks.
RbpFrameRegisters(enc)   == ExtractBits(enc.bits, 0, 15)
RbpFrameOffset(enc)      == ExtractBits(enc.bits, 16, 8)
FramelessStackSize(enc)  == ExtractBits(enc.bits, 16, 8)
FramelessStackAdjust(enc) == ExtractBits(enc.bits, 13, 3)
FramelessRegCount(enc)   == ExtractBits(enc.bits, 10, 3)
FramelessPermutation(enc) == ExtractBits(enc.bits, 0, 10)
DwarfSectionOffset(enc)  == ExtractBits(enc.bits, 0, 24)

(***************************************************************************)
(* decodeCompatEncodingPermutation: the divisors of the mixed-radix digits *)
(* for each register count, the digit extraction, and the renumbering of   *)
(* ranks to register numbers 1..6.  A rank that names no unused register   *)
(* leaves its slot unassigned; the code then reads an uninitialised int,   *)
(* represented here by 0.                                                  *)
(***************************************************************************)
\* Faulty variant (4-register divisors of a 5-register table), used to
\* confirm that FramelessRegistersRestored detects a wrong table.
PermDivisorsWrong == <<
    <<1>>,
    <<5, 1>>,
    <<20, 4, 1>>,
    <<60, 12, 4, 1>>,
    <<120, 24, 6, 2, 1>>,
    <<120, 24, 6, 2, 1, 0>> >>

PermDivisors == <<
    <<1>>,
    <<5, 1>>,
    <<20, 4, 1>>,
    <<60, 12, 3, 1>>,
    <<120, 24, 6, 2, 1>>,
    <<120, 24, 6, 2, 1, 0>> >>

\* permunreg: digit i is the quotient by the i-th divisor of what the
\* earlier digits left; the last digit of the 6-register case is forced 0.
RECURSIVE PermDigits(_, _)
PermDigits(permutation, divs) ==
    IF divs = <<>> THEN <<>>
    ELSE IF Head(divs) = 0 THEN <<0>>
    ELSE LET d == permutation \div Head(divs)
         IN <<d>> \o PermDigits(permutation - d * Head(divs), Tail(divs))

\* Faulty variant counting the register itself among the smaller ones.
RankedUnusedLe(rank, used) ==
    LET free == {u \in 1..6 : u \notin used}
        pick == {u \in free : Cardinality({v \in free : v <= u}) = rank}
    IN IF pick = {} THEN 0 ELSE CHOOSE u \in pick : TRUE

\* The rank-th register in 1..6 not in used, or 0 when there is none.
RankedUnused(rank, used) ==
    LET free == {u \in 1..6 : u \notin used}
        pick == {u \in free : Cardinality({v \in free : v < u}) = rank}
    IN IF pick = {} THEN 0 ELSE CHOOSE u \in pick : TRUE

RECURSIVE Renumber(_, _)
Renumber(digits, used) ==
    IF digits = <<>> THEN <<>>
    ELSE LET r == RankedUnused(Head(digits), used)
         IN <<r>> \o Renumber(Tail(digits), used \cup {r})

decodeCompatEncodingPermutation(regCount, permutation) ==
    IF regCount \in 1..6
    THEN Renumber(PermDigits(permutation, PermDivisors[regCount]), {})
    ELSE <<>>

(***************************************************************************)
(* UnwindRewriter::convertRbpFrameEncoding.  The loop over the five 3-bit *)
(* slots emits a rule for a non-zero slot and shifts the register field    *)
(* only then: a zero slot is re-read by every later iteration.             *)
(***************************************************************************)
RECURSIVE RbpSlotRules(_, _, _)
RbpSlotRules(locations, savedRegisters, i) ==
    IF i = 5 THEN <<>>
    ELSE LET reg == locations % 8 IN
         IF reg = 0
         THEN RbpSlotRules(locations, savedRegisters, i + 1)
         ELSE << [op |-> "offset", reg |-> compactRegisterMap[reg],
                  n |-> savedRegisters] >>
              \o RbpSlotRules(locations \div 8, savedRegisters - 1, i + 1)

\* Faulty variant numbering the slots from the frame offset + 1.
convertRbpFrameEncodingOff(enc) ==
    << [op |-> "def_cfa_offset", n |-> 16],
       [op |-> "offset", reg |-> UNW_RBP, n |-> 2],
       [op |-> "def_cfa_register", reg |-> UNW_RBP] >>
    \o RbpSlotRules(RbpFrameRegisters(enc), RbpFrameOffset(enc) + 1, 0)

convertRbpFrameEncoding(enc) ==
    << [op |-> "def_cfa_offset", n |-> 16],
       [op |-> "offset", reg |-> UNW_RBP, n |-> 2],
       [op |-> "def_cfa_register", reg |-> UNW_RBP] >>
    \o RbpSlotRules(RbpFrameRegisters(enc), RbpFrameOffset(enc) + 2, 0)

(***************************************************************************)
(* UnwindRewriter::convertFramelessEncoding.  subl is the 32-bit operand   *)
(* of the function's "sub $n, %rsp" read for the indirect form.            *)
(***************************************************************************)
FramelessStackBytes(enc, subl) ==
    IF enc.mode = MODE_IND
    THEN subl + 8 * FramelessStackAdjust(enc)
    ELSE FramelessStackSize(enc) * 8

convertFramelessEncoding(enc, subl) ==
    LET regCount == FramelessRegCount(enc)
        saved == decodeCompatEncodingPermutation(regCount,
                                                 FramelessPermutation(enc))
    IN << [op |-> "def_cfa_offset", n |-> FramelessStackBytes(enc, subl)] >>
       \o [i \in 1..Len(saved) |->
              [op |-> "offset",
               reg |-> IF saved[i] \in 1..6 THEN compactRegisterMap[saved[i]]
                                            ELSE 0,
               n |-> 1 + regCount - (i - 1)]]

\* The instruction part of UnwindRewriter::convertEntry.
EntryRules(enc, subl) ==
    CASE enc.mode = MODE_RBP -> convertRbpFrameEncoding(enc)
      [] enc.mode \in {MODE_IMMD, MODE_IND} -> convertFramelessEncoding(enc, subl)
      [] OTHER -> <<>>

\* Bytes a rule occupies: opcode byte and its (U/S)LEB128 operands.
LebLen(n) == IF n \in -64..63 THEN 1 ELSE IF n \in -8192..8191 THEN 2 ELSE 3
ULebLen(n) == IF n < 128 THEN 1 ELSE IF n < 16384 THEN 2 ELSE 3
RuleBytes(rule) ==
    CASE rule.op = "def_cfa_offset" -> 1 + ULebLen(rule.n)
      [] rule.op = "def_cfa_register" -> 1 + ULebLen(rule.reg)
      [] rule.op = "offset" -> 1 + LebLen(rule.n)

RECURSIVE RulesBytes(_)
RulesBytes(rules) ==
    IF rules = <<>> THEN 0 ELSE RuleBytes(Head(rules)) + RulesBytes(Tail(rules))

(***************************************************************************)
(* Reference definitions, from what the unwinder (libunwind's              *)
(* CompactUnwinder_x86_64) restores for an encoding.                       *)
(***************************************************************************)

\* Rank of a sequence of distinct registers in the lexicographic order of
\* all k-permutations of 1..6: the inverse of the compact encoder.
FallingFactorial(n, k) ==
    LET RECURSIVE F(_, _) F(a, b) == IF b = 0 THEN 1 ELSE a * F(a - 1, b - 1)
    IN F(n, k)
PermutationRank(regs) ==
    LET k == Len(regs)
        smallerUnused(i) ==
            Cardinality({u \in 1..6 : u < regs[i] /\
                                      \A j \in 1..(i - 1) : regs[j] # u})
        RECURSIVE Sum(_)
        Sum(i) == IF i > k THEN 0
                  ELSE smallerUnused(i) * FallingFactorial(6 - i, k - i) + Sum(i + 1)
    IN Sum(1)

\* Number of distinct orders of k saved registers out of six.
PermutationCount(k) == FallingFactorial(6, k)

IsRegisterOrder(regs, k) ==
    /\ Len(regs) = k
    /\ \A i \in 1..k : regs[i] \in 1..6
    /\ \A i, j \in 1..k : i # j => regs[i] # regs[j]

\* What the unwinder restores: saved register -> CFA slot factor.
RbpFrameSlot(enc, i) == ExtractBits(RbpFrameRegisters(enc), 3 * i, 3)
UnwinderRbpSaves(enc) ==
    { <<compactRegisterMap[RbpFrameSlot(enc, i)], 2 + RbpFrameOffset(enc) - i>> :
        i \in {j \in 0..4 : RbpFrameSlot(enc, j) # 0} }

\* The (register, factor) pairs and CFA offset a rule list defines.
RuleSaves(rules) ==
    { <<rules[i].reg, rules[i].n>> : i \in {j \in 1..Len(rules) : rules[j].op = "offset"} }
RuleCfaOffsets(rules) ==
    { rules[i].n : i \in {j \in 1..Len(rules) : rules[j].op = "def_cfa_offset"} }
=============================================================================
