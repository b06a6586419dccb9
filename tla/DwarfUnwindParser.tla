-------------------------- MODULE DwarfUnwindParser --------------------------
(***************************************************************************)
(* DwarfUnwindParser (src/converter/unwind_dwarf.cpp): walks the CIE/FDE   *)
(* chain of the input's __eh_frame only to record where a PC-relative     *)
(* pointer was decoded.  The parser is a pure function of the section's   *)
(* bytes, so it is modelled by operators: Parse(S) is what parse() leaves *)
(* in pcrelUsages and how it ends.                                         *)
(*                                                                         *)
(* S = [begin : VA of the section, bytes : its content].  The stream is  *)
(* threaded through the operators as a record                             *)
(*   [pos, usages, outcome, value]                                        *)
(* (the stream position, pcrelUsages, "ok" / "done" / "returned" /        *)
(* "threw" / "loops", the value of the last read).  Values are modulo     *)
(* Word, the scaled 2^32 of the other modules; a 64-bit read keeps its low *)
(* word.                                                                   *)
(*                                                                         *)
(* A read past the end of the section fails: LIEF's read<T>() returns an  *)
(* error without moving the stream, and the code dereferences the result  *)
(* unchecked.  That is undefined behaviour; the value it yields in the    *)
(* build is the constant ReadError (in a release build the bytes of the  *)
(* stored error code).                                                    *)
(***************************************************************************)
EXTENDS Integers, Sequences, TLC

CONSTANTS
    Word,      \* modulus of 32-bit values
    ReadError  \* what *stream.read<T>() yields for a failed read

ASSUME Word % 65536 = 0 /\ ReadError \in 0..255

\* Pointer encodings of dwarf2.h used by name.
DW_EH_PE_uleb128 == 1
DW_EH_PE_sdata2  == 10
DW_EH_PE_sdata4  == 11
DW_EH_PE_omit    == 255

\* The byte width of each fixed-size value format (low nibble).
FormatWidth == (0 :> 8) @@ (2 :> 2) @@ (3 :> 4) @@ (4 :> 8)
               @@ (9 :> 8) @@ (10 :> 2) @@ (11 :> 4) @@ (12 :> 8)

-----------------------------------------------------------------------------
(* Reading the stream *)

Size(S) == Len(S.bytes)
Byte(S, k) == S.bytes[k + 1]

RECURSIVE LE(_, _, _)
LE(S, k, n) == IF n = 0 THEN 0 ELSE Byte(S, k) + 256 * LE(S, k + 1, n - 1)

\* Little-endian value of n bytes at k, modulo Word (a 64-bit value keeps
\* its low 32 bits).
Raw(S, k, n) ==
    IF n <= 2 THEN LE(S, k, n)
    ELSE (LE(S, k, 2) + 65536 * (LE(S, k + 2, 2) % (Word \div 65536))) % Word

\* vs.read<T>() of an n-byte value.
ReadFixed(S, st, n) ==
    IF st.pos + n <= Size(S)
    THEN [st EXCEPT !.pos = @ + n, !.value = Raw(S, st.pos, n)]
    ELSE [st EXCEPT !.value = ReadError]

\* LEB128: the position after the last byte, -1 when the section ends first.
RECURSIVE LebEnd(_, _)
LebEnd(S, k) ==
    IF k >= Size(S) THEN -1
    ELSE IF Byte(S, k) < 128 THEN k + 1 ELSE LebEnd(S, k + 1)

RECURSIVE LebValue(_, _)
LebValue(S, k) ==
    IF Byte(S, k) < 128 THEN Byte(S, k)
    ELSE (Byte(S, k) - 128 + 128 * LebValue(S, k + 1)) % Word

\* read_uleb128 / read_sleb128 (the same bytes are consumed).
ReadLeb(S, st) ==
    LET e == LebEnd(S, st.pos) IN
    IF e = -1 THEN [st EXCEPT !.pos = Size(S), !.value = ReadError]
    ELSE [st EXCEPT !.pos = e, !.value = LebValue(S, st.pos)]

Fail(st) == [st EXCEPT !.outcome = "threw"]

\* Op applied to the value of v, v evaluated once: the next statement of
\* the parser runs on the stream the previous one left.
With(v, Op(_)) == CHOOSE r \in {Op(x) : x \in {v}} : TRUE

-----------------------------------------------------------------------------
(***************************************************************************)
(* readEncoded: the value in the format of the low nibble (sdata2 sign-   *)
(* extended, sleb128 read as a fixed int64), plus the field's address for *)
(* pcrel, which also records [offset in the section, low nibble]; the     *)
(* other application classes, unknown formats and indirect pointers into *)
(* the section itself throw.                                              *)
(***************************************************************************)
ReadEncoded(S, st, enc) ==
    LET fmt == enc % 16
        app == (enc \div 16) % 8
    IN
    IF st.outcome # "ok" THEN st
    ELSE IF fmt # DW_EH_PE_uleb128 /\ fmt \notin DOMAIN FormatWidth THEN Fail(st)
    ELSE With(IF fmt = DW_EH_PE_uleb128 THEN ReadLeb(S, st)
              ELSE ReadFixed(S, st, FormatWidth[fmt]), LAMBDA r:
         LET v == IF fmt = DW_EH_PE_sdata2 /\ r.value >= 32768
                  THEN (r.value - 65536) % Word ELSE r.value
             result == IF app = 1 THEN (v + S.begin + st.pos) % Word ELSE v
             inSection == result >= S.begin % Word
                          /\ result < (S.begin + Size(S)) % Word
         IN IF app \notin {0, 1} THEN Fail(r)
            ELSE IF enc >= 128 /\ inSection THEN Fail(r)
            ELSE [r EXCEPT !.value = result,
                           !.usages = IF app = 1
                                      THEN Append(@, [pos |-> st.pos, enc |-> fmt])
                                      ELSE @])

-----------------------------------------------------------------------------
(***************************************************************************)
(* readInstructions: the operands each DW_CFA opcode of the switch skips: *)
(* "leb" a ULEB128 or SLEB128, "enc" a pointer in the CIE's encoding,    *)
(* "b1", "b2", "b4" a setpos over that many bytes, "block" a ULEB128      *)
(* length and a setpos over that many bytes.  def_cfa_expression and     *)
(* expression skip two blocks; val_expression two ULEB128s.              *)
(***************************************************************************)
CfaOperands ==
    (0 :> <<>>) @@ (1 :> <<"enc">>) @@ (2 :> <<"b1">>) @@ (3 :> <<"b2">>)
    @@ (4 :> <<"b4">>) @@ (5 :> <<"leb", "leb">>) @@ (6 :> <<"leb">>)
    @@ (7 :> <<"leb">>) @@ (8 :> <<"leb">>) @@ (9 :> <<"leb", "leb">>)
    @@ (12 :> <<"leb", "leb">>) @@ (13 :> <<"leb">>) @@ (14 :> <<"leb">>)
    @@ (15 :> <<"block", "block">>) @@ (16 :> <<"block", "block">>)
    @@ (17 :> <<"leb", "leb">>) @@ (18 :> <<"leb", "leb">>)
    @@ (19 :> <<"leb">>) @@ (20 :> <<"leb", "leb">>)
    @@ (21 :> <<"leb", "leb">>) @@ (22 :> <<"leb", "leb">>)
    @@ (46 :> <<"leb">>) @@ (47 :> <<"leb", "leb">>)

SkipWidth == ("b1" :> 1) @@ ("b2" :> 2) @@ ("b4" :> 4)

SkipOperand(S, st, cie, kind) ==
    CASE kind = "leb"   -> ReadLeb(S, st)
      [] kind = "enc"   -> ReadEncoded(S, st, cie.pointerEncoding)
      [] kind = "block" -> With(ReadLeb(S, st), LAMBDA l: [l EXCEPT !.pos = @ + l.value])
      [] OTHER          -> [st EXCEPT !.pos = @ + SkipWidth[kind]]

RECURSIVE SkipOperands(_, _, _, _)
SkipOperands(S, st, cie, ops) ==
    IF ops = <<>> THEN st
    ELSE SkipOperands(S, SkipOperand(S, st, cie, Head(ops)), cie, Tail(ops))

\* One instruction; the high two bits give DW_CFA_advance_loc (1),
\* DW_CFA_offset (2, a ULEB128 operand) and DW_CFA_restore (3); any other
\* opcode (remember_state and restore_state among them) throws.
Instruction(S, st, cie) ==
    With(ReadFixed(S, st, 1), LAMBDA o:
         IF o.value \in DOMAIN CfaOperands
         THEN SkipOperands(S, o, cie, CfaOperands[o.value])
         ELSE IF o.value \div 64 = 2 THEN ReadLeb(S, o)
         ELSE IF o.value \div 64 \in {1, 3} THEN o
         ELSE Fail(o))

\* The loop runs while the position is below the end; a step that does not
\* move the stream repeats forever.
RECURSIVE ReadInstructions(_, _, _, _)
ReadInstructions(S, st, cie, end) ==
    IF st.outcome # "ok" \/ st.pos >= end THEN st
    ELSE With(Instruction(S, st, cie), LAMBDA n:
         IF n.outcome = "ok" /\ n.pos = st.pos THEN [n EXCEPT !.outcome = "loops"]
         ELSE ReadInstructions(S, n, cie, end))

-----------------------------------------------------------------------------
(* The CIE/FDE chain *)

\* CieInfo() as declared in unwind_dwarf.h.
DefaultCie == [fdesHaveAugmentationData |-> FALSE, pointerEncoding |-> 0,
               lsdaEncoding |-> DW_EH_PE_omit]

\* The augmentation string: characters up to a NUL, at most 256 reads; a
\* failed read yields ReadError and leaves the stream where it is.
RECURSIVE AugString(_, _, _)
AugString(S, st, n) ==
    IF n = 256 THEN [chars |-> <<>>, st |-> st]
    ELSE With(ReadFixed(S, st, 1), LAMBDA c:
         IF c.value = 0 THEN [chars |-> <<>>, st |-> c]
         ELSE With(AugString(S, c, n + 1), LAMBDA rest:
              [chars |-> <<c.value>> \o rest.chars, st |-> rest.st]))

\* The switch over the augmentation characters: 'z' (122), 'P' (80) a
\* personality encoding and pointer, 'L' (76) the LSDA encoding, 'R' (82)
\* the FDE pointer encoding.
RECURSIVE AugData(_, _, _, _)
AugData(S, st, cie, chars) ==
    IF chars = <<>> THEN [st |-> st, cie |-> cie]
    ELSE LET ch == Head(chars) IN
         With(ReadFixed(S, st, 1), LAMBDA b:
            CASE ch = 122 -> AugData(S, st, [cie EXCEPT !.fdesHaveAugmentationData = TRUE],
                                     Tail(chars))
              [] ch = 80  -> AugData(S, ReadEncoded(S, b, b.value), cie, Tail(chars))
              [] ch = 76  -> AugData(S, b, [cie EXCEPT !.lsdaEncoding = b.value], Tail(chars))
              [] ch = 82  -> AugData(S, b, [cie EXCEPT !.pointerEncoding = b.value], Tail(chars))
              [] OTHER    -> AugData(S, st, cie, Tail(chars)))

\* A CIE from its version byte on; end is p + 4 + length.  A version other
\* than 1 or 3 ends parse() with a plain return.
ParseCie(S, st, end) ==
    With(ReadFixed(S, st, 1), LAMBDA v:
    IF v.value \notin {1, 3}
    THEN [st |-> [v EXCEPT !.outcome = "returned"], cie |-> DefaultCie]
    ELSE With(AugString(S, v, 0), LAMBDA a:
         With(ReadLeb(S, ReadLeb(S, ReadLeb(S, a.st))), LAMBDA f:
         With(IF a.chars # <<>> /\ a.chars[1] = 122
              THEN AugData(S, ReadLeb(S, f), DefaultCie, a.chars)
              ELSE [st |-> f, cie |-> DefaultCie], LAMBDA d:
         [st |-> ReadInstructions(S, d.st, d.cie, end), cie |-> d.cie]))))

\* Faulty variant decoding the PC range with the full pointer encoding.
ParseFdeRangeFull(S, st, cie, end) ==
    With(ReadEncoded(S, st, cie.pointerEncoding), LAMBDA pcStart:
    With(ReadEncoded(S, pcStart, cie.pointerEncoding), LAMBDA s:
    ReadInstructions(S, s, cie, end)))

\* An FDE, read with the last CIE parsed (not the one its pointer names):
\* the PC start in the pointer encoding, the PC range in its format only,
\* then, with augmentation data, an LSDA pointer that is decoded again in
\* its full encoding when its plain value is non-zero.
ParseFde(S, st, cie, end) ==
    With(ReadEncoded(S, st, cie.pointerEncoding), LAMBDA pcStart:
    With(ReadEncoded(S, pcStart, cie.pointerEncoding % 16), LAMBDA s:
    With(ReadLeb(S, s), LAMBDA l:
    With(ReadEncoded(S, l, cie.lsdaEncoding % 16), LAMBDA lsda:
    LET withLsda == IF cie.lsdaEncoding # DW_EH_PE_omit /\ l.value > 0
                    THEN IF lsda.outcome = "ok" /\ lsda.value # 0
                         THEN ReadEncoded(S, [lsda EXCEPT !.pos = l.pos], cie.lsdaEncoding)
                         ELSE lsda
                    ELSE l
    IN With(IF cie.fdesHaveAugmentationData
            THEN [withLsda EXCEPT !.pos = l.pos + l.value] ELSE s, LAMBDA a:
       ReadInstructions(S, a, cie, end))))))

\* The loop of parse() from p = st.pos: length and CIE offset, the record,
\* then p += 4 + length in uint32 arithmetic.  Without a growing p the loop
\* walks the same records forever.
RECURSIVE ParseFrom(_, _, _)
ParseFrom(S, st, cie) ==
    IF st.outcome # "ok" THEN st
    ELSE IF st.pos >= Size(S) THEN [st EXCEPT !.outcome = "done"]
    ELSE With(ReadFixed(S, st, 4), LAMBDA len:
         With(ReadFixed(S, len, 4), LAMBDA id:
         LET next == (st.pos + 4 + len.value) % Word IN
         With(IF id.value = 0 THEN ParseCie(S, id, next)
              ELSE [st |-> ParseFde(S, id, cie, next), cie |-> cie], LAMBDA r:
         IF r.st.outcome # "ok" THEN r.st
         ELSE IF next <= st.pos THEN [r.st EXCEPT !.outcome = "loops"]
         ELSE ParseFrom(S, [r.st EXCEPT !.pos = next], r.cie))))

\* parse(): pcrelUsages and how the walk ends.
Parse(S) ==
    ParseFrom(S, [pos |-> 0, usages |-> <<>>, outcome |-> "ok", value |-> 0], DefaultCie)
=============================================================================
