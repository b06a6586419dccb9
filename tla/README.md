# TLA+ models of macho2elf

This directory holds TLA+ models of the converter in `src/converter` (Mach-O to
ELF) and of the state-carrying parts of the compatibility library in
`src/macoscompat`. The models are checked with TLC. `PROJECT.json` lists the
following, in machine-readable form:

- components;
- runs;
- the line ranges each definition models;
- findings;
- hazards.

## The system

`src/converter/main.cpp` is a single-threaded batch program. It runs these
steps in order:

1. It maps Mach-O sections and segments onto ELF ones (`SectionHelper`).
2. It translates bound and exported symbols through the rule file
   (`TranslationHelper`).
3. It builds `.dynamic`, `.dynstr`, `.dynsym`, `.gnu.hash` and `.rela.dyn`
   (`DynBuilder`).
4. It injects the startup trampoline (`EmbeddedCodeBuilder`).
5. It decodes `__unwind_info` (`decodeCompactUnwindTable`).
6. It rewrites the unwind data as a new `.eh_frame` (`UnwindRewriter`), which
   uses `DwarfUnwindParser` for the original `__eh_frame`.
7. It writes `.eh_frame_hdr` (`EhFrameBuilder`).

Every builder follows the same protocol. Before `writer.layout()` it writes
placeholder values and records where they are. After layout it rewrites them
from the final addresses (main.cpp:646-663).

The compatibility library is mostly stateless forwarding. Two parts share
state between threads: the Mach semaphore shims and their `IndexAllocator`.

## Inventory

| Component | State | Operations | Hard behaviour |
|---|---|---|---|
| Compact unwind decoder | index entries, common and per-page encodings, LSDA table | decodeCompactUnwindTable, findLsda, decodeCompatEncodingPermutation | permutation (Lehmer) decoding; page encodings kept across pages; unchecked indexes |
| Unwind rewriter | byte stream, relocation positions, search map, section cache | convert, writeCie, convertEntry, convertRbpFrameEncoding, convertFramelessEncoding, fixup | back-patched lengths; PC-relative fields re-based after layout; function-end guess |
| DWARF parser | stream position, current CIE, pcrelUsages, section bounds | parse, readInstructions, readEncoded | failed reads past the end; FDEs read with the last CIE; uint32 record offset |
| eh_frame_hdr | header bytes | build, writeAtFixup | 32-bit relative table |
| DynBuilder | symbols, relocations, tags, strings | build, addSymbol, buildGnuHash, buildDynsym, addRelocation, updateRelocationOffset, finalize, fixup | GNU hash sort, bloom and chains; re-serialising after fixup |
| EmbeddedCodeBuilder | blob, data slots | build, createRelocations, fixup | marker scan over every byte offset |
| SectionHelper | cached index | findSectionByVA | stale cache |
| TranslationHelper | library and symbol maps | load, registerLibrary, mapSymbol | fallback library, duplicate needed entries |
| IndexAllocator and semaphores | pages, firstFreePage | allocate, get, free; semaphore_create, destroy, signal, wait | index reuse after free; unlocked get during push_back |

## Modules

### CompactEncoding

This module holds the pure algorithms of the unwind rewriter and decoder, as
operators:

- the mask fields (`EXTRACT_BITS`);
- `decodeCompatEncodingPermutation`, which models the divisor table, the digit
  extraction and the renumbering to unused registers;
- `convertRbpFrameEncoding`;
- `convertFramelessEncoding`.

DWARF instructions are records (`def_cfa_offset`, `def_cfa_register`,
`offset`). The module compares them with reference definitions taken from what
the compact unwinder restores for an encoding:

- `PermutationRank` is the encoder's rank among the k-permutations of 1..6.
- `UnwinderRbpSaves` gives slot *i* at factor `offset + 2 - i`.

### MCCompactEncoding

This module picks one encoding in `Init` and performs one conversion step.
Every frameless encoding of 1 to 6 registers the encoder can produce is
enumerated, with both stack forms. So is every packed RBP-frame slot list.
Gapped slot lists are not checked by any run. Setting `AllRbpSlots = TRUE`
enumerates every 0..6 value in all five slots. `RbpFrameRegistersRestored`
then fails at slot 0 empty and slot 1 used: `convertRbpFrameEncoding` does not
shift past a zero slot (hazard at unwind_rewriter.cpp:170). Compilers pack the
slots, so the project's run keeps the packed inputs.

### UnwindRewriter

This module models `UnwindRewriter::convert` and `fixup` as steps of the
conversion.

The stream is abstracted to the values of the fields a reader interprets, as
`mem`, a map from stream position to value:

- lengths;
- CIE ids and pointers;
- the augmentation string;
- the PC-relative pointers;
- the FDE's 32-bit range length.

Record sizes are the code's byte counts, including the LEB128 instruction sizes
and `align(8)`.

The steps are:

| Step | What it models |
|---|---|
| `StartConvert` | `dwarfParser.parse` (the `Parse` operator of DwarfUnwindParser) and the copy of the original section without its terminator; a parser that throws, loops or finds no section ends the conversion |
| `SkipUnbounded` | the loop iteration with no function end (diagnostic, continue) |
| `ConvertSynthesized` | writeCie, then the FDE of convertEntry |
| `ConvertFails` | `personalities.at` or the `subl` read throwing |
| `ConvertDwarf` | DWARF-mode entries |
| `SkipNoUnwind` | entries of any other mode |
| `FinishConvert` | the terminator and the sort |
| `Layout` | the writer places `.eh_frame` |
| `Fixup` | `fixup(addr)` |
| `Done` | the terminal stutter |

The original `__eh_frame` is a constant: its bytes, and, as data the code
never reads, its records and the PC-relative pointer fields it really has.
`pcrelUsages` is what `Parse` returns over those bytes, so `fixup` re-bases the
fields the parser found, not the ones the input has.

### DwarfUnwindParser

This module models `src/converter/unwind_dwarf.cpp` as operators over the
section bytes. The parser is a pure function of them, so no variables are
needed. The stream is a record `[pos, usages, outcome, value]`:

- `pos` is the stream position;
- `usages` is `pcrelUsages`;
- `outcome` is `"ok"`, `"done"`, `"returned"` (a bad CIE version),
  `"threw"` or `"loops"` (a walk that never ends);
- `value` is the result of the last read.

| Operator | Code |
|---|---|
| `ReadFixed`, `ReadLeb` | `vs.read<T>()`, `read_uleb128`/`read_sleb128` |
| `ReadEncoded` | `readEncoded`: the format, pcrel and its usage record, the throws |
| `CfaOperands`, `Instruction`, `ReadInstructions` | the opcode switch and loop of `readInstructions` |
| `AugString`, `AugData`, `ParseCie` | the CIE branch of `parse` |
| `ParseFde` | the FDE branch, with the LSDA re-read |
| `ParseFrom`, `Parse` | the record loop of `parse` |

The code dereferences reads without checking them. A read past the end of the
section leaves the stream where it is, and yields whatever the build produces.
That value is the constant `ReadError`. Every cfg sets it to 1, the value LIEF's
error code gives in a release build. `With(v, LAMBDA x: ...)` threads the
stream from one statement to the next, evaluating each step once.

### MCUnwindRewriter

This module supplies the model values:

- Two sections hold functions.
- Five function offsets: inside each section, between the sections, and past
  them.
- Seven representative encodings: RBP with and without LSDA, an immediate
  frameless, an indirect frameless with LSDA, none, an LSDA without
  personality, and DWARF.
- Lists of 1 to 3 sorted entries.
- Two placements of the new section: at the original's offset and elsewhere.
- The original `__eh_frame` as bytes, laid out the way compilers emit it:
  - `MCOrigEmpty`, the terminator alone;
  - `MCOrigDwarf`, a `zR` CIE and its FDE, then a `zPLR` CIE (indirect
    personality) and an FDE with an LSDA, then the terminator;
  - `MCOrigDwarfPlainLast`, the same with a plain CIE before the terminator.

  The pointers are sdata4 pcrel fields, computed from their own position.

### CompactUnwindDecoder

This module models the loop of `decodeCompactUnwindTable` and `findLsda`
(`src/converter/unwind_compact_decoder.cpp`). The section is given already
split into its structures (common encodings, index entries, pages, LSDA
index); the header and personality reads are data movement and are left out.
The state is the loop position (`pc`, `i`, `j`), `compact_encodings[]` as
`encodings` and the output list `entries`.

| Step | Code |
|---|---|
| `ReadCommonEncodings` | lines 32-39, with the "Too many common encodings" abort |
| `SkipIndexEntry` | an entry without a page, or whose page header cannot be read (line 55) |
| `OpenCompressedPage` | lines 65-78: page encodings written after the common ones, "Too many encodings" |
| `OpenRegularPage` | lines 87-92 |
| `UnknownPageKind` | line 100 |
| `DecodeEntry` | one entry of either page kind, with `findLsda` and its abort |
| `ClosePage`, `FinishDecode`, `Done` | end of a page, of the index, terminal stutter |

`findLsda` is the recursive `LowerBound` (std::lower_bound) over the range
`[lsdaStart_i, lsdaStart_{i+1})` followed by the exact-match check. Slots of
`compact_encodings[]` nothing has written hold `Uninit`; reading one gives any
encoding of the constant `Garbage`.

### MCCompactUnwindDecoder

The sections are generated the way the linker lays the format out, from an
abstract description: three functions at offsets 16, 32 and 48, each with one
of three encodings (one has the has-LSDA bit); 1 to 3 pages, each compressed or
regular; 0 to 2 common encodings; page-local encodings in order of first use;
one sorted LSDA index split by the index entries' `lsdaStart`; a sentinel index
entry without a page. Each section carries, as data the code never reads, the
entries it describes and whether the format forbids it. `compact_encodings[]`
has two slots, so a compressed page with its own encoding after two common
ones is over the limit, as 257 would be in the code. Three hand-made sections
are forbidden in other ways: an LSDA missing from the index, an unknown page
kind, three common encodings.

### IndexPool, IndexAllocator, MachSemaphores

`IndexPool` is the abstract contract of an index allocator. `allocate()`
returns any natural number no caller holds and marks it held, and `free()`
releases a held one.

`IndexAllocator` models `allocate()` and `free()` of
`src/macoscompat/index_allocator.h`, line by line:

- the page-append guard;
- the slot search, including its result `PerPage` when the page is full;
- the hint update;
- the returned index.

It also models the write past `used[]`, which is recorded as `overflow`.
`ImplementsIndexPool` is `IndexPool!Spec` under the refinement mapping
`inUse <- UsedIndices`.

`MachSemaphores` composes the allocator (by `INSTANCE`) with the threads of
`src/macoscompat/main.cpp:145-173`. `semaphore_create` and `semaphore_destroy`
run under the mutex and are single steps. `get()`, called without the mutex by
signal, wait and timedwait, is two steps: load `pages.data()`, then read the
page pointer. The storage generation changes whenever `push_back` reallocates
the vector.

### EhFrameHdr

This module composes `EhFrameBuilder` (main.cpp:396-429) with the unwind
rewriter, in the order `main()` drives them (main.cpp:602-663):

| Step | What it models |
|---|---|
| `HdrBuild` | `build`: 12 + 8 bytes per search-map pair reserved |
| `LayoutOutput` | `writer.layout()`: `.eh_frame`, then `.eh_frame_hdr` 4-aligned after it |
| `FixupOutput` | `unwindRewriter.fixup` |
| `HdrWrite` | `writeAtFixup`: `eh_frame_ptr`, the count, and the table of (function, FDE) offsets relative to the header |
| `OutputDone` | the terminal stutter |

`OutputSpec` is the rewriter's specification extended with these steps. The
`MCUnwindRewriter*` configurations check it.

### TranslationHelper, GnuHash, DynBuilder

These modules hold the converter's helpers:

- **TranslationHelper** (`translation_helper.cpp`) holds pure operators:
  - `load` folds the rule lines, and a symbol rule before any library throws;
  - `registerLibrary` adds each target library once per registration;
  - `mapSymbol` returns the rule or the fallback: the first target library,
    with one leading underscore stripped.
- **GnuHash** holds `buildGnuHash`: the stable sort by bucket, the bloom
  words, the bucket heads, the hash values and the terminator bits. As a
  reference it also holds glibc's lookup (`GnuLookup`: bloom test, bucket
  head, chain walk).
- **DynBuilder** gives each member of the `DynBuilder` class a variable. The
  data serialised into a section is kept apart from the vector it was copied
  from, because the code re-serialises at fixed points. `StrData` interning
  computes offsets from the tokens' byte lengths.

`SeqFoldLeft` is a plain recursive left fold. `FoldLeft` from `SequencesExt`
recurses too deeply for TLC's coverage mode at these lengths.

### Converter and MCConverter

`Converter` models `main()` of `main.cpp`, one action per step in the code's
order. `phase` names the statement reached. The actions are:

- `LoadRules` and `LoadRulesThrows`;
- `MapSections`, which also does the renaming;
- `ComputeBase`;
- `RegisterLibraries`;
- `BuildDynamic`;
- `BuildEmbedded`, which stops on a blob shorter than its trailer;
- `AddBoundSymbols`;
- `AddExportedSymbols`, which uses `findSectionByVA` and its cache;
- `BuildSymbolTable`;
- `CreateRelocations`;
- `AddRebaseRelocations` and `AddBindingRelocations`, which stop on an
  unsupported type;
- `BuildRelocationTable`;
- `FinalizeStrings`;
- `LayoutImage`;
- `FixupEmbedded`: slot offsets, the byte-wise marker scan, and `DT_FINI`;
- `FixupDynamic`;
- `SaveOutput`: the entry point;
- `Exited`.

The ELF writer is an external collaborator. Its layout is abstracted to
sections placed in the `cLoadData` order from `ourBase`, each 8-aligned. The
unwind sections take `UnwindSize` bytes. `.compat.text` is placed at any page
offset in `TextPlacements`.

`MCConverter` supplies seven Mach-O images:

- an executable with 12 exports: two buckets, two bloom words, a name equal
  to another once stripped, a weak export, a data-flagged export, and one
  outside every section;
- a dylib;
- an image without an init section or rebases, with its exports reversed;
- an image with a non-pointer rebase;
- an image with a lazy binding;
- a rule file with a symbol rule first;
- an image with a 12-byte blob.

The rules rename `_open`, empty `_exit`, and give `libSystem` two targets.
`libFoo` has no rule.

Hashes are the real `dl_new_hash` values of the names. The blob has markers
for slots 0, 2 and 1. The last marker is in the blob's last word.

## Runs

| Run | Expect | Shows |
|---|---|---|
| compact_encoding | pass | Frameless rules restore exactly the encoded registers in the encoded order, at the unwinder's slots. Packed RBP-frame rules match the unwinder. |
| unwind_rewriter | pass | With base 0x100000000, the record chain is intact, the search map has one FDE per converted function, and every personality, function and LSDA pointer resolves after placement. `.eh_frame_hdr`, written after layout, leads from each function to its FDE. |
| unwind_rewriter_dwarf | pass | With base 0 and the original DWARF records kept as prefix: the parser records exactly the input's pcrel fields, the chain holds, DWARF entries map to their own FDE, synthesised FDE ranges stay inside their sections without overlapping. |
| fde_ranges_base | violation | With a non-zero base, an FDE runs past its section's end (unwind_rewriter.cpp:28). |
| dwarf_fde_moved | violation | Copied DWARF FDE pointers are moved the wrong way by `fixup` (unwind_rewriter.cpp:225). |
| eh_frame_terminator | violation | When the original section ends with an FDE, the parser reads the terminator as one more FDE (unwind_dwarf.cpp:24). Its pointers are recorded at the old section size, which is the id of the first synthesised CIE after the copy. `fixup` then changes that id twice, and the CIE reads as an FDE. |
| compact_decoder | pass | Each of 1461 sections decodes to exactly the entries it describes, and the forbidden ones abort. |
| index_allocator | pass | Across allocate/free sequences, no page before `firstFreePage` has a free slot, and every returned index has a page. The second holds only because a page is appended on every call (`<=` at index_allocator.h:21). That is a page leak, which the code's TODO admits; no run checks it. |
| index_allocator_pool | violation | free, allocate, allocate: the second allocate runs past a full page and returns an unmarked, possibly held index (index_allocator.h:30). |
| converter | pass | For every image, the GNU hash agrees with glibc's lookup for every export and for absent names. Every export inside a section is defined in it, through the section cache. `.rela.dyn` has the trampoline, rebase and binding relocations, with the translated targets. After fixup, `.dynamic` points at the final sections and sizes. Every trampoline marker reaches its data slot. |
| export_types | violation | Every export, including functions in `__text`, is typed `STT_OBJECT`, because `useAsObj` compares the renamed `.text` with `"__text"` (main.cpp:559). |
| semaphore_get_race | violation | A thread inside an unlocked `get()` holds vector storage that `semaphore_create` has just reallocated (main.cpp:162). |

### What the properties say

`EhFrameWellFormed` walks the records the way a reader does. It starts at
offset 0, follows the length words through the copied and synthesised records,
and must reach the terminator. Every FDE's CIE pointer must lead to a CIE.

`SearchMapComplete` relates the finished search map to the input entries:

- it is ascending;
- it has exactly one pair per converted entry;
- each pair names an FDE, or the original offset of a DWARF-mode entry.

`UnwindPointersResolve` resolves every pointer after `fixup`, using the final
section address, and compares the result with the function, the LSDA and the
personality slot.

`ParserFindsPcrel` relates what `parse` records to the input it read. Each
PC-relative pointer field of the original records must be recorded once, with
its format, and nothing else may be recorded. Breaking it takes a wrong step
anywhere in the walk: a misread width, a skipped operand, or a record read
that is not there.

`DecodesExactly` relates the decoder's output to the section it was given: a
section the format allows is never rejected, and a finished decode was of an
allowed section and returned its functions, encodings and LSDAs in order.

`FdeRangesInsideSections` states that each synthesised FDE covers a non-empty
range inside its section, and that no two ranges overlap.

`HdrLocatesFdes` reads `.eh_frame_hdr` the way the unwinder does:

- `eh_frame_ptr` resolves to `.eh_frame`;
- the table is strictly ascending and fits the reserved size;
- each converted function's row leads to an FDE whose `pc_begin` is that
  function.

`GnuHashFindsExports` runs glibc's lookup on the built table for every
exported name and for three absent ones. It must return the first export of
that name.

`ExportsDefined` relates the exports to the sections that contain them. It
must hold across the cache hits and misses of `findSectionByVA`.

`RelocationsBindTargets` checks the written `.rela.dyn`, in order:

- the four trampoline slots;
- the rebases;
- the bindings, each against the symbol the rules translate it to.

`DynamicTagsFinal` checks the written `.dynamic` after fixup:

- every placeholder tag and size is final;
- `DT_FINI` is final;
- each `DT_NEEDED` and each `st_name` names the right string in the written
  `.dynstr`.

`MarkersPatched` says that each aligned marker's displacement reaches its data
slot, and that no other byte changed.

Each property of a passing run is broken by a plausible bug in the mapped code.
These mutants are listed in `PROJECT.json`:

- a wrong divisor;
- an off-by-one rank;
- an off-by-one slot factor;
- a missing `-4` in a length;
- no relocation for the LSDA;
- a misplaced personality relocation;
- the next-entry bound ignored outside sections;
- an unchecked section cache;
- the terminator kept;
- the compressed function offset without the index entry's base;
- no `.eh_frame` adjustment in the header pointer;
- bucket heads relative to `symndx`;
- an open-ended section-cache check;
- no underscore stripped in the fallback;
- `.dynamic` serialised before its tags are fixed;
- a marker scan one byte short;
- the FDE's PC range decoded with the full pointer encoding, which records it
  as a pcrel usage.

## Bounds and abstractions

- **Word size.** 32-bit fields are modelled modulo `Word = 65536`, which stands
  for 2^32. `Base = Word` is the real executable base 0x100000000. The code
  relies on that base being a multiple of 2^32: it truncates absolute addresses
  to `uint32_t`. The scaled model keeps that relationship.
- **Entry lists.** Three entries reach every ordering question of the loop: a
  section change, a cache hit, a function with no section followed by one in a
  section, and the last entry without a bound.
- **Allocator.** `PerPage = 2` and five `allocate()` calls reach every path:
  a page filled, a free into an earlier page, a reallocation of a freed slot
  that is not the last one, and the full-page search. Nothing in the code
  depends on `PerPage` being 64.
- **Semaphores.** Two threads and three creates reach two vector
  reallocations, at capacities 0 to 1 and 1 to 2.
- **Decoder sections.** Three functions over up to three pages reach a
  function per page, a page with several functions, encodings shared through
  the common array and through a page's own array, LSDA ranges split between
  index entries and empty for the last one, and the encoding limit.
- **Placements.** The two `.eh_frame` placements distinguish "not moved" from
  "moved".
- **Converter images.** Seven images reach every action and early exit of
  `main()` as modelled. Eleven exports make two buckets and two bloom words,
  so the sort actually moves symbols and a chain ends inside the array. The
  cache is hit, missed and stale, and one address lies outside every section.
  Three text placements separate the marker displacement from the absolute
  address.
- **Names and hashes.** Names are sequences of tokens with a byte length
  each. A hash is a table lookup of the real value. Bucket and bloom
  arithmetic uses the real 32-bit hashes.
- **Failed reads.** A read past the end of `__eh_frame` yields `ReadError = 1`.
  With 0 instead, the terminator would read as a CIE, and the walk would end
  with a plain return.
- **Original `__eh_frame`.** Three inputs of 4, 128 and 144 bytes reach:
  - every augmentation character;
  - an indirect personality pointer outside the section;
  - an LSDA read twice;
  - pcrel fields in FDEs and in a CIE;
  - a last record that is an FDE (the terminator run) and one that is a CIE.

  The CFA programs use these instructions: `def_cfa`, `def_cfa_offset`,
  `def_cfa_register`, `offset`, `offset_extended`, `advance_loc`,
  `advance_loc1`, `GNU_args_size`, `restore` and `nop`.
- **Indirect stack size.** The stack operand read for the indirect form is a
  constant (`Subl`). `Unreadable` names the function whose read fails.

## Fairness

No model assumes fairness, and every checked property is an invariant. A
termination property for the rewriter was dropped. Its only breakable form
needed an entry loop that stops advancing, and the code's `for` loop cannot
do that: `i++` runs on the `continue` too. The parser's non-termination needs
a record length near 2^32, which no input has. Each model ends in a `Done` stutter, so deadlock checking stays on. The states where
the conversion crashed (no `__eh_frame`) or hangs (a parser that loops) have no
step, and TLC would report them as deadlocks.

## Not modelled, and the plan

- **Segments and program headers.** The `PT_LOAD`, `PT_DYNAMIC`,
  `PT_GNU_EH_FRAME` and `PT_INTERP` objects and `setup_elf` are writer calls.
  No property reads them.
- **The ELF writer's layout.** It is abstracted as described above.
- **DT_INIT_ARRAY.** Its value is the init section's address, set by the
  section loop before `build()` and kept by the writer. It is taken as given.
- **The page leak of `IndexAllocator`.** It is documented as a hazard, not
  checked.
- **Unaligned markers.** The marker scan also matches the pattern at
  unaligned offsets. The modelled blob has no such bytes.
- **A binary without `__eh_frame`.** `AfterParse` takes it to `"crashed"`
  (a null dereference at unwind_rewriter.cpp:10). A binary whose functions all
  have compact encodings often has no `__eh_frame`, so this case is real. No
  run feeds such an input; the pass runs would report it as a deadlock.
- **DWARF expression operands.** No input contains `DW_CFA_expression`,
  `DW_CFA_def_cfa_expression`, `DW_CFA_val_expression`, `remember_state` or an
  sleb128 pointer. The model reads them as the code does; they are listed as
  hazards.
- **Not planned:**
  - `info_print.cpp`, which only formats output;
  - the forwarding shims of `macoscompat` (dyld, fs, math, locale, signals,
    `open` and `dlopen` flags). They are stateless wrappers over libc. Their
    flag translation is right or wrong according to the numeric values of the
    Darwin and Linux header constants, and the repository has neither set of
    headers. The locale files (`none.c`, `xlocale*`, `_ctype.h`) are FreeBSD
    libc code carried unchanged;
  - `getsectdata` (dyld.cpp:30-70). It maps `__x` to `.x`, ignores the
    segment, and returns the first match. Composed with `ElfSectionName`, it
    returns the rebuilt `.eh_frame` for `__eh_frame`, and the first of two
    same-named sections from different segments. It is listed as a hazard.
    Checking it would need one more violation run, and the twelve runs are
    spent on the converter and the unwind rewriter;
  - LIEF parsing, and reading the rule and blob files, which are inputs here.

## Reproducing

```
tlc -workers 2 -config MCCompactEncoding.cfg MCCompactEncoding
tlc -workers 2 -config MCUnwindRewriter.cfg MCUnwindRewriter
tlc -workers 2 -config MCConverter.cfg MCConverter
```

Every other run in `PROJECT.json` is reproduced the same way, with its own cfg.
