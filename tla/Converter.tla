------------------------------ MODULE Converter ------------------------------
(***************************************************************************)
(* main() of src/converter/main.cpp: the Mach-O image (one of Inputs) is   *)
(* turned into the ELF's dynamic metadata through TranslationHelper,       *)
(* SectionHelper, DynBuilder and EmbeddedCodeBuilder, one step per loop or *)
(* call of main in its order: load the rules, map the sections, compute    *)
(* the base, register the libraries, build .dynamic, build the trampoline, *)
(* add the bound and exported symbols, build .dynsym and .gnu.hash, add    *)
(* the relocations, finalize, lay out, fix up and save.                    *)
(*                                                                         *)
(* The unwind steps between buildDynRela and layout are the modules        *)
(* UnwindRewriter and EhFrameHdr; here .eh_frame and .eh_frame_hdr are only *)
(* the UnwindSize bytes the layout reserves for them.  The ELF writer is    *)
(* external: its layout places the cLoadData sections in order from the   *)
(* base, 8-aligned, and .compat.text in a page of its own after them.       *)
(***************************************************************************)
EXTENDS DynBuilder, TranslationHelper

CONSTANTS
    Inputs,          \* the Mach-O images, rule files and trampoline blobs
    UnwindSize,      \* bytes of .eh_frame and .eh_frame_hdr
    TextPlacements   \* page offsets the layout may give .compat.text

VARIABLES
    phase,        \* the statement of main() reached
    macho,        \* the input being converted
    trans,        \* TranslationHelper::libraries
    registered,   \* libraries of the image with a translation (libTranslationMap)
    neededLibs,   \* neededLibs
    elfSecs,      \* the mapped ELF sections, also SectionHelper::sections
    cachedIndex,  \* SectionHelper::cachedIndex
    initSec,      \* elfInitSec: a position in elfSecs or 0
    ourBase,      \* ourBase
    exportStart,  \* exportedSymbolStart
    relStart,     \* EmbeddedCodeBuilder::relocationStartIndex
    blob,         \* EmbeddedCodeBuilder::embeddedBlobData (bytes)
    embedSyms,    \* EmbeddedCodeBuilder::embeddedSymbols
    layout,       \* the section addresses writer.layout() gave, or "none"
    entry         \* the ELF entry point set, or "none"

mainVars == <<macho, trans, registered, neededLibs, elfSecs, cachedIndex,
              initSec, ourBase, exportStart, relStart, blob, embedSyms, layout, entry>>
convVars == <<phase, mainVars>>
vars == <<convVars, dynVars>>

LibcStartMain == <<"__libc_start_main">>
CxaFinalize == <<"__cxa_finalize">>
MachOText == <<"_", "_", "text">>
LibC == <<"libc.so.6">>
BlobTrailer == 16      \* EMBEDDED_SYMBOL_COUNT * 8
Page == 4096

Align(v, a) == ((v + a - 1) \div a) * a

\* The section loop's renaming: a leading "__" becomes ".", and the Mach-O
\* unwind section is kept as a backup.
ElfSectionName(name) ==
    LET n == IF Len(name) >= 2 /\ name[1] = "_" /\ name[2] = "_"
             THEN <<".">> \o Tail(Tail(name)) ELSE name
    IN IF n = <<".", "eh_frame">> THEN <<".", "eh_frame_bak">> ELSE n

\* getSymbolInfo(desc, isObj)
getSymbolInfo(desc, isObj) ==
    [bind |-> IF desc \cap {"N_WEAK_REF", "N_WEAK_DEF"} # {} THEN "WEAK" ELSE "GLOBAL",
     type |-> IF isObj \/ "0x800" \in desc THEN "OBJECT" ELSE "FUNC"]

\* Faulty variant trusting the cached section when addr is past its start.
findSectionByVAOpenEnd(secs, cache, addr) ==
    LET hits == {k \in 1..Len(secs) : secs[k].start <= addr /\ addr < secs[k].end}
    IN IF cache < Len(secs) /\ addr >= secs[cache + 1].start THEN <<cache + 1, cache>>
       ELSE IF hits = {} THEN <<0, cache>> ELSE <<Min(hits), Min(hits) - 1>>

\* SectionHelper::findSectionByVA: <<position of the section or 0, cache>>;
\* the cached index is tried first, then the first section containing addr.
findSectionByVA(secs, cache, addr) ==
    LET hits == {k \in 1..Len(secs) : secs[k].start <= addr /\ addr < secs[k].end}
    IN IF cache < Len(secs) /\ addr >= secs[cache + 1].start /\ addr < secs[cache + 1].end
       THEN <<cache + 1, cache>>
       ELSE IF hits = {} THEN <<0, cache>> ELSE <<Min(hits), Min(hits) - 1>>

Init ==
    /\ macho \in Inputs
    /\ phase = "load"
    /\ trans = "none" /\ registered = {} /\ neededLibs = <<>>
    /\ elfSecs = <<>> /\ cachedIndex = 0 /\ initSec = 0 /\ ourBase = 0
    /\ exportStart = 0 /\ relStart = 0 /\ blob = <<>> /\ embedSyms = <<>>
    /\ layout = "none" /\ entry = "none"
    /\ DynInit

Step(from, to) == phase = from /\ phase' = to

\* trHelper.load: the rule file read; a symbol rule before any library throws.
LoadRules ==
    /\ Step("load", "sections")
    /\ ~load(macho.rules).thrown
    /\ trans' = load(macho.rules).libraries
    /\ UNCHANGED <<macho, registered, neededLibs, elfSecs, cachedIndex, initSec, ourBase,
                   exportStart, relStart, blob, embedSyms, layout, entry, dynVars>>

LoadRulesThrows ==
    /\ Step("load", "failed")
    /\ load(macho.rules).thrown
    /\ UNCHANGED <<macho, trans, registered, neededLibs, elfSecs, cachedIndex, initSec, ourBase,
                   exportStart, relStart, blob, embedSyms, layout, entry, dynVars>>

\* The section loop: an ELF section per Mach-O section at its address,
\* recorded in the SectionHelper; the last init-pointer section is elfInitSec.
MapSections ==
    /\ Step("sections", "segments")
    /\ elfSecs' = [k \in 1..Len(macho.sections) |->
                     LET s == macho.sections[k]
                     IN [name |-> ElfSectionName(s.name), type |-> s.type,
                         start |-> s.addr, end |-> s.addr + s.size]]
    /\ initSec' = LET inits == {k \in 1..Len(macho.sections) : macho.sections[k].type = "init"}
                  IN IF inits = {} THEN 0 ELSE Max(inits)
    /\ UNCHANGED <<macho, trans, registered, neededLibs, cachedIndex, ourBase,
                   exportStart, relStart, blob, embedSyms, layout, entry, dynVars>>

\* The segment loop: ourBase is the page-rounded end of the highest segment.
ComputeBase ==
    /\ Step("segments", "libraries")
    /\ ourBase' = Align(SeqFoldLeft(LAMBDA m, s : IF s.va + s.vsize > m THEN s.va + s.vsize ELSE m,
                                 0, macho.segments), Page)
    /\ UNCHANGED <<macho, trans, registered, neededLibs, elfSecs, cachedIndex, initSec,
                   exportStart, relStart, blob, embedSyms, layout, entry, dynVars>>

\* libc.so.6, then registerLibrary for every library the image links.
RegisterLibraries ==
    /\ Step("libraries", "dynbuild")
    /\ LET r == SeqFoldLeft(LAMBDA acc, lib : registerLibrary(trans, acc[1], lib, acc[2]),
                         <<{}, <<LibC>>>>, macho.libraries)
       IN registered' = r[1] /\ neededLibs' = r[2]
    /\ UNCHANGED <<macho, trans, elfSecs, cachedIndex, initSec, ourBase,
                   exportStart, relStart, blob, embedSyms, layout, entry, dynVars>>

\* dyn.build(writer, ourBase, neededLibs, elfInitSec)
BuildDynamic ==
    /\ Step("dynbuild", "embedbuild")
    /\ DynBuild(neededLibs, IF initSec = 0 THEN <<>>
                            ELSE <<[addr |-> elfSecs[initSec].start,
                                    size |-> elfSecs[initSec].end - elfSecs[initSec].start]>>)
    /\ UNCHANGED mainVars

\* embeddedCode.build: the blob file ends with the two symbol offsets; a file
\* shorter than them throws; the trampoline's two imports are added.
BuildEmbedded ==
    /\ phase = "embedbuild"
    /\ IF macho.blobFile.size < BlobTrailer
       THEN phase' = "failed" /\ UNCHANGED <<blob, embedSyms, symbols>>
       ELSE /\ phase' = "bind"
            /\ blob' = macho.blobFile.code
            /\ embedSyms' = macho.blobFile.syms
            /\ symbols' = symbols \o
                 <<Symbol(LibcStartMain, getSymbolInfo({}, FALSE), 0, 0, 0),
                   Symbol(CxaFinalize, getSymbolInfo({}, FALSE), 0, 0, 0)>>
    /\ UNCHANGED <<macho, trans, registered, neededLibs, elfSecs, cachedIndex, initSec, ourBase,
                   exportStart, relStart, layout, entry>>
    /\ UNCHANGED <<dyn, tags, dynstr, symbolMap, gnuHash, dynsymData, rela,
                   dynamicData, relaData, dynstrData>>

\* The first binding loop: an undefined symbol per binding that has a
\* translation, under its target name; the others are reported missing.
AddBoundSymbols ==
    /\ Step("bind", "export")
    /\ symbols' = SeqFoldLeft(LAMBDA syms, b :
                     LET t == mapSymbol(trans, registered, b)
                     IN IF t.name = NoName THEN syms
                        ELSE Append(syms, Symbol(t.name, getSymbolInfo(b.desc, FALSE), 0, 0, b.size)),
                   symbols, macho.bindings)
    /\ UNCHANGED <<macho, trans, registered, neededLibs, elfSecs, cachedIndex, initSec, ourBase,
                   exportStart, relStart, blob, embedSyms, layout, entry>>
    /\ UNCHANGED <<dyn, tags, dynstr, symbolMap, gnuHash, dynsymData, rela,
                   dynamicData, relaData, dynstrData>>

\* One exported symbol: looked up by address (moving the cache), skipped
\* without a section, else defined there under its name without the
\* leading underscore; useAsObj compares the ELF section's name to "__text".
ExportStep(acc, e) ==
    LET r == findSectionByVA(elfSecs, acc.cache, e.value)
    IN IF r[1] = 0 THEN [acc EXCEPT !.cache = r[2]]
       ELSE [cache |-> r[2],
             syms |-> Append(acc.syms,
                        Symbol(StripUnderscore(e.name),
                               getSymbolInfo(e.desc, elfSecs[r[1]].name # MachOText),
                               2 + r[1], e.value, e.size))]

\* The export loop from exportedSymbolStart = getSymbolCount().
AddExportedSymbols ==
    /\ Step("export", "dynsym")
    /\ exportStart' = Len(symbols)
    /\ LET r == SeqFoldLeft(ExportStep, [cache |-> cachedIndex, syms |-> symbols], macho.exports)
       IN symbols' = r.syms /\ cachedIndex' = r.cache
    /\ UNCHANGED <<macho, trans, registered, neededLibs, elfSecs, initSec, ourBase,
                   relStart, blob, embedSyms, layout, entry>>
    /\ UNCHANGED <<dyn, tags, dynstr, symbolMap, gnuHash, dynsymData, rela,
                   dynamicData, relaData, dynstrData>>

\* dyn.buildDynsym(exportedSymbolStart)
BuildSymbolTable ==
    /\ Step("dynsym", "embedrelocs")
    /\ BuildDynsym(exportStart)
    /\ UNCHANGED mainVars

\* embeddedCode.createRelocations(dyn, base, entrypoint or base): the four
\* data slots' relocations, offsets still 0.
CreateRelocations ==
    /\ Step("embedrelocs", "rebase")
    /\ relStart' = Len(rela)
    /\ rela' = rela \o
         <<Rela(0, symbolMap[LibcStartMain], "R_X86_64_64", 0),
           Rela(0, 0, "R_X86_64_RELATIVE", IF ~macho.hasEntrypoint THEN macho.base
                                           ELSE macho.entrypoint),
           Rela(0, symbolMap[CxaFinalize], "R_X86_64_64", 0),
           Rela(0, 0, "R_X86_64_RELATIVE", macho.base)>>
    /\ UNCHANGED <<macho, trans, registered, neededLibs, elfSecs, cachedIndex, initSec, ourBase,
                   exportStart, blob, embedSyms, layout, entry>>
    /\ UNCHANGED <<dyn, tags, dynstr, symbols, symbolMap, gnuHash, dynsymData,
                   dynamicData, relaData, dynstrData>>

\* The rebase loop: a pointer rebase becomes R_X86_64_RELATIVE with the
\* pointer stored there as addend; any other kind aborts the process.
AddRebaseRelocations ==
    /\ phase = "rebase"
    /\ IF \E k \in 1..Len(macho.rebases) : macho.rebases[k].type # "pointer"
       THEN phase' = "failed" /\ UNCHANGED rela
       ELSE /\ phase' = "bindrelocs"
            /\ rela' = rela \o [k \in 1..Len(macho.rebases) |->
                         Rela(macho.rebases[k].address, 0, "R_X86_64_RELATIVE",
                              macho.rebases[k].content)]
    /\ UNCHANGED mainVars
    /\ UNCHANGED <<dyn, tags, dynstr, symbols, symbolMap, gnuHash, dynsymData,
                   dynamicData, relaData, dynstrData>>

\* The second binding loop: a pointer binding becomes R_X86_64_64 against
\* the dynsym index of its target name, if it has one; any other kind
\* aborts the process.
AddBindingRelocations ==
    /\ phase = "bindrelocs"
    /\ IF \E k \in 1..Len(macho.bindings) : macho.bindings[k].type # "pointer"
       THEN phase' = "failed" /\ UNCHANGED rela
       ELSE /\ phase' = "dynrela"
            /\ rela' = SeqFoldLeft(LAMBDA rs, b :
                          LET t == mapSymbol(trans, registered, b)
                          IN IF t.name = NoName \/ t.name \notin DOMAIN symbolMap THEN rs
                             ELSE Append(rs, Rela(b.address, symbolMap[t.name], "R_X86_64_64", b.addend)),
                        rela, macho.bindings)
    /\ UNCHANGED mainVars
    /\ UNCHANGED <<dyn, tags, dynstr, symbols, symbolMap, gnuHash, dynsymData,
                   dynamicData, relaData, dynstrData>>

\* dyn.buildDynRela()
BuildRelocationTable ==
    /\ Step("dynrela", "finalize")
    /\ BuildDynRela
    /\ UNCHANGED mainVars

\* dyn.finalize(), after the unwind sections are built.
FinalizeStrings ==
    /\ Step("finalize", "layout")
    /\ Finalize
    /\ UNCHANGED mainVars

\* writer.layout(): .dynamic, .dynstr, .dynsym, .gnu.hash, .rela.dyn, the
\* unwind sections and .compat.data from ourBase, each 8-aligned, sized by
\* the data set on them; .compat.text on a page after them.
LayoutImage ==
    /\ Step("layout", "embedfixup")
    /\ \E gap \in TextPlacements :
         LET dynstrA == Align(ourBase + 16 * Len(dynamicData), 8)
             dynsymA == Align(dynstrA + StrSize(dynstrData), 8)
             gnuhashA == Align(dynsymA + 24 * Len(dynsymData), 8)
             relaA == Align(gnuhashA + GnuHashSize(gnuHash), 8)
             dataA == Align(Align(relaA + 24 * Len(relaData), 8) + UnwindSize, 8)
         IN layout' = [dynamic |-> ourBase, dynstr |-> dynstrA, dynsym |-> dynsymA,
                       gnuhash |-> gnuhashA, reladyn |-> relaA, data |-> dataA,
                       text |-> Align(dataA + 32, Page) + gap]
    /\ UNCHANGED <<macho, trans, registered, neededLibs, elfSecs, cachedIndex, initSec, ourBase,
                   exportStart, relStart, blob, embedSyms, entry, dynVars>>

\* Byte j of the 32-bit little-endian two's complement encoding of v.
ByteOf(v, j) == (v \div (256 ^ j)) % 256

\* One position i of the marker scan: a word 0x133742nn at byte i becomes
\* the displacement from the end of the word to data slot nn.
PatchAt(b, i, codeAddr, dataAddr) ==
    IF b[i + 2] = 66 /\ b[i + 3] = 55 /\ b[i + 4] = 19   \* 0x42 0x37 0x13
    THEN LET v == (dataAddr - (codeAddr + i + 4)) + b[i + 1] * 8
         IN [k \in 1..Len(b) |-> IF k - 1 - i \in 0..3 THEN ByteOf(v, k - 1 - i) ELSE b[k]]
    ELSE b

\* Faulty variant stopping the scan one position early (i < size - 4).
ScanMarkersShort(b, codeAddr, dataAddr) ==
    SeqFoldLeft(LAMBDA bs, i : PatchAt(bs, i, codeAddr, dataAddr), b, [k \in 1..(Len(b) - 4) |-> k - 1])

\* The scan over every byte position i <= size - 4, in order.
ScanMarkers(b, codeAddr, dataAddr) ==
    SeqFoldLeft(LAMBDA bs, i : PatchAt(bs, i, codeAddr, dataAddr), b, [k \in 1..(Len(b) - 3) |-> k - 1])

\* embeddedCode.fixup(dyn): the slot relocations get their offsets, the
\* markers are patched, and DT_FINI is set to the finalizer trampoline.
FixupEmbedded ==
    /\ Step("embedfixup", "dynfixup")
    /\ rela' = [k \in 1..Len(rela) |->
                  IF k - 1 - relStart \in 0..3
                  THEN [rela[k] EXCEPT !.offset = layout.data + 8 * (k - 1 - relStart)]
                  ELSE rela[k]]
    /\ blob' = ScanMarkers(blob, layout.text, layout.data)
    /\ dyn' = [dyn EXCEPT ![tags.fini].val = layout.text + embedSyms[2]]
    /\ UNCHANGED <<macho, trans, registered, neededLibs, elfSecs, cachedIndex, initSec, ourBase,
                   exportStart, relStart, embedSyms, layout, entry>>
    /\ UNCHANGED <<tags, dynstr, symbols, symbolMap, gnuHash, dynsymData,
                   dynamicData, relaData, dynstrData>>

\* dyn.fixup()
FixupDynamic ==
    /\ Step("dynfixup", "save")
    /\ DynFixup(layout)
    /\ UNCHANGED mainVars

\* The entry point of an executable is the start trampoline; writer.save.
SaveOutput ==
    /\ Step("save", "done")
    /\ entry' = IF macho.isExe THEN layout.text + embedSyms[1] ELSE "none"
    /\ UNCHANGED <<macho, trans, registered, neededLibs, elfSecs, cachedIndex, initSec, ourBase,
                   exportStart, relStart, blob, embedSyms, layout, dynVars>>

\* The converter has exited, normally or by a throw or abort.
Exited ==
    /\ phase \in {"done", "failed"}
    /\ UNCHANGED vars

Next ==
    \/ LoadRules \/ LoadRulesThrows \/ MapSections \/ ComputeBase \/ RegisterLibraries
    \/ BuildDynamic \/ BuildEmbedded \/ AddBoundSymbols \/ AddExportedSymbols
    \/ BuildSymbolTable \/ CreateRelocations \/ AddRebaseRelocations
    \/ AddBindingRelocations \/ BuildRelocationTable \/ FinalizeStrings
    \/ LayoutImage \/ FixupEmbedded \/ FixupDynamic \/ SaveOutput \/ Exited

Spec == Init /\ [][Next]_vars

-----------------------------------------------------------------------------
CONSTANT LookupNames   \* names, exported or not, the dynamic linker may look up

Fixed == phase \in {"save", "done"}
\* buildDynsym has run (and the conversion did not stop before it).
SymbolsBuilt == phase \in {"embedrelocs", "rebase", "bindrelocs", "dynrela", "finalize",
                           "layout", "embedfixup", "dynfixup", "save", "done"}
ExportRange == exportStart..(Len(symbols) - 1)

\* The first mapped section containing addr, 0 if none.
SectionOf(addr) ==
    LET hits == {k \in 1..Len(elfSecs) : elfSecs[k].start <= addr /\ addr < elfSecs[k].end}
    IN IF hits = {} THEN 0 ELSE Min(hits)

\* The name at offset off of a string table, <<"?">> if no name starts there.
StrAt(strs, off) ==
    LET ks == {k \in 1..Len(strs) : StrOffset(strs, strs[k]) = off}
    IN IF ks = {} THEN <<"?">> ELSE strs[CHOOSE k \in ks : TRUE]

TagVal(D, tag) == D[CHOOSE k \in 1..Len(D) : D[k].tag = tag].val

\* The signed 32-bit little-endian word at byte i.
Int32At(b, i) ==
    b[i + 1] + 256 * b[i + 2] + 65536 * b[i + 3]
    + 16777216 * (IF b[i + 4] >= 128 THEN b[i + 4] - 256 ELSE b[i + 4])

IsMarker(b, i) == b[i + 2] = 66 /\ b[i + 3] = 55 /\ b[i + 4] = 19

(***************************************************************************)
(* Once buildDynsym has run, the dynamic linker's GNU-hash lookup of every *)
(* exported name, and of the other names it may be asked for, gives the    *)
(* first exported symbol of that name or none: the stable sort by bucket,  *)
(* the bloom words, the bucket heads and the terminator bits written by    *)
(* buildGnuHash agree with the reordered symbol array.                     *)
(***************************************************************************)
GnuHashFindsExports ==
    SymbolsBuilt =>
        /\ gnuHash.ok
        /\ \A q \in {symbols[i + 1].name : i \in ExportRange} \cup LookupNames :
              GnuLookup(gnuHash, symbols, q) = FirstExport(symbols, exportStart, q)

(***************************************************************************)
(* The export loop, through SectionHelper's cached lookup, defines every   *)
(* exported symbol whose address lies in a mapped section, in the section  *)
(* that contains it (ELF index 2 + position, after the null section,       *)
(* .shstrtab and .interp), under its name without the leading underscore,  *)
(* and skips exactly the others.                                           *)
(***************************************************************************)
ExportsDefined ==
    SymbolsBuilt =>
        /\ Len(symbols) - exportStart
              = Len(SelectSeq(macho.exports, LAMBDA e : SectionOf(e.value) # 0))
        /\ \A k \in 1..Len(macho.exports) :
              LET e == macho.exports[k]
              IN SectionOf(e.value) # 0 =>
                   \E i \in ExportRange :
                      /\ symbols[i + 1].name = StripUnderscore(e.name)
                      /\ symbols[i + 1].shndx = 2 + SectionOf(e.value)
                      /\ symbols[i + 1].value = e.value

(***************************************************************************)
(* The written .rela.dyn holds, in order, the four trampoline slot         *)
(* relocations at the .compat.data slots (startup symbol, original entry,  *)
(* finalizer symbol, image base), one R_X86_64_RELATIVE per rebase with    *)
(* the stored pointer as addend, and one R_X86_64_64 per binding that has  *)
(* a translation, against a symbol named as the translation rules say      *)
(* (target, given with the input) and at the binding's address.           *)
(***************************************************************************)
RelocationsBindTargets ==
    Fixed =>
        LET R == relaData
            nr == Len(macho.rebases)
            bound == SelectSeq(macho.bindings, LAMBDA b : b.target # NoName)
            symName(r) == symbols[r.sym + 1].name
        IN /\ Len(R) = 4 + nr + Len(bound)
           /\ \A k \in 0..3 : R[k + 1].offset = layout.data + 8 * k
           /\ symName(R[1]) = LibcStartMain /\ symName(R[3]) = CxaFinalize
           /\ R[2].addend = IF ~macho.hasEntrypoint THEN macho.base ELSE macho.entrypoint
           /\ R[4].addend = macho.base
           /\ \A k \in 1..nr :
                 R[4 + k] = Rela(macho.rebases[k].address, 0, "R_X86_64_RELATIVE",
                                 macho.rebases[k].content)
           /\ \A k \in 1..Len(bound) :
                 /\ R[4 + nr + k].offset = bound[k].address
                 /\ R[4 + nr + k].type = "R_X86_64_64"
                 /\ R[4 + nr + k].addend = bound[k].addend
                 /\ symName(R[4 + nr + k]) = bound[k].target

(***************************************************************************)
(* After dyn.fixup the written .dynamic points at the laid-out .dynstr,    *)
(* .dynsym, .gnu.hash and .rela.dyn with the sizes of their written data,  *)
(* DT_FINI at the finalizer trampoline; its DT_NEEDED entries and every    *)
(* st_name of .dynsym name, through the written .dynstr, the needed        *)
(* libraries in order and the symbols.                                     *)
(***************************************************************************)
DynamicTagsFinal ==
    Fixed =>
        LET D == dynamicData
            needed == SelectSeq(D, LAMBDA d : d.tag = "NEEDED")
        IN /\ TagVal(D, "STRTAB") = layout.dynstr
           /\ TagVal(D, "STRSZ") = StrSize(dynstrData)
           /\ TagVal(D, "SYMTAB") = layout.dynsym
           /\ TagVal(D, "GNU_HASH") = layout.gnuhash
           /\ TagVal(D, "RELA") = layout.reladyn
           /\ TagVal(D, "RELASZ") = 24 * Len(relaData)
           /\ TagVal(D, "FINI") = layout.text + embedSyms[2]
           /\ [k \in 1..Len(needed) |-> StrAt(dynstrData, needed[k].val)] = neededLibs
           /\ \A k \in 1..Len(dynsymData) : StrAt(dynstrData, dynsymData[k].name) = symbols[k].name

(***************************************************************************)
(* After embeddedCode.fixup every aligned marker word 0x133742nn of the    *)
(* trampoline blob holds the PC-relative displacement that, from the end   *)
(* of the word in .compat.text, reaches data slot nn of .compat.data, and  *)
(* every byte outside the markers is the blob's own.                       *)
(***************************************************************************)
MarkersPatched ==
    phase \in {"dynfixup", "save", "done"} =>
        LET orig == macho.blobFile.code
            markers == {i \in 0..(Len(orig) - 4) : i % 4 = 0 /\ IsMarker(orig, i)}
        IN /\ \A i \in markers :
                 layout.text + i + 4 + Int32At(blob, i) = layout.data + 8 * orig[i + 1]
           /\ \A k \in 1..Len(orig) :
                 (\A i \in markers : k - 1 - i \notin 0..3) => blob[k] = orig[k]

(***************************************************************************)
(* A symbol exported from the Mach-O __text section, and not marked as     *)
(* data in its description, is a function in .dynsym (STT_FUNC), which is  *)
(* what the useAsObj test next to the export loop's TODO intends.          *)
(***************************************************************************)
ExportTypes ==
    SymbolsBuilt =>
        \A k \in 1..Len(macho.exports) :
           LET e == macho.exports[k]
               s == SectionOf(e.value)
           IN (s # 0 /\ macho.sections[s].name = MachOText /\ "0x800" \notin e.desc) =>
                 \A i \in ExportRange :
                    symbols[i + 1].value = e.value => symbols[i + 1].info.type = "FUNC"
=============================================================================
