------------------------------ MODULE DynBuilder ------------------------------
(***************************************************************************)
(* DynBuilder (src/converter/main.cpp) and the StrData string table it     *)
(* interns names in (src/converter/str_data.h).                            *)
(*                                                                         *)
(* The builder's members are variables; each method that changes them is  *)
(* an action operator that a conversion step conjoins.  The serialised     *)
(* contents of .dynamic, .dynstr, .dynsym and .rela.dyn (what set_data     *)
(* copied into the section) are kept apart from the vectors they were      *)
(* copied from, since the code re-serialises them at given points.         *)
(***************************************************************************)
EXTENDS GnuHash, FiniteSets

CONSTANT TokenLen(_)    \* the length in bytes of a token of a name

VARIABLES
    dyn,          \* std::vector<Elf64_Dyn>: <<[tag, val], ...>>
    tags,         \* tagDynStr, tagDynStrSz, ... : positions in dyn
    dynstr,       \* StrData: the distinct names in the order they were added
    symbols,      \* std::vector<SymbolInfo>; symbols[1] is the null symbol
    symbolMap,    \* name -> dynsym index
    gnuHash,      \* the .gnu.hash table written by buildGnuHash, or "none"
    dynsymData,   \* .dynsym contents
    rela,         \* std::vector<Elf64_Rela>: <<[offset, sym, type, addend], ...>>
    dynamicData,  \* .dynamic contents
    relaData,     \* .rela.dyn contents
    dynstrData    \* .dynstr contents (set by finalize)

dynVars == <<dyn, tags, dynstr, symbols, symbolMap, gnuHash, dynsymData,
             rela, dynamicData, relaData, dynstrData>>

NameLen(n) == SeqFoldLeft(LAMBDA a, t : a + TokenLen(t), 0, n)

\* StrData::add: a name already added keeps its offset; data_ starts with
\* one NUL and every added name takes its length plus a NUL.
StrAdd(strs, name) == IF name \in Range(strs) THEN strs ELSE Append(strs, name)

StrBytes(strs, upTo) ==
    SeqFoldLeft(LAMBDA a, k : a + NameLen(strs[k]) + 1, 1, [k \in 1..upTo |-> k])

StrOffset(strs, name) == StrBytes(strs, CHOOSE k \in 1..Len(strs) : strs[k] = name) - NameLen(name) - 1

StrSize(strs) == StrBytes(strs, Len(strs))

NullSymbol == [name |-> <<>>, info |-> [bind |-> "LOCAL", type |-> "NOTYPE"],
               shndx |-> 0, value |-> 0, size |-> 0]

DynInit ==
    /\ dyn = <<>> /\ tags = "none" /\ dynstr = <<>>
    /\ symbols = <<NullSymbol>> /\ symbolMap = [n \in {} |-> 0]
    /\ gnuHash = "none" /\ dynsymData = <<>> /\ rela = <<>>
    /\ dynamicData = <<>> /\ relaData = <<>> /\ dynstrData = <<>>

Entry(tag, val) == [tag |-> tag, val |-> val]

\* build(): DT_NEEDED per needed library, the placeholder tags, the init
\* array of elfInitSec (<<>> for null, else its address and size as they
\* are now), DT_FINI, DT_DEBUG, DT_NULL; .dynamic is serialised at once.
DynBuild(neededLibs, initSec) ==
    LET strs == SeqFoldLeft(StrAdd, dynstr, neededLibs)
        n == Len(neededLibs)
        init == IF initSec = <<>> THEN <<>>
                ELSE <<Entry("INIT_ARRAY", initSec[1].addr), Entry("INIT_ARRAYSZ", initSec[1].size)>>
        fini == n + 9 + Len(init)
    IN /\ dynstr' = strs
       /\ dyn' = [k \in 1..n |-> Entry("NEEDED", StrOffset(strs, neededLibs[k]))]
                 \o <<Entry("STRTAB", 0), Entry("STRSZ", 0), Entry("SYMTAB", 0),
                      Entry("GNU_HASH", 0), Entry("SYMENT", 24), Entry("RELA", 0),
                      Entry("RELASZ", 0), Entry("RELAENT", 24)>>
                 \o init \o <<Entry("FINI", 0), Entry("DEBUG", 0), Entry("NULL", 0)>>
       /\ tags' = [strtab |-> n + 1, strsz |-> n + 2, symtab |-> n + 3, gnuhash |-> n + 4,
                   rela |-> n + 6, relasz |-> n + 7, fini |-> fini]
       /\ dynamicData' = dyn'
       /\ UNCHANGED <<symbols, symbolMap, gnuHash, dynsymData, rela, relaData, dynstrData>>

Symbol(name, info, shndx, value, size) ==
    [name |-> name, info |-> info, shndx |-> shndx, value |-> value, size |-> size]

\* buildDynsym(exportSymbolStart): buildGnuHash sorts the exports, then the
\* loop maps every name to its index (a later equal name overwriting) and
\* interns it for st_name.
BuildDynsym(symndx) ==
    LET t == buildGnuHash(symbols, symndx)
        syms == t.symbols
        strs == SeqFoldLeft(LAMBDA s, k : StrAdd(s, syms[k].name), dynstr, [k \in 1..Len(syms) |-> k])
        names == {syms[k].name : k \in 1..Len(syms)}
    IN /\ gnuHash' = t
       /\ symbols' = syms
       /\ dynstr' = strs
       /\ symbolMap' = [nm \in names |-> Max({k \in 1..Len(syms) : syms[k].name = nm}) - 1]
       /\ dynsymData' = [k \in 1..Len(syms) |-> [syms[k] EXCEPT !.name = StrOffset(strs, syms[k].name)]]
       /\ UNCHANGED <<dyn, tags, rela, dynamicData, relaData, dynstrData>>

Rela(offset, sym, type, addend) == [offset |-> offset, sym |-> sym, type |-> type, addend |-> addend]

\* buildDynRela()
BuildDynRela ==
    /\ relaData' = rela
    /\ UNCHANGED <<dyn, tags, dynstr, symbols, symbolMap, gnuHash, dynsymData,
                   rela, dynamicData, dynstrData>>

\* finalize(): .dynstr gets the interned names.
Finalize ==
    /\ dynstrData' = dynstr
    /\ UNCHANGED <<dyn, tags, dynstr, symbols, symbolMap, gnuHash, dynsymData,
                   rela, dynamicData, relaData>>

\* Faulty variant serialising .dynamic before the tags are rewritten.
DynFixupSerialiseFirst(a) ==
    /\ dyn' = [dyn EXCEPT ![tags.strtab].val = a.dynstr,
                          ![tags.strsz].val = StrSize(dynstrData),
                          ![tags.symtab].val = a.dynsym,
                          ![tags.gnuhash].val = a.gnuhash,
                          ![tags.rela].val = a.reladyn,
                          ![tags.relasz].val = 24 * Len(relaData)]
    /\ dynamicData' = dyn
    /\ relaData' = rela
    /\ UNCHANGED <<tags, dynstr, symbols, symbolMap, gnuHash, dynsymData, rela, dynstrData>>

\* fixup(): the placeholder tags from the laid-out sections a (their sizes
\* are those of the data set last), then .dynamic and .rela.dyn serialised
\* again.
DynFixup(a) ==
    /\ dyn' = [dyn EXCEPT ![tags.strtab].val = a.dynstr,
                          ![tags.strsz].val = StrSize(dynstrData),
                          ![tags.symtab].val = a.dynsym,
                          ![tags.gnuhash].val = a.gnuhash,
                          ![tags.rela].val = a.reladyn,
                          ![tags.relasz].val = 24 * Len(relaData)]
    /\ dynamicData' = dyn'
    /\ relaData' = rela
    /\ UNCHANGED <<tags, dynstr, symbols, symbolMap, gnuHash, dynsymData, rela, dynstrData>>

\* The size of .gnu.hash: header, bloom words, buckets, hash values.
GnuHashSize(t) == 16 + 8 * t.maskWords + 4 * t.nBuckets + 4 * Len(t.chain)
=============================================================================
