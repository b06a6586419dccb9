------------------------------- MODULE GnuHash -------------------------------
(***************************************************************************)
(* DynBuilder::buildGnuHash (src/converter/main.cpp) as an operator over   *)
(* the symbol array, and, as the reference it must satisfy, the lookup the *)
(* dynamic linker performs on a DT_GNU_HASH table (glibc do_lookup_x).     *)
(*                                                                         *)
(* Symbol indices inside the table are the C++ 0-based indices: symbol i   *)
(* is symbols[i + 1].  A 64-bit bloom word is the set of its set bits.     *)
(***************************************************************************)
EXTENDS Integers, Sequences, SequencesExt

CONSTANT DlNewHash(_)   \* LIEF::ELF::dl_new_hash of a symbol name

\* A left fold over a sequence.  SequencesExt's FoldLeft goes through
\* MapThenFoldSet, whose recursion is too deep for TLC's coverage mode at
\* the lengths of these symbol arrays and blobs.
RECURSIVE SeqFoldLeft(_, _, _)
SeqFoldLeft(op(_, _), acc, s) ==
    IF s = <<>> THEN acc ELSE SeqFoldLeft(op, op(acc, Head(s)), Tail(s))

RECURSIVE roundUpToPowerOf2(_, _)
roundUpToPowerOf2(v, ret) ==
    IF ret < v THEN roundUpToPowerOf2(v, ret * 2) ELSE ret

\* hashValues[k] |= 1
SetLow(v) == IF v % 2 = 1 THEN v ELSE v + 1

BloomBits(h) == {h % 64, (h \div 67108864) % 64}     \* hash % c, (hash >> 26) % c

\* Faulty variant storing bucket heads relative to symndx.
BucketStepRelative(syms, nBuckets, symndx, acc, i) ==
    LET h == DlNewHash(syms[i + 1].name)
        b == h % nBuckets
        idx == i - symndx
        hv == IF b # acc.prev /\ idx > 0
              THEN [acc.hv EXCEPT ![idx] = SetLow(@)] ELSE acc.hv
    IN IF ~acc.ok \/ b < acc.prev THEN [acc EXCEPT !.ok = FALSE]
       ELSE [prev |-> b,
             buckets |-> IF b # acc.prev THEN [acc.buckets EXCEPT ![b] = idx]
                         ELSE acc.buckets,
             hv |-> [hv EXCEPT ![idx + 1] = h - (h % 2)],
             ok |-> TRUE]

\* One iteration of the bucket/hash-value loop over the sorted symbols:
\* acc is [prev, buckets, hv, ok], ok turning FALSE where the code throws.
BucketStep(syms, nBuckets, symndx, acc, i) ==
    LET h == DlNewHash(syms[i + 1].name)
        b == h % nBuckets
        idx == i - symndx
        hv == IF b # acc.prev /\ idx > 0
              THEN [acc.hv EXCEPT ![idx] = SetLow(@)] ELSE acc.hv
    IN IF ~acc.ok \/ b < acc.prev THEN [acc EXCEPT !.ok = FALSE]
       ELSE [prev |-> b,
             buckets |-> IF b # acc.prev THEN [acc.buckets EXCEPT ![b] = i]
                         ELSE acc.buckets,
             hv |-> [hv EXCEPT ![idx + 1] = h - (h % 2)],
             ok |-> TRUE]

\* buildGnuHash(symndx): the symbol array with [symndx, end) stable-sorted
\* by bucket, and the table written to .gnu.hash (ok = FALSE if it throws).
buildGnuHash(symbols, symndx) ==
    LET n == Len(symbols) - symndx
        nBuckets == IF n \div 4 > 1 THEN n \div 4 ELSE 1
        maskWords == IF n > 0 THEN roundUpToPowerOf2((n * 12) \div 64, 1) ELSE 1
        bucket(k) == DlNewHash(symbols[symndx + k].name) % nBuckets
        \* std::stable_sort: equal buckets keep their original order
        order == SortSeq([k \in 1..n |-> k],
                         LAMBDA a, b : bucket(a) < bucket(b)
                                       \/ (bucket(a) = bucket(b) /\ a < b))
        sorted == SubSeq(symbols, 1, symndx) \o [k \in 1..n |-> symbols[symndx + order[k]]]
        hash(i) == DlNewHash(sorted[i + 1].name)
        exported == symndx..(Len(symbols) - 1)
        bloom == [w \in 0..(maskWords - 1) |->
                    UNION {BloomBits(hash(i)) :
                             i \in {j \in exported : (hash(j) \div 64) % maskWords = w}}]
        emit == SeqFoldLeft(LAMBDA acc, i : BucketStep(sorted, nBuckets, symndx, acc, i),
                         [prev |-> -1, buckets |-> [b \in 0..(nBuckets - 1) |-> 0],
                          hv |-> [k \in 1..n |-> 0], ok |-> TRUE],
                         [k \in 1..n |-> symndx + k - 1])
    IN [symbols |-> sorted, ok |-> emit.ok,
        nBuckets |-> nBuckets, symndx |-> symndx, maskWords |-> maskWords,
        bloom |-> bloom, buckets |-> emit.buckets,
        chain |-> IF n > 0 THEN [emit.hv EXCEPT ![n] = SetLow(@)] ELSE emit.hv]

-----------------------------------------------------------------------------
(***************************************************************************)
(* The dynamic linker's lookup of name in table t over the symbol array:   *)
(* the bloom word test, the bucket's first index, then the chain walk      *)
(* comparing hashes without their low bit until the terminator bit.  -1   *)
(* stands for a walk that runs off the end of the chain array.             *)
(***************************************************************************)
RECURSIVE ChainWalk(_, _, _, _, _)
ChainWalk(t, symbols, name, h, i) ==
    IF i - t.symndx + 1 \notin DOMAIN t.chain THEN -1
    ELSE LET v == t.chain[i - t.symndx + 1]
         IN IF v \div 2 = h \div 2 /\ symbols[i + 1].name = name THEN i
            ELSE IF v % 2 = 1 THEN 0
            ELSE ChainWalk(t, symbols, name, h, i + 1)

GnuLookup(t, symbols, name) ==
    LET h == DlNewHash(name)
        first == t.buckets[h % t.nBuckets]
    IN IF ~(BloomBits(h) \subseteq t.bloom[(h \div 64) % t.maskWords]) THEN 0
       ELSE IF first = 0 THEN 0
       ELSE ChainWalk(t, symbols, name, h, first)

\* The first exported (index >= symndx) symbol called name, 0 if none.
FirstExport(symbols, symndx, name) ==
    LET hits == {i \in symndx..(Len(symbols) - 1) : symbols[i + 1].name = name}
    IN IF hits = {} THEN 0 ELSE CHOOSE i \in hits : \A j \in hits : i <= j
=============================================================================
