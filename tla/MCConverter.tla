----------------------------- MODULE MCConverter -----------------------------
(***************************************************************************)
(* Mach-O images for the conversion: a dylib and an executable that reach *)
(* the output, with rules renaming, emptying and falling back, bindings to *)
(* unregistered libraries, exports outside every section and export names  *)
(* equal after the underscore is stripped; and images that stop on a rule *)
(* before any library, a lazy binding, a non-pointer rebase or a short     *)
(* trampoline blob.  Names are token sequences; the hashes are LIEF's      *)
(* dl_new_hash of the names' text.                                         *)
(***************************************************************************)
EXTENDS Converter

HashOf ==
    <<"main">> :> 2090499946 @@ <<"version">> :> 1929407563 @@ <<"helper">> :> 30954469
    @@ <<"run">> :> 193505114 @@ <<"init">> :> 2090370361 @@ <<"start">> :> 274811347
    @@ <<"value">> :> 277698370 @@ <<"table">> :> 275315341 @@ <<"log">> :> 193498375
    @@ <<"sum">> :> 193506202 @@ <<"foo">> :> 193491849 @@ <<"bar">> :> 193487034
    @@ <<"data">> :> 2090176863 @@ <<"puts">> :> 2090629905 @@ <<"abort">> :> 252833149
    @@ <<"close">> :> 255564379 @@ <<"orphan">> :> 320454093

MCDlNewHash(n) == HashOf[n]

MCLookupNames == {<<"puts">>, <<"abort">>, <<"close">>}

Lengths ==
    "_" :> 1 @@ "." :> 1 @@ "main" :> 4 @@ "version" :> 7 @@ "helper" :> 6 @@ "run" :> 3
    @@ "init" :> 4 @@ "start" :> 5 @@ "value" :> 5 @@ "table" :> 5 @@ "log" :> 3
    @@ "sum" :> 3 @@ "foo" :> 3 @@ "bar" :> 3 @@ "data" :> 4 @@ "puts" :> 4 @@ "orphan" :> 6
    @@ "open64" :> 6 @@ "Znwm" :> 4 @@ "__libc_start_main" :> 17 @@ "__cxa_finalize" :> 14
    @@ "libc.so.6" :> 9 @@ "libmacoscompat.so" :> 17 @@ "libstdc++.so.6" :> 14

MCTokenLen(t) == Lengths[t]

Lib(key, value) == [kind |-> "lib", key |-> key, value |-> value]
Rule(key, value) == [kind |-> "sym", key |-> key, value |-> value]

\* libSystem to libc and the compat library, open renamed, exit emptied
\* (the symbol rules follow the last target library), libc++ to libstdc++.
Rules ==
    << [kind |-> "skip"], Lib("libSystem", <<"libc.so.6">>),
       Lib("libSystem", <<"libmacoscompat.so">>),
       Rule(<<"_", "open">>, <<"open64">>), Rule(<<"_", "exit">>, <<>>),
       Lib("libc++", <<"libstdc++.so.6">>) >>

RulesSymbolFirst == << Rule(<<"_", "puts">>, <<"puts">>), Lib("libSystem", <<"libc.so.6">>) >>

Sec(name, addr, size, type) == [name |-> name, addr |-> addr, size |-> size, type |-> type]

Sections ==
    << Sec(<<"_", "_", "text">>, 4096, 64, "regular"),
       Sec(<<"_", "_", "eh_frame">>, 4160, 16, "regular"),
       Sec(<<"_", "_", "data">>, 8192, 32, "regular"),
       Sec(<<"_", "_", "mod_init_func">>, 8224, 8, "init") >>

Segments == << [va |-> 4096, vsize |-> 4096], [va |-> 8192, vsize |-> 4096],
               [va |-> 12288, vsize |-> 4096] >>

Bind(lib, sym, addr, target) ==
    [lib |-> lib, symbol |-> sym, desc |-> {}, size |-> 0, address |-> addr,
     type |-> "pointer", addend |-> 0, target |-> target]

\* target: what the rules make of the binding (spec: translation fallback
\* strips one leading underscore under the first target library).
Bindings ==
    << Bind("libSystem", <<"_", "puts">>, 8192, <<"puts">>),
       Bind("libSystem", <<"_", "open">>, 8200, <<"open64">>),
       Bind("libSystem", <<"_", "puts">>, 8208, <<"puts">>),
       Bind("libSystem", <<"_", "exit">>, 8216, <<>>),
       Bind("libFoo", <<"_", "foo">>, 8224, <<>>),
       Bind("libc++", <<"_", "_", "Znwm">>, 8232, <<"_", "Znwm">>) >>

Exp(name, value, desc) == [name |-> name, value |-> value, desc |-> desc, size |-> 0]

\* Eleven exports (two buckets, two bloom words), one equal to another
\* once stripped, one outside every section, one weak.
ExeExports ==
    << Exp(<<"_", "main">>, 4096, {}), Exp(<<"_", "version">>, 8192, {}),
       Exp(<<"_", "helper">>, 4112, {}), Exp(<<"_", "run">>, 4120, {}),
       Exp(<<"run">>, 4128, {}), Exp(<<"_", "init">>, 4136, {"N_WEAK_DEF"}),
       Exp(<<"_", "orphan">>, 30000, {}), Exp(<<"_", "start">>, 4144, {}),
       Exp(<<"_", "value">>, 8200, {}), Exp(<<"_", "table">>, 8208, {"0x800"}),
       Exp(<<"_", "log">>, 4152, {}), Exp(<<"_", "sum">>, 4156, {}) >>

DylibExports ==
    << Exp(<<"_", "foo">>, 4096, {}), Exp(<<"_", "data">>, 8192, {}),
       Exp(<<"_", "bar">>, 4100, {}) >>

Rebases == << [address |-> 8224, type |-> "pointer", content |-> 4096] >>

\* The trampoline: markers for slots 0, 2 and 1 in aligned words, the last
\* one in the blob's last word; the trailer gives start 0 and finalizer 12.
Blob == [code |-> << 72, 139, 5, 144, 0, 66, 55, 19, 255, 208, 195, 144,
                     2, 66, 55, 19, 72, 137, 199, 144, 1, 66, 55, 19 >>,
         syms |-> << 0, 12 >>, size |-> 40]
ShortBlob == [code |-> <<>>, syms |-> <<>>, size |-> 12]

\* ep: the LC_MAIN entry point, 0 for none.
Image(rules, exe, ep, secs, binds, exps, rebases, blobFile) ==
    [rules |-> rules, isExe |-> exe, hasEntrypoint |-> ep # 0, entrypoint |-> ep, base |-> 4096,
     sections |-> secs, segments |-> Segments,
     libraries |-> <<"libSystem", "libc++", "libFoo">>,
     bindings |-> binds, exports |-> exps, rebases |-> rebases, blobFile |-> blobFile]

MCInputs ==
    { Image(Rules, TRUE, 4096, Sections, Bindings, ExeExports, Rebases, Blob),
      Image(Rules, FALSE, 0, Sections, Bindings, DylibExports, Rebases, Blob),
      Image(Rules, TRUE, 0, SubSeq(Sections, 1, 3), SubSeq(Bindings, 1, 2),
            [k \in 1..3 |-> DylibExports[4 - k]], <<>>, Blob),
      Image(Rules, FALSE, 0, Sections, SubSeq(Bindings, 1, 3), <<>>,
            << [address |-> 8224, type |-> "other", content |-> 0] >>, Blob),
      Image(Rules, TRUE, 4096, Sections, << [Bindings[1] EXCEPT !.type = "lazy"] >>,
            DylibExports, Rebases, Blob),
      Image(RulesSymbolFirst, TRUE, 4096, Sections, Bindings, ExeExports, Rebases, Blob),
      Image(Rules, TRUE, 4096, Sections, Bindings, ExeExports, Rebases, ShortBlob) }

MCTextPlacements == {0, 4096, 8192}
MCUnwindSize == 96
=============================================================================
