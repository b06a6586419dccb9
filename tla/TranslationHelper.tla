-------------------------- MODULE TranslationHelper --------------------------
(***************************************************************************)
(* TranslationHelper (src/converter/translation_helper.cpp): the rule file *)
(* loaded into per-library translations, libraries registered for the     *)
(* binary, and bound symbols mapped to target names.                       *)
(*                                                                         *)
(* A name is a sequence of tokens, "_" being the underscore character, so  *)
(* that stripping one leading underscore is Tail.  A rule line is given    *)
(* already split at "->" and trimmed: [kind, key, value] with kind "skip"  *)
(* (empty, comment or no "->"), "lib" (an "@" line) or "sym".              *)
(***************************************************************************)
EXTENDS Sequences, TLC

NoName == <<>>          \* the empty std::string of a missing translation

StripUnderscore(n) == IF n # <<>> /\ Head(n) = "_" THEN Tail(n) ELSE n

\* The translation of a library: its target libraries and symbol renames.
NewLibTranslation == [targets |-> <<>>, symbols |-> [s \in {} |-> NoName]]

\* One line of load(): [libraries, active, currentTarget, thrown] to its
\* successor; active is {} while activeTranslation is null, and thrown is
\* set where a symbol rule precedes every library.
LoadLine(st, line) ==
    IF st.thrown \/ line.kind = "skip" THEN st
    ELSE IF line.kind = "lib"
    THEN LET libs == IF line.key \in DOMAIN st.libraries THEN st.libraries
                     ELSE st.libraries @@ (line.key :> NewLibTranslation)
             lt == libs[line.key]
         IN [libraries |-> [libs EXCEPT ![line.key].targets = Append(lt.targets, line.value)],
             active |-> {line.key}, currentTarget |-> line.value, thrown |-> FALSE]
    ELSE IF st.active = {} THEN [st EXCEPT !.thrown = TRUE]
    ELSE LET a == CHOOSE l \in st.active : TRUE
             lt == st.libraries[a]
             sym == [lib |-> st.currentTarget, name |-> line.value]
         IN [st EXCEPT !.libraries[a].symbols =
                          (line.key :> sym) @@ lt.symbols]

RECURSIVE LoadFrom(_, _)
LoadFrom(st, lines) ==
    IF lines = <<>> THEN st ELSE LoadFrom(LoadLine(st, Head(lines)), Tail(lines))

\* load(path): [libraries, thrown].
load(lines) ==
    LET st == LoadFrom([libraries |-> [l \in {} |-> NewLibTranslation],
                        active |-> {}, currentTarget |-> NoName, thrown |-> FALSE], lines)
    IN [libraries |-> st.libraries, thrown |-> st.thrown]

\* registerLibrary: a library with a translation is remembered and its
\* target libraries appended to the needed list, without deduplication.
registerLibrary(libraries, registered, lib, needed) ==
    IF lib \notin DOMAIN libraries THEN <<registered, needed>>
    ELSE <<registered \cup {lib}, needed \o libraries[lib].targets>>

\* Faulty variant falling back to the Mach-O name unchanged.
mapSymbolKeepUnderscore(libraries, registered, b) ==
    IF b.lib \notin registered THEN [lib |-> NoName, name |-> NoName]
    ELSE LET lt == libraries[b.lib]
         IN IF b.symbol \in DOMAIN lt.symbols THEN lt.symbols[b.symbol]
            ELSE [lib |-> lt.targets[1], name |-> b.symbol]

\* mapSymbol: the target name of a binding [lib, symbol]; NoName when its
\* library was not registered; without a rule the first target library and
\* the name without its leading underscore.
mapSymbol(libraries, registered, b) ==
    IF b.lib \notin registered THEN [lib |-> NoName, name |-> NoName]
    ELSE LET lt == libraries[b.lib]
         IN IF b.symbol \in DOMAIN lt.symbols THEN lt.symbols[b.symbol]
            ELSE [lib |-> lt.targets[1], name |-> StripUnderscore(b.symbol)]
=============================================================================
