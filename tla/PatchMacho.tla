----------------------------- MODULE PatchMacho -----------------------------
(***************************************************************************)
(* patch_macho.c: converts chained fixups into the opcodes of              *)
(* LC_DYLD_INFO_ONLY.                                                      *)
(***************************************************************************)
EXTENDS MachO

\* Mutation of Newer: leave the export trie's command.
NewerButTrie == {"chained", "build_version"}

\* What the older loader has no command for.
Newer == {"chained", "exports", "build_version"}
InfoSize == 48

\* A chain is left at the first word that lies outside the file or names an
\* import that does not exist.
Readable(img, l) == img.ptr[l].import \in 0..Len(img.imports)
Reached(img) ==
    {img.chain[i] : i \in {j \in DOMAIN img.chain :
                            \A k \in 1..j : Readable(img, img.chain[k])}}

\* The entry of the imports table taken for import n.  The format of the table is
\* not looked at: entries with addends are read as entries of half their length,
\* every second of which is an addend (a small one: ordinal 0 to 127, name 0).
ImportEntry(img, n) ==
    LET entry(i) == [sym |-> i, ord |-> img.imports[i].ord, weak |-> img.imports[i].weak]
    IN  IF ~img.wide THEN entry(n)
        ELSE IF n % 2 = 1 THEN entry((n + 1) \div 2)
        ELSE [sym |-> 0, ord |-> img.imports[n \div 2].addend, weak |-> FALSE]

\* The older loader knows no weak lookup (-3): it becomes a flat one (-2) of a
\* symbol that may be missing.  No opcode sets an addend.
BindOf(img, l) ==
    LET import == ImportEntry(img, img.ptr[l].import)
        ord == IF import.ord = -3 THEN -2 ELSE import.ord
    IN  [loc |-> l, sym |-> import.sym, ord |-> ord, addend |-> 0,
         weak |-> import.weak \/ import.ord = -3,
         form |-> IF ord < 0 THEN "special" ELSE IF ord <= ImmMax THEN "imm" ELSE "uleb"]

\* The word the converted image has at l.  Of an address, bits 0 to 42 are taken as
\* they are and bits 43 to 50 become the top byte, so that the lower seven bits of
\* the chain's own top byte (36 to 43) stay in the middle; of an offset, only bits
\* 0 to 35 are taken.
Plain(img, l) ==
    LET word == img.ptr[l]
        zero == [import |-> 0, value |-> 0, mid |-> 0, top |-> 0, addend |-> 0]
    IN  IF l \notin Reached(img) THEN word
        ELSE IF word.import > 0 THEN zero
        ELSE IF img.format = "offset" THEN [zero EXCEPT !.value = word.value + img.base]
        ELSE [zero EXCEPT !.value = word.value, !.mid = word.top % 128,
                          !.top = word.top \div 128]

\* The opcodes are appended to the file, and __LINKEDIT stretched over them.
Converted(img, appended) ==
    LET bound == {l \in Reached(img) : img.ptr[l].import > 0}
        size == RoundUp(img.size, 8) + appended
    IN [img EXCEPT
        !.cmds = Append(Without(@, Newer), PlainCmd("dyld_info", InfoSize)),
        !.at = [@ EXCEPT !["opcodes"] = RoundUp(img.size, 8)],
        !.field = [@ EXCEPT !["opcodes"] = RoundUp(img.size, 8)],
        !.ptr = [l \in DOMAIN @ |-> Plain(img, l)],
        !.rebases = Reached(img) \ bound,
        !.binds = {BindOf(img, l) : l \in bound},
        !.chain = <<>>, !.imports = <<>>, !.wide = FALSE, !.format = "none",
        !.size = size,
        !.linkedit = IF size > @ THEN size ELSE @]

Fits(img) ==
    HeaderSize + SizeOf(Without(img.cmds, Newer)) + InfoSize <= img.first

\* A file without chained fixups is passed through if it has been converted.
Patch(img, appended) ==
    IF ~Has(img, "chained")
    THEN IF Has(img, "dyld_info") THEN Done(img) ELSE Refused
    ELSE IF img.format \in {"address", "offset"} /\ Fits(img)
         THEN Done(Converted(img, appended))
         ELSE Refused
=============================================================================
