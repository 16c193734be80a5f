------------------------------- MODULE MachO -------------------------------
(***************************************************************************)
(* A 64-bit Mach-O image as the editing tools of this repository see it,   *)
(* and what the loader makes of it.                                        *)
(*                                                                         *)
(* An image is a record:                                                   *)
(*   execute, pie, twolevel   file type and flags of the header            *)
(*   cmds       the load commands: kind, size in bytes, a name (the path   *)
(*              of a dylib or rpath, a segment's name) and the segment     *)
(*              name that the segment's sections repeat                    *)
(*   first      file offset of the first section: the end of the header pad*)
(*   base, zero address of the header, size of __PAGEZERO below it         *)
(*   at, field  where each piece of the file lies, and where the load      *)
(*              commands say it lies (0: the image has no such piece)      *)
(*   starts     first delta of LC_FUNCTION_STARTS and its width in bytes   *)
(*   inits      the entries of S_INIT_FUNC_OFFSETS sections                *)
(*   exports    the addresses in the export trie                           *)
(*   relative   what else counts from the header: the functions in         *)
(*              __unwind_info, the entries of LC_DATA_IN_CODE              *)
(*   format     pointer format of the chained fixups ("none": without)     *)
(*   chain      the pointers of the image in the order the chain visits    *)
(*   ptr        the word at each pointer: the import it binds to and what  *)
(*              is added to its address, or (import 0) the bits of an      *)
(*              address: value (0 to 35), mid (36 to 42) and top (56 to    *)
(*              63), which a chained word keeps at 36 to 43                *)
(*   imports    library ordinal, weak flag and addend of each import       *)
(*   wide       the imports table has addends (imports_format 2)           *)
(*   rebases, binds   what the opcodes of LC_DYLD_INFO say                 *)
(*   nlist      the library ordinal of each undefined symbol               *)
(*   tags       the Swift bit of each Objective-C class record             *)
(*   size, linkedit   end of the file, end of __LINKEDIT in it             *)
(***************************************************************************)
EXTENDS Integers, Sequences, FiniteSets, FiniteSetsExt

CONSTANTS
    Names,     \* of paths and of segments, and "none"
    PathLen,   \* the length of each path, with its NUL
    ImmMax     \* the greatest ordinal that fits a bind opcode's immediate

ASSUME PathLengths == /\ DOMAIN PathLen \cup {"none"} \subseteq Names
                      /\ PathLen \in [DOMAIN PathLen -> Nat]

\* What a tool answers: the image it made, or a refusal, which leaves the file.
Done(img) == [ok |-> TRUE, img |-> img]
Refused == [ok |-> FALSE]

HeaderSize == 32
Page == 4096
RoundUp(n, unit) == ((n + unit - 1) \div unit) * unit

\* The load commands that take a library ordinal.
OrdinalKinds == {"load", "weak", "reexport", "upward"}
Kinds == OrdinalKinds \cup
         {"segment", "id", "rpath", "main", "starts", "dyld_info", "chained", "exports",
          "version_min", "build_version", "source_version", "uuid", "codesig", "sign_drs"}
Command == [kind : Kinds, size : Nat, name : Names, sect : Names]
Fields == {"execute", "pie", "twolevel", "cmds", "first", "base", "zero", "at", "field",
           "starts", "inits", "exports", "relative", "format", "chain", "ptr", "imports",
           "wide", "rebases", "binds", "nlist", "tags", "size", "linkedit"}
IsImage(img) == /\ DOMAIN img = Fields
                /\ img.cmds \in Seq(Command)
                /\ {img.first, img.size, img.linkedit} \subseteq Nat

IsOrdinal(c) == c.kind \in OrdinalKinds

SizeOf(cmds) ==
    LET sum[n \in 0..Len(cmds)] == IF n = 0 THEN 0 ELSE sum[n - 1] + cmds[n].size
    IN  sum[Len(cmds)]
End(img) == HeaderSize + SizeOf(img.cmds)
Has(img, kind) == \E i \in DOMAIN img.cmds : img.cmds[i].kind = kind

\* The elements of s at the places in I, in order.
Picked(s, I) ==
    LET pick[n \in 0..Len(s)] ==
            IF n = 0 THEN <<>>
            ELSE IF n \in I THEN Append(pick[n - 1], s[n]) ELSE pick[n - 1]
    IN  pick[Len(s)]
Without(cmds, kinds) == Picked(cmds, {i \in DOMAIN cmds : cmds[i].kind \notin kinds})
Renamed(c, name) == [c EXCEPT !.name = name, !.sect = name]

DylibCmd(path) == [kind |-> "load", size |-> RoundUp(24 + PathLen[path], 8),
                   name |-> path, sect |-> "none"]
RpathCmd(path) == [kind |-> "rpath", size |-> RoundUp(12 + PathLen[path], 8),
                   name |-> path, sect |-> "none"]
PlainCmd(kind, size) == [kind |-> kind, size |-> size, name |-> "none", sect |-> "none"]

\* A command's size once its path is `path`: it never shrinks.
Resized(c, offset, path) ==
    LET needed == RoundUp(offset + PathLen[path], 8)
    IN IF needed < c.size THEN c.size ELSE needed

\* Bytes an unsigned LEB128 number takes when a byte holds `radix` values.
UlebLen(v, radix) == IF v < radix THEN 1 ELSE IF v < radix * radix THEN 2 ELSE 3

(***************************************************************************)
(* The loader.                                                             *)
(***************************************************************************)
Libraries(img) == Picked(img.cmds, {i \in DOMAIN img.cmds : IsOrdinal(img.cmds[i])})

\* 0, -1, -2 and -3 are the image itself, the main executable, every image,
\* and every image with the symbol allowed to be missing.  A flat namespace
\* has no ordinals.
Library(img, n) ==
    LET libs == Libraries(img)
    IN  CASE ~img.twolevel \/ n \in {-2, -3} -> "flat"
          [] img.twolevel /\ n \in DOMAIN libs -> libs[n].name
          [] img.twolevel /\ n = 0  -> "self"
          [] img.twolevel /\ n = -1 -> "main"
          [] OTHER -> "none"

Bound(img, sym, ord, weak, addend) ==
    [lib |-> Library(img, ord), sym |-> sym, weak |-> weak \/ ord = -3,
     addr |-> addend, mid |-> 0, top |-> 0]
Address(a, mid, top) ==
    [lib |-> "none", sym |-> 0, weak |-> FALSE, addr |-> a, mid |-> mid, top |-> top]

\* What a chained word is bound to.
Imported(img, word) ==
    LET import == img.imports[word.import]
    IN  Bound(img, word.import, import.ord, import.weak,
              word.addend + IF img.wide THEN import.addend ELSE 0)

\* What the program finds at pointer l when it runs.
Pointer(img, l) ==
    LET word == img.ptr[l]
    IN  IF Has(img, "chained")
        THEN IF word.import > 0
             THEN Imported(img, word)
             ELSE Address(IF img.format = "offset" THEN img.base + word.value
                                                   ELSE word.value, 0, word.top)
        ELSE IF \E b \in img.binds : b.loc = l
             THEN LET b == CHOOSE b \in img.binds : b.loc = l
                  IN  Bound(img, b.sym, b.ord, b.weak, b.addend)
             ELSE IF l \in img.rebases THEN Address(word.value, word.mid, word.top)
                                       ELSE Address(-1, 0, 0)

\* The constructors run at load time.
Initializers(img) == {img.base + e : e \in img.inits}
FunctionStart(img) == img.base + img.starts.delta
Exported(img) == {img.base + a : a \in img.exports \ {0}}
Described(img) == {img.base + r : r \in img.relative}
Entry(img) == img.base + img.field["entry"]
\* The pieces of the file that the load commands no longer lead to.
Lost(img) == {i \in DOMAIN img.at : img.field[i] # img.at[i]}
Paths(img, kind) ==
    LET cmds == Picked(img.cmds, {i \in DOMAIN img.cmds : img.cmds[i].kind = kind})
    IN  [i \in DOMAIN cmds |-> cmds[i].name]
Segments(img) == {<<c.name, c.sect>> : c \in
                    {img.cmds[i] : i \in {j \in DOMAIN img.cmds : img.cmds[j].kind = "segment"}}}
Code(img) == [entry |-> Entry(img), inits |-> Initializers(img), lost |-> Lost(img),
              start |-> FunctionStart(img), exports |-> Exported(img),
              described |-> Described(img)]
=============================================================================
