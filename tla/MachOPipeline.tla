--------------------------- MODULE MachOPipeline ---------------------------
(***************************************************************************)
(* The tools applied to one file, in any order, and the file then loaded.  *)
(* A tool works on a copy in memory and writes the file at its end, so     *)
(* that each use of one is a step; a tool that refuses leaves the file.    *)
(*                                                                         *)
(* `Uses` names what the users of the tools may do beyond what the tools   *)
(* are sound for:                                                          *)
(*   "upward"   name an upward dylib in -change and the like, or name one  *)
(*              path twice                                                 *)
(*   "chained"  grow the header before the fixups are converted            *)
(*   "both"     -strip_build_version with a -change of the last command    *)
(*   "scratch"  -change to a path much longer than the header pad          *)
(*   "copy"     open a library with less than a header's room to spare     *)
(*   "relative" grow the header of a program that describes its code by    *)
(*              distances from the header (__unwind_info, data in code)    *)
(*   "addend", "top", "wide"   convert a chain that binds to a symbol plus *)
(*              an addend, has bits in the top byte of an address, or has  *)
(*              an imports table with addends                              *)
(***************************************************************************)
EXTENDS ChangeDylib, PatchMacho, MachOTools

CONSTANTS Images, Orders, FixOrders, Renames, Uses, MaxEdits,
          Opcodes    \* the length of the opcodes that patch_macho appends

ASSUME PipelineConstants ==
    /\ MaxEdits \in Nat /\ Opcodes \in Nat
    /\ Uses \subseteq {"upward", "chained", "both", "scratch", "copy", "relative",
                       "addend", "top", "wide"}

AtMostOne(cmds, kind) ==
    \A i, j \in DOMAIN cmds : cmds[i].kind = kind /\ cmds[j].kind = kind => i = j
Single(img) ==
    /\ \A k \in {"dyld_info", "version_min", "chained"} : AtMostOne(img.cmds, k)
    /\ Has(img, "dyld_info") => ~Has(img, "chained") /\ ~Has(img, "exports")
Roomed(img) == End(img) <= img.first /\ img.linkedit >= img.size

\* What a linker makes; nothing takes libSystem for an upward dylib.
WellFormed(img) == /\ IsImage(img) /\ Roomed(img) /\ Single(img)
               /\ \A i \in DOMAIN img.cmds : ~(/\ img.cmds[i].kind = "upward"
                                               /\ img.cmds[i].name = LibSystem)

ASSUME PipelineInputs ==
    /\ \A img \in Images : WellFormed(img)
    /\ \A o \in Orders : IsOrder(o)
    /\ \A o \in FixOrders : IsFixOrder(o)
    /\ \A r \in Renames : r.new \in Names
    /\ LibSystem \notin {"flat", "self", "main", "none"}

VARIABLES file,     \* the image in the file
          edits,    \* how many tools have been run
          opened    \* the image given to the loader, <<>> before that

vars == <<file, edits, opened>>

Init == /\ file \in Images
        /\ edits = 0
        /\ opened = <<>>

\* The file after a tool that answered r.
Use(r) == /\ opened = <<>> /\ edits < MaxEdits
          /\ edits' = edits + 1
          /\ file' = IF r.ok THEN r.img ELSE file
          /\ UNCHANGED opened

Named(changes) == {changes[i].old : i \in DOMAIN changes}
NamesUpward(img, changes) ==
    \E c \in DOMAIN img.cmds : /\ img.cmds[c].kind = "upward"
                               /\ img.cmds[c].name \in Named(changes)
Conflicting(img, o) ==
    \/ NamesUpward(img, o.changes)
    \/ Cardinality(Named(o.changes)) < Len(o.changes)
Grows(img, o) == o.grow /\ NeedEnd(img, o) > img.first
GrowsChained(img, o) == Has(img, "chained") /\ Grows(img, o)
GrowsDescribed(img, o) == img.relative # {} /\ Grows(img, o)

EditDylibs(o) ==
    /\ Conflicting(file, o) => "upward" \in Uses
    /\ GrowsChained(file, o) => "chained" \in Uses
    /\ GrowsDescribed(file, o) => "relative" \in Uses
    /\ ~ScratchHolds(file, o) => "scratch" \in Uses
    /\ Use(ChangeDylib(file, o))

HasAddend(img) == \E l \in Reached(img) : img.ptr[l].import > 0 /\ img.ptr[l].addend # 0
HasTop(img) == \E l \in Reached(img) : img.ptr[l].import = 0 /\ img.ptr[l].top # 0
ConvertFixups ==
    /\ HasAddend(file) => "addend" \in Uses
    /\ HasTop(file) => "top" \in Uses
    /\ file.wide => "wide" \in Uses
    /\ Use(Patch(file, Opcodes))

Skips(img, o) == \E i \in DOMAIN img.cmds \ Visited(img, o.strip) :
                    FixedCmd(o, img.cmds[i]) # img.cmds[i]
FixFile(o) ==
    /\ NamesUpward(file, o.changes) => "upward" \in Uses
    /\ Skips(file, o) => "both" \in Uses
    /\ Use(Fix(file, o))

Rename(r) == Use(RenameSegment(file, r.old, r.new))

DeclareVersion == Use(AddVersionMin(file))

RetagClasses == ~Has(file, "chained") /\ Use(Retag(file))

\* The copy's commands fit only if the header is forgotten.
InHeaderWindow(img) == CopyFits(img) /\ End(Rewrite(img)) > img.first

\* dlopen of a library, or the start of an executable.
Open ==
    /\ opened = <<>>
    /\ ~file.execute /\ InHeaderWindow(file) => "copy" \in Uses
    /\ opened' = IF file.execute THEN file ELSE Opened(file)
    /\ UNCHANGED <<file, edits>>

Next == \/ \E o \in Orders : EditDylibs(o)
        \/ ConvertFixups
        \/ \E o \in FixOrders : FixFile(o)
        \/ \E r \in Renames : Rename(r)
        \/ DeclareVersion
        \/ RetagClasses
        \/ Open

Spec == Init /\ [][Next]_vars

(***************************************************************************)
(* Properties                                                              *)
(***************************************************************************)
\* Room: the load commands never reach into the first section's bytes, and the
\* loader is never asked for bytes that no segment covers (change_dylib.c and
\* add_version_min.c compare with the first section, patch_macho.c stretches
\* __LINKEDIT over what it appends).
SectionsIntact ==
    /\ Roomed(file)
    /\ opened # <<>> => End(opened) <= opened.first

\* Each kind of information has one command: converted fixups leave nothing
\* of the newer form, and running a tool twice adds nothing
\* (patch_macho.c's pass-through, add_version_min.c's early return).
OneOfEach == Single(file)

\* A library is loaded with what it was linked to, except that the wrapper
\* stands for libSystem (dlopen_interpose.c).
CopyMeansTheSame ==
    opened # <<>> =>
        LET now(n) == IF opened # file /\ n = LibSystem THEN Wrapper ELSE n
        IN  /\ Code(opened) = Code(file)
            /\ \A l \in DOMAIN file.ptr :
                    Pointer(opened, l) = [Pointer(file, l) EXCEPT !.lib = now(@)]

\* Refinement: whatever is done to the file, the program it holds is the one
\* that was asked for.  Libraries, bindings, addresses and names change as the
\* orders say and nothing else does; a refusal changes nothing.  This holds only
\* without what `Uses` names: patch_macho.c drops addends and misplaces or drops
\* the top byte, and macho_grow.h leaves __unwind_info as it is.
Linked == INSTANCE LinkedImage WITH
    libs  <- [i \in DOMAIN Libraries(file) |-> [name |-> Libraries(file)[i].name,
                                                kind |-> Libraries(file)[i].kind]],
    names <- [id |-> Paths(file, "id"), rpaths |-> Paths(file, "rpath")],
    ptrs  <- [l \in DOMAIN file.ptr |-> Pointer(file, l)],
    syms  <- [s \in DOMAIN file.nlist |-> Library(file, file.nlist[s])],
    code  <- Code(file),
    segs  <- Segments(file),
    tags  <- file.tags
ImplementsLinked == Linked!Spec
=============================================================================
