----------------------------- MODULE MachOTools -----------------------------
(***************************************************************************)
(* The smaller tools: fix_macho.c, rename_segment.c, add_version_min.c,    *)
(* retag_swift_classes.c, and the copy dlopen_interpose.c makes.           *)
(***************************************************************************)
EXTENDS MachO

CONSTANTS LibSystem, Wrapper   \* paths

ASSUME WrapperPaths == {LibSystem, Wrapper} \subseteq DOMAIN PathLen

(***************************************************************************)
(* fix_macho.  An order: strip (-strip_build_version), changes (-change),  *)
(* renames (-rename_seg), each a sequence of old and new names.            *)
(***************************************************************************)
IsFixOrder(o) ==
    {o.changes, o.renames} \subseteq Seq([old : Names, op : {"change"}, new : Names])

\* The loop counts one command for each it looks at and also shortens the
\* count for each it removes, so that it ends before the last ones.
Visited(img, strip) ==
    {i \in DOMAIN img.cmds :
        i + Cardinality({j \in 1..(i - 1) : strip /\ img.cmds[j].kind = "build_version"})
            <= Len(img.cmds)}

NewName(pairs, c) ==
    LET hits == {i \in DOMAIN pairs : pairs[i].old = c.name}
    IN  IF hits = {} THEN c.name ELSE pairs[Min(hits)].new

Pathed(c) == c.kind \in {"load", "weak", "id", "reexport"}
TooLong(o, c) ==
    /\ Pathed(c) /\ NewName(o.changes, c) # c.name
    /\ PathLen[NewName(o.changes, c)] > c.size - 24

FixedCmd(o, c) ==
    CASE c.kind = "segment" /\ NewName(o.renames, c) # c.name ->
            Renamed(c, NewName(o.renames, c))
      [] Pathed(c) -> [c EXCEPT !.name = NewName(o.changes, c)]
      [] OTHER     -> c

\* process_macho and main: on an error nothing is written.
Fix(img, o) ==
    LET seen == Visited(img, o.strip)
        gone == {i \in seen : o.strip /\ img.cmds[i].kind = "build_version"}
        fixed == [i \in DOMAIN img.cmds |->
                    IF i \in seen THEN FixedCmd(o, img.cmds[i]) ELSE img.cmds[i]]
    IN  IF \E i \in seen : TooLong(o, img.cmds[i]) THEN Refused
        ELSE Done([img EXCEPT !.cmds = Picked(fixed, DOMAIN fixed \ gone)])

RenamedSegment(c, old, new) ==
    IF c.kind = "segment" /\ c.name = old THEN Renamed(c, new) ELSE c
RenameSegment(img, old, new) ==
    IF \E c \in Segments(img) : c[1] = old
    THEN Done([img EXCEPT !.cmds =
                [i \in DOMAIN @ |-> RenamedSegment(@[i], old, new)]])
    ELSE Refused

AddVersionMin(img) ==
    IF Has(img, "version_min") THEN Done(img)
    ELSE IF End(img) + 16 > img.first THEN Refused
    ELSE Done([img EXCEPT !.cmds = Append(@, PlainCmd("version_min", 16))])

(***************************************************************************)
(* retag_swift_classes, of an image whose class list holds addresses: the  *)
(* Swift bit of each listed class and of its metaclass.                    *)
(***************************************************************************)
Retag(img) ==
    Done([img EXCEPT !.tags = [cl \in DOMAIN @ |->
            IF @[cl] = "stable" THEN "legacy" ELSE @[cl]]])

(***************************************************************************)
(* dlopen: every reference to libSystem is turned to the wrapper, in a     *)
(* copy.  The original is loaded where there is none or no room.           *)
(***************************************************************************)
\* Mutation of NamesLibSystem: look at the kind of the command only.
NamesLibrary(c) == c.kind \in {"load", "weak", "reexport"}

NamesLibSystem(c) == c.kind \in {"load", "weak", "reexport"} /\ c.name = LibSystem
Rewritten(c) ==
    IF NamesLibSystem(c) THEN [c EXCEPT !.name = Wrapper, !.size = Resized(c, 24, Wrapper)]
                         ELSE c
Rewrite(img) == [img EXCEPT !.cmds = [i \in DOMAIN @ |-> Rewritten(@[i])]]

\* The test leaves the header out.
CopyFits(img) == SizeOf(Rewrite(img).cmds) <= img.first

Opened(img) ==
    IF /\ \E i \in DOMAIN img.cmds : NamesLibSystem(img.cmds[i])
       /\ CopyFits(img)
    THEN Rewrite(img) ELSE img
=============================================================================
