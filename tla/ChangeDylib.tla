---------------------------- MODULE ChangeDylib ----------------------------
(***************************************************************************)
(* change_dylib.c: rewrites the dylib and rpath commands of an image and   *)
(* renumbers the library ordinals.                                         *)
(*                                                                         *)
(* An order says what the command line asked for:                          *)
(*   grow       -grow was given                                            *)
(*   changes    -change, -delete, -reexport, in the order given            *)
(*   inserts, adds     -insert, -add                                       *)
(*   strip      the kinds of -strip-lc                                     *)
(*   rchanges, radds   the same three operations for rpaths                *)
(***************************************************************************)
EXTENDS MachOGrow

CONSTANTS
    MaxDylibs,   \* CD_MAX_DYLIBS
    MaxOps,      \* CD_MAX_OPS
    OrdRadix     \* values of a ULEB byte, for ordinals

Change == [old : Names, op : {"delete", "reexport"}, new : Names]
          \cup [old : Names, op : {"change"}, new : DOMAIN PathLen]
IsOrder(o) == /\ {o.changes, o.rchanges} \subseteq Seq(Change)
              /\ {o.inserts, o.adds, o.radds} \subseteq Seq(DOMAIN PathLen)

\* CD_ROOM: each option's list has a limit.
WithinCaps(o) == \A n \in {Len(o.changes), Len(o.inserts), Len(o.adds),
                            Len(o.rchanges), Len(o.radds)} : n <= MaxOps

Strippable == {"uuid", "codesig", "source_version", "build_version", "sign_drs"}

\* The first change that names c, or none.
First(changes, c) ==
    LET hits == {i \in DOMAIN changes : changes[i].old = c.name}
    IN  IF hits = {} THEN [old |-> c.name, op |-> "keep", new |-> "none"]
        ELSE changes[Min(hits)]
Match(o, c) ==
    CASE c.kind \in {"load", "weak", "reexport"} -> First(o.changes, c)
      [] c.kind = "rpath"                        -> First(o.rchanges, c)
      [] OTHER -> [old |-> c.name, op |-> "keep", new |-> "none"]

Changed(o, c) ==
    LET m == Match(o, c)
    IN  CASE m.op = "change"   -> [c EXCEPT !.name = m.new, !.size =
                                    Resized(c, IF c.kind = "rpath" THEN 12 ELSE 24, m.new)]
          [] m.op = "reexport" -> [c EXCEPT !.kind = "reexport"]
          [] OTHER             -> c

Stays(o, c) == c.kind \notin o.strip /\ Match(o, c).op # "delete"
DylibCmds(paths) == [i \in DOMAIN paths |-> DylibCmd(paths[i])]
RpathCmds(paths) == [i \in DOMAIN paths |-> RpathCmd(paths[i])]
Edited(o, cmds) ==
    Picked([i \in DOMAIN cmds |-> Changed(o, cmds[i])],
           {i \in DOMAIN cmds : Stays(o, cmds[i])})

\* build_lcs.  Inserted libraries go before the first command that takes an
\* ordinal, whether or not that command stays.
BuildLcs(img, o) ==
    LET dylibs == {i \in DOMAIN img.cmds : IsOrdinal(img.cmds[i])}
        cut == IF dylibs = {} THEN Len(img.cmds) ELSE Min(dylibs) - 1
    IN  Edited(o, SubSeq(img.cmds, 1, cut)) \o DylibCmds(o.inserts)
        \o Edited(o, SubSeq(img.cmds, cut + 1, Len(img.cmds)))
        \o DylibCmds(o.adds) \o RpathCmds(o.radds)

\* Nothing in the image answers to the order.
NoModification(img, o) ==
    /\ o.inserts = <<>> /\ o.adds = <<>> /\ o.radds = <<>>
    /\ \A i \in DOMAIN img.cmds : /\ img.cmds[i].kind \notin o.strip
                                  /\ Match(o, img.cmds[i]).op = "keep"

(***************************************************************************)
(* Library ordinals.                                                       *)
(***************************************************************************)
\* The new ordinal of each old one, 0 for one that is deleted.
OrdMap(img, o) ==
    LET libs == Libraries(img)
        gone == {i \in DOMAIN libs : \E c \in DOMAIN o.changes :
                    o.changes[c].op = "delete" /\ o.changes[c].old = libs[i].name}
    IN  [i \in DOMAIN libs |->
            IF i \in gone THEN 0
            ELSE Len(o.inserts) + Cardinality((1..i) \ gone)]
NeedsRenumber(img, o) ==
    o.inserts # <<>> \/ \E i \in DOMAIN Libraries(img) : OrdMap(img, o)[i] = 0
TooManyDylibs(img, o) ==
    \/ Len(Libraries(img)) > MaxDylibs
    \/ Cardinality({i \in DOMAIN Libraries(img) : OrdMap(img, o)[i] # 0})
            + Len(o.inserts) + Len(o.adds) > MaxDylibs

\* Whether one entry of a bind stream can be rewritten where it is.
BindFits(map, b) ==
    \/ b.form = "special"
    \/ /\ b.ord \in DOMAIN map /\ map[b.ord] # 0
       /\ \/ b.form = "imm" /\ map[b.ord] <= ImmMax
          \/ /\ b.form = "uleb"
             /\ UlebLen(map[b.ord], OrdRadix) = UlebLen(b.ord, OrdRadix)
SymbolFits(map, n) == n >= 1 => n \in DOMAIN map /\ map[n] # 0

Renumbered(img, map) ==
    [img EXCEPT !.nlist = [s \in DOMAIN @ |-> IF @[s] >= 1 THEN map[@[s]] ELSE @[s]],
                !.binds = {[b EXCEPT !.ord = IF b.form = "special" THEN @ ELSE map[@]] :
                            b \in @}]

RenumberOrdinals(img, map) ==
    IF Has(img, "chained") THEN Refused
    ELSE IF ~img.twolevel THEN Done(img)
    ELSE IF /\ \A s \in DOMAIN img.nlist : SymbolFits(map, img.nlist[s])
            /\ \A b \in img.binds : BindFits(map, b)
         THEN Done(Renumbered(img, map))
         ELSE Refused

(***************************************************************************)
(* main                                                                    *)
(***************************************************************************)
NeedEnd(img, o) == HeaderSize + SizeOf(BuildLcs(img, o))

\* The scratch buffer the new table is first built in, and what is put there.
ScratchSize(img, o) ==
    img.first + SizeOf(DylibCmds(o.adds)) + SizeOf(DylibCmds(o.inserts))
              + SizeOf(RpathCmds(o.radds)) + 64
ScratchHolds(img, o) == SizeOf(BuildLcs(img, o)) <= ScratchSize(img, o)

\* Mutation of Roomy: forget the header in front of the commands.
RoomyNoHeader(img, o) ==
    IF NeedEnd(img, o) - HeaderSize <= img.first THEN Done(img)
    ELSE IF o.grow THEN GrowHeader(img, NeedEnd(img, o) - img.first)
    ELSE Refused

\* The image with room for the new table.
Roomy(img, o) ==
    IF NeedEnd(img, o) <= img.first THEN Done(img)
    ELSE IF o.grow THEN GrowHeader(img, NeedEnd(img, o) - img.first)
    ELSE Refused

Committed(img, o) ==
    LET new == [img EXCEPT !.cmds = BuildLcs(img, o)]
        map == OrdMap(img, o)
    IN  IF NeedsRenumber(img, o) THEN RenumberOrdinals(new, map) ELSE Done(new)

ChangeDylib(img, o) ==
    IF ~WithinCaps(o) \/ TooManyDylibs(img, o) THEN Refused
    ELSE IF NoModification(img, o) THEN Done(img)
    ELSE LET room == Roomy(img, o)
         IN  IF room.ok THEN Committed(room.img, o) ELSE Refused
=============================================================================
