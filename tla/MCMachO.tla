------------------------------ MODULE MCMachO ------------------------------
EXTENDS MachOPipeline

\* Lengths of paths: "c" is as long as "b", "long" does not fit in its place.
MCPathLen == [sys |-> 27, a |-> 8, b |-> 8, c |-> 8, long |-> 40, wrapper |-> 100,
              far |-> 240, id |-> 8, r |-> 4]

MCNames == DOMAIN MCPathLen \cup
           {"zero", "text", "data_const", "data", "linkedit", "none"}

Segment(n) == [kind |-> "segment", size |-> 152, name |-> n, sect |-> n]
Lib(kind, n) == [DylibCmd(n) EXCEPT !.kind = kind]
Word(import, value) == [import |-> import, value |-> value, mid |-> 0, top |-> 0, addend |-> 0]
Import(ord, weak) == [ord |-> ord, weak |-> weak, addend |-> 1]
Imports == <<Import(1, FALSE), Import(2, FALSE), Import(-3, FALSE), Import(3, TRUE)>>
Lower == 8192

\* Load commands as a linker lays them out: segments, fixups, tables, libraries.
Cmds(s) ==
    (IF s.execute THEN <<Segment("zero")>> ELSE <<>>)
    \o <<Segment("text"), Segment("data_const"), Segment("linkedit")>>
    \o (IF s.format = "none" THEN <<PlainCmd("dyld_info", 48)>>
        ELSE <<PlainCmd("chained", 16), PlainCmd("exports", 16)>>)
    \o (IF s.execute THEN <<PlainCmd("main", 24)>> ELSE <<Lib("id", "id")>>)
    \o <<PlainCmd("uuid", 24), PlainCmd("build_version", 32)>>
    \o <<Lib(s.first, "a"), Lib("load", "b"), Lib("load", "sys"), RpathCmd("r")>>
    \o <<PlainCmd("starts", 16)>>

Linker(s) ==
    LET cmds  == Cmds(s)
        first == HeaderSize + SizeOf(cmds) + s.pad
        base  == IF s.execute THEN Lower ELSE 0
        pieces == [sections |-> first, entry |-> first + 64, symtab |-> first + 2000,
                   starts |-> first + 2200, fixups |-> first + 2300, opcodes |-> 0]
        target == base + 3000
    IN [execute |-> s.execute, pie |-> s.execute, twolevel |-> s.twolevel,
        cmds |-> cmds, first |-> first, base |-> base,
        zero |-> IF s.execute THEN Lower ELSE 0, at |-> pieces, field |-> pieces,
        starts |-> [delta |-> s.delta, width |-> 2],
        inits |-> IF s.execute THEN {900, 1000} ELSE {},
        exports |-> IF s.execute THEN {0} ELSE {0, 700},
        relative |-> IF s.odd = "relative" THEN {900} ELSE {},
        format |-> s.format,
        chain |-> IF s.format = "none" THEN <<>> ELSE <<1, 2, 3, 4, 5>>,
        ptr |-> [l \in 1..5 |->
                    IF s.format = "none" THEN Word(0, IF l = 1 THEN target ELSE 0)
                    ELSE IF l = 1
                    THEN [Word(0, IF s.format = "offset" THEN target - base ELSE target)
                            EXCEPT !.top = IF s.odd = "top" THEN 3 ELSE 0]
                    ELSE [Word(l - 1, 0)
                            EXCEPT !.addend = IF s.odd = "addend" /\ l = 3 THEN 8 ELSE 0]],
        wide |-> s.odd = "wide",
        imports |-> IF s.format = "none" THEN <<>> ELSE Imports,
        rebases |-> IF s.format = "none" THEN {1} ELSE {},
        binds |-> IF s.format # "none" THEN {}
                  ELSE {[loc |-> l, sym |-> l - 1, weak |-> FALSE, addend |-> IF l = 4 THEN 8 ELSE 0,
                         ord |-> IF s.twolevel THEN l - 1 ELSE -2,
                         form |-> IF ~s.twolevel THEN "special"
                                  ELSE IF l - 1 <= ImmMax THEN "imm" ELSE "uleb"] :
                        l \in {2} \cup s.bound},
        nlist |-> [y \in 1..3 |-> IF ~s.twolevel THEN 0
                                  ELSE IF y + 1 \in {2} \cup s.bound \/ s.format # "none"
                                  THEN y ELSE 0],
        tags |-> [k \in {"class", "meta", "plain"} |->
                    IF k = "plain" THEN "none" ELSE "stable"],
        size |-> first + 4001, linkedit |-> first + 4001]

\* bound: which of the libraries b and sys a symbol is bound to besides a.
\* odd: what the image has that a tool overlooks.
Plainest ==
    {[execute |-> TRUE, twolevel |-> TRUE, format |-> f, first |-> "load", pad |-> p,
      delta |-> 12000, bound |-> {4}] : f \in {"none", "offset", "address"}, p \in {16, 120}}
    \cup {[execute |-> TRUE, twolevel |-> TRUE, format |-> "none", first |-> k, pad |-> 16,
           delta |-> d, bound |-> {3, 4}] : k \in {"weak", "upward"}, d \in {500, 13000}}
    \cup {[execute |-> FALSE, twolevel |-> t, format |-> "none", first |-> "reexport",
           pad |-> p, delta |-> 600, bound |-> {3, 4}] : t \in BOOLEAN, p \in {16, 56, 320}}
WithOdd(s, odd) == [f \in DOMAIN s \cup {"odd"} |-> IF f = "odd" THEN odd ELSE s[f]]
Odd(format, odd) ==
    WithOdd([execute |-> TRUE, twolevel |-> TRUE, format |-> format, first |-> "load",
             pad |-> 16, delta |-> 12000, bound |-> {4}], odd)
Shapes == {WithOdd(s, "none") : s \in Plainest}
          \cup {Odd("none", "relative"), Odd("offset", "addend"), Odd("offset", "top"),
                Odd("address", "top"), Odd("offset", "wide")}
MCImages == {Linker(s) : s \in Shapes}

To(old, new) == [old |-> old, op |-> "change", new |-> new]
Delete(old) == [old |-> old, op |-> "delete", new |-> "none"]
Reexport(old) == [old |-> old, op |-> "reexport", new |-> "none"]
NoOrder == [grow |-> FALSE, changes |-> <<>>, inserts |-> <<>>, adds |-> <<>>,
            strip |-> {}, rchanges |-> <<>>, radds |-> <<>>]
MCOrders ==
    {[NoOrder EXCEPT !.changes = <<To("a", "c")>>],
     [NoOrder EXCEPT !.changes = <<To("b", "long"), Reexport("a")>>, !.grow = TRUE],
     [NoOrder EXCEPT !.changes = <<To("sys", "wrapper"), Delete("a")>>],
     [NoOrder EXCEPT !.changes = <<Delete("b")>>, !.rchanges = <<To("r", "long")>>,
                     !.grow = TRUE],
     [NoOrder EXCEPT !.inserts = <<"c">>, !.strip = {"uuid"}, !.grow = TRUE],
     [NoOrder EXCEPT !.inserts = <<"c">>, !.changes = <<Delete("b")>>],
     [NoOrder EXCEPT !.adds = <<"c">>, !.strip = {"uuid", "codesig"}],
     [NoOrder EXCEPT !.rchanges = <<Delete("r")>>, !.radds = <<"a", "b">>],
     [NoOrder EXCEPT !.changes = <<To("b", "far")>>, !.grow = TRUE]}

Fixes(strip, changes, renames) == [strip |-> strip, changes |-> changes, renames |-> renames]
MCFixOrders == {Fixes(TRUE, <<>>, <<>>), Fixes(FALSE, <<To("a", "c"), To("id", "a")>>, <<>>),
                Fixes(FALSE, <<To("b", "long")>>, <<To("data_const", "data")>>),
                Fixes(TRUE, <<To("sys", "a"), To("c", "b")>>, <<>>)}
MCRenames == {To("data_const", "data")}
=============================================================================
