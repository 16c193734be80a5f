---------------------------- MODULE LinkedImage ----------------------------
(***************************************************************************)
(* What an edit of a program promises, in terms of the loaded program and  *)
(* not of its file: which libraries it loads in which order, what each     *)
(* pointer and each undefined symbol is bound to, and where its code is.   *)
(* Only names change, and only those that were asked for.                  *)
(***************************************************************************)
EXTENDS Sequences, Naturals

CONSTANTS Orders, FixOrders, Renames

VARIABLES libs,    \* name and kind of each library, in load order
          names,   \* of the image itself and of the rpaths
          ptrs,    \* what each pointer holds
          syms,    \* the library of each undefined symbol
          code,    \* entry, constructors, functions, exports, pieces of the file
          segs,    \* names of the segments and of the segments of the sections
          tags     \* the Swift bit of each class record

vars == <<libs, names, ptrs, syms, code, segs, tags>>

\* What a list of changes makes of a name.
Asked(changes, op, n) == \E i \in DOMAIN changes : changes[i].op = op /\ changes[i].old = n
NewName(changes, n) ==
    IF Asked(changes, "change", n)
    THEN LET i == CHOOSE i \in DOMAIN changes :
                    /\ changes[i].op = "change" /\ changes[i].old = n
                    /\ \A j \in 1..(i - 1) : changes[j].old # n
         IN  changes[i].new
    ELSE n

Deleted(s, changes) == SelectSeq(s, LAMBDA n : ~Asked(changes, "delete", n))
NewNames(s, changes) == [i \in DOMAIN s |-> NewName(changes, s[i])]
Fresh(paths) == [i \in DOMAIN paths |-> [name |-> paths[i], kind |-> "load"]]
Rebound(changes) ==
    /\ ptrs' = [l \in DOMAIN ptrs |-> [ptrs[l] EXCEPT !.lib = NewName(changes, @)]]
    /\ syms' = [s \in DOMAIN syms |-> NewName(changes, syms[s])]

\* change_dylib: no library that something is bound to is taken away.
Edit(o) ==
    /\ LET kept == SelectSeq(libs, LAMBDA b : ~Asked(o.changes, "delete", b.name))
       IN  libs' = Fresh(o.inserts)
                   \o [i \in DOMAIN kept |->
                        [name |-> NewName(o.changes, kept[i].name),
                         kind |-> IF Asked(o.changes, "reexport", kept[i].name)
                                  THEN "reexport" ELSE kept[i].kind]]
                   \o Fresh(o.adds)
    /\ names' = [names EXCEPT !.rpaths =
                    NewNames(Deleted(@, o.rchanges), o.rchanges) \o o.radds]
    /\ \A l \in DOMAIN ptrs : ~Asked(o.changes, "delete", ptrs[l].lib)
    /\ \A s \in DOMAIN syms : ~Asked(o.changes, "delete", syms[s])
    /\ Rebound(o.changes)
    /\ UNCHANGED <<code, segs, tags>>

\* fix_macho: like -change, also for the image's own name, and segments.
Fix(o) ==
    /\ libs' = [i \in DOMAIN libs |-> [libs[i] EXCEPT !.name = NewName(o.changes, @)]]
    /\ names' = [names EXCEPT !.id = NewNames(@, o.changes)]
    /\ segs' = {<<NewName(o.renames, s[1]), NewName(o.renames, s[2])>> : s \in segs}
    /\ Rebound(o.changes)
    /\ UNCHANGED <<code, tags>>

\* rename_segment
Rename(r) ==
    /\ segs' = {<<NewName(<<r>>, s[1]), NewName(<<r>>, s[2])>> : s \in segs}
    /\ UNCHANGED <<libs, names, ptrs, syms, code, tags>>

\* retag_swift_classes
Retag ==
    /\ tags' = [cl \in DOMAIN tags |-> IF tags[cl] = "stable" THEN "legacy" ELSE tags[cl]]
    /\ UNCHANGED <<libs, names, ptrs, syms, code, segs>>

Next == \/ \E o \in Orders : Edit(o)
        \/ \E o \in FixOrders : Fix(o)
        \/ \E r \in Renames : Rename(r)
        \/ Retag

\* Where the program starts is for the linker to say.
Spec == [][Next]_vars
=============================================================================
