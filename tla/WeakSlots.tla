----------------------------- MODULE WeakSlots -----------------------------
(***************************************************************************)
(* Weak references to objects whose class has its own retain and release   *)
(* (mavericks-legacy-support/src/weak_custom_rr.c).  objc refuses such an  *)
(* object, so a registry of the weak variables ("slots") is kept here, and *)
(* an associated object, the sentinel, zeroes an object's slots when the   *)
(* object is destroyed.  Other objects are left to objc, whose own table   *)
(* (`given`) and calls are external and each one step, as are the sections *)
(* that hold mpls_weak_lock.  Stores to a slot, and the association of a   *)
(* sentinel, are made without the lock and are steps of their own.         *)
(*                                                                         *)
(* `Uses` names what the callers and the system may do beyond what the     *)
(* code stands:                                                            *)
(*   "attach"  two threads form the first weak references to an object     *)
(*   "share"   two threads in calls on one slot                            *)
(*   "bind"    a call while another thread looks objc's functions up       *)
(*   "late"    a load that retains its object after the last release, the  *)
(*             window the file's header describes                          *)
(*   "nomem"   malloc fails                                                *)
(***************************************************************************)
EXTENDS Naturals, Sequences, FiniteSets

CONSTANTS Threads, Slots, Objects,
          Custom,     \* the objects whose class overrides retain or release
          Nil, Uses

ASSUME WeakConstants ==
    /\ Custom \subseteq Objects /\ Nil \notin Objects \cup Slots
    /\ Uses \subseteq {"attach", "share", "bind", "late", "nomem"}

VARIABLES life,      \* "live", "dying" from its last release on, then "freed"
          strong,    \* the objects each thread holds a strong reference to
          exists,    \* the weak variables there are
          value,     \* what is stored in each slot
          reg,       \* the registry: the object and the owner of each slot
          given,     \* objc's own table: the object it would zero the slot for
          sentinel,  \* the objects that carry a sentinel
          bound,     \* the functions of objc found so far
          call       \* where each thread is, and its call's arguments

vars == <<life, strong, exists, value, reg, given, sentinel, bound, call>>
tables == <<value, reg, given, sentinel>>

Unknown == [obj |-> Nil, owner |-> "none"]
Real == <<"store", "init", "load", "destroy">>
Idle == [at |-> "idle", loc |-> Nil, obj |-> Nil, next |-> "none", left |-> <<>>,
         then |-> "none", from |-> Nil, kept |-> FALSE]

Init == /\ life = [o \in Objects |-> "live"]
        /\ strong = [t \in Threads |-> Objects]
        /\ exists = {}
        /\ value = [x \in Slots |-> Nil]
        /\ reg = [x \in Slots |-> Unknown]
        /\ given = [x \in Slots |-> Nil]
        /\ sentinel = {}
        /\ bound = {}
        /\ call = [t \in Threads |-> Idle]

Goto(t, at) == call' = [call EXCEPT ![t].at = at]
At(t, at) == call[t].at = at
Busy(x) == \E t \in Threads : x \in {call[t].loc, call[t].from}

(***************************************************************************)
(* The registry                                                            *)
(***************************************************************************)
Forget(x) == reg' = [reg EXCEPT ![x] = Unknown]
Remember(x, o, owner) ==
    \E stored \in IF "nomem" \in Uses THEN BOOLEAN ELSE {TRUE} :
        reg' = [reg EXCEPT ![x] = IF stored THEN [obj |-> o, owner |-> owner] ELSE Unknown]

\* Mutation of Named: the search ends at the first slot found.
NamedFirst(o) ==
    LET all == {x \in Slots : reg[x] = [obj |-> o, owner |-> "ours"]}
    IN  IF all = {} THEN {} ELSE {CHOOSE x \in all : TRUE}

\* mpls_weak_zero_for: whatever still names the object.
Named(o) == {x \in Slots : reg[x] = [obj |-> o, owner |-> "ours"]}
ZeroFor(o) ==
    /\ value' = [x \in Slots |-> IF x \in Named(o) THEN Nil ELSE value[x]]
    /\ reg' = [x \in Slots |-> IF x \in Named(o) THEN Unknown ELSE reg[x]]

(***************************************************************************)
(* Calls.  A call on a slot begins with the lookup of objc's functions.    *)
(***************************************************************************)
Free(x) == "share" \in Uses \/ ~Busy(x)
Begin(t, c) ==
    /\ At(t, "idle")
    /\ "bind" \in Uses \/ \A u \in Threads : ~At(u, "bind")
    /\ call' = [call EXCEPT ![t] = c]
Call(x, o, next) == [Idle EXCEPT !.at = "bind", !.loc = x, !.obj = o,
                                 !.next = next, !.left = Real]
May(t, o) == o = Nil \/ o \in strong[t]

\* objc_initWeak on a fresh slot.
InitWeak(t, x, o) ==
    /\ x \notin exists /\ ~Busy(x) /\ May(t, o)
    /\ exists' = exists \cup {x}
    /\ value' = [value EXCEPT ![x] = Nil]
    /\ Forget(x)
    /\ Begin(t, IF o = Nil THEN Idle
                ELSE Call(x, o, IF o \in Custom THEN "look" ELSE "init"))
    /\ UNCHANGED <<life, strong, given, sentinel, bound>>

OnSlot(t, x, c) ==
    /\ x \in exists /\ Free(x)
    /\ Begin(t, c)
    /\ UNCHANGED <<life, strong, exists, tables, bound>>

StoreWeak(t, x, o) == May(t, o) /\ OnSlot(t, x, Call(x, o, "look"))
LoadWeakRetained(t, x) == OnSlot(t, x, Call(x, Nil, "read"))

\* No other call is made on a slot that is going away.
DestroyWeak(t, x) ==
    /\ x \in exists /\ ~Busy(x)
    /\ exists' = exists \ {x}
    /\ Begin(t, Call(x, Nil, "end"))
    /\ UNCHANGED <<life, strong, tables, bound>>

\* objc_copyWeak and objc_moveWeak make the fresh slot x a copy of `from`.
CopyWeak(t, x, from, moved) ==
    /\ x \notin exists /\ ~Busy(x)
    /\ from \in exists /\ IF moved THEN ~Busy(from) ELSE Free(from)
    /\ exists' = (exists \cup {x}) \ (IF moved THEN {from} ELSE {})
    /\ Begin(t, [Call(from, Nil, "read") EXCEPT
                     !.then = IF moved THEN "move" ELSE "copy", !.from = x])
    /\ UNCHANGED <<life, strong, tables, bound>>

\* mpls_weak_bind_real: one pointer after another, unless the first is there.
Bind(t) ==
    /\ At(t, "bind")
    /\ IF call[t].left = <<>> \/ (call[t].left = Real /\ "store" \in bound)
       THEN Goto(t, call[t].next) /\ UNCHANGED bound
       ELSE /\ bound' = bound \cup {Head(call[t].left)}
            /\ call' = [call EXCEPT ![t].left = Tail(@)]
    /\ UNCHANGED <<life, strong, exists, tables>>

\* A call returns: a copy goes on with its store and then its release, a move
\* with the destruction of its source.
Return(t) ==
    LET c == call[t]
        done == IF c.then = "moved" THEN [Idle EXCEPT !.at = "end", !.loc = c.from]
                ELSE Idle
    IN  call' = [call EXCEPT ![t] = IF c.then = "copied" \/ c.then = "moved"
                                    THEN IF c.kept THEN done
                                         ELSE [c EXCEPT !.at = "release"]
                                    ELSE Idle]

(***************************************************************************)
(* objc_storeWeak                                                          *)
(***************************************************************************)
Look(t) ==
    LET c == call[t] IN
    /\ At(t, "look")
    /\ Goto(t, IF c.obj \notin Custom THEN "drop"
               ELSE IF reg[c.loc].owner = "objc" /\ "destroy" \in bound THEN "undo"
               ELSE "attach")
    /\ UNCHANGED <<life, strong, exists, tables, bound>>

\* objc's registration is taken back; objc leaves the slot's word as it is.
Undo(t) ==
    /\ At(t, "undo")
    /\ given' = [given EXCEPT ![call[t].loc] = Nil]
    /\ Goto(t, "attach")
    /\ UNCHANGED <<life, strong, exists, value, reg, sentinel, bound>>

\* mpls_weak_attach_sentinel: is there a sentinel ...
Attaching(o) == {t \in Threads : At(t, "associate") /\ call[t].obj = o}
\* Mutation of Attach: every store associates a sentinel of its own.
AttachAlways(t) ==
    /\ At(t, "attach")
    /\ "attach" \in Uses \/ Attaching(call[t].obj) = {}
    /\ Goto(t, "associate")
    /\ UNCHANGED <<life, strong, exists, tables, bound>>

Attach(t) ==
    LET o == call[t].obj IN
    /\ At(t, "attach")
    /\ "attach" \in Uses \/ Attaching(o) = {}
    /\ Goto(t, IF o \in sentinel THEN "remember" ELSE "associate")
    /\ UNCHANGED <<life, strong, exists, tables, bound>>

\* ... and if not, one is associated.  The association releases the sentinel it
\* replaces, whose dealloc zeroes.
Associate(t) ==
    LET o == call[t].obj IN
    /\ At(t, "associate")
    /\ sentinel' = sentinel \cup {o}
    /\ IF o \in sentinel THEN ZeroFor(o) ELSE UNCHANGED <<value, reg>>
    /\ Goto(t, "remember")
    /\ UNCHANGED <<life, strong, exists, given, bound>>

RememberOurs(t) ==
    /\ At(t, "remember")
    /\ Remember(call[t].loc, call[t].obj, "ours")
    /\ Goto(t, "write")
    /\ UNCHANGED <<life, strong, exists, value, given, sentinel, bound>>

Write(t) ==
    /\ At(t, "write")
    /\ value' = [value EXCEPT ![call[t].loc] = call[t].obj]
    /\ Return(t)
    /\ UNCHANGED <<life, strong, exists, reg, given, sentinel, bound>>

\* Mutation of Drop: the slot is not cleared before objc has it.
DropOnly(t) ==
    LET x == call[t].loc IN
    /\ At(t, "drop")
    /\ IF reg[x].owner = "ours" THEN Forget(x) ELSE UNCHANGED reg
    /\ Goto(t, "store")
    /\ UNCHANGED <<life, strong, exists, value, given, sentinel, bound>>

\* The slot is handed to objc: forget it, clear it, ...
Drop(t) ==
    LET x == call[t].loc IN
    /\ At(t, "drop")
    /\ IF reg[x].owner = "ours" THEN Forget(x) /\ Goto(t, "clear")
                                ELSE Goto(t, "store") /\ UNCHANGED reg
    /\ UNCHANGED <<life, strong, exists, value, given, sentinel, bound>>

Clear(t) ==
    /\ At(t, "clear")
    /\ value' = [value EXCEPT ![call[t].loc] = Nil]
    /\ Goto(t, "store")
    /\ UNCHANGED <<life, strong, exists, reg, given, sentinel, bound>>

\* ... call objc's objc_storeWeak or objc_initWeak, ...
RealStore(t) ==
    LET c == call[t] IN
    /\ c.at \in {"store", "init"}
    /\ IF c.at \in bound
       THEN /\ value' = [value EXCEPT ![c.loc] = c.obj]
            /\ given' = [given EXCEPT ![c.loc] = c.obj]
            /\ Goto(t, "record")
       ELSE Goto(t, "look") /\ UNCHANGED <<value, given>>
    /\ UNCHANGED <<life, strong, exists, reg, sentinel, bound>>

\* ... and record that objc has it.
Record(t) ==
    LET c == call[t] IN
    /\ At(t, "record")
    /\ IF c.obj = Nil THEN Forget(c.loc) ELSE Remember(c.loc, c.obj, "objc")
    /\ Return(t)
    /\ UNCHANGED <<life, strong, exists, value, given, sentinel, bound>>

(***************************************************************************)
(* objc_loadWeakRetained, and the copy that goes on from it                *)
(***************************************************************************)
\* The load's result; a copy clears its target and stores the result in it.
Loaded(t, o) ==
    LET c == call[t] IN
    /\ strong' = IF o = Nil THEN strong ELSE [strong EXCEPT ![t] = @ \cup {o}]
    /\ IF c.then = "none"
       THEN /\ call' = [call EXCEPT ![t] = Idle]
            /\ UNCHANGED value
       ELSE LET after == IF c.then = "move" THEN "moved" ELSE "copied"
                store == [c EXCEPT !.loc = c.from, !.from = c.loc, !.obj = o,
                                   !.at = "look", !.then = after,
                                   !.kept = o \in strong[t]]
            IN  /\ value' = [value EXCEPT ![c.from] = Nil]
                /\ call' = [call EXCEPT ![t] =
                       IF o # Nil THEN store
                       ELSE IF c.then = "move" THEN [Idle EXCEPT !.at = "end", !.loc = c.loc]
                       ELSE Idle]

\* Under the lock; objc is asked about a slot that is not ours.
Read(t) ==
    LET c == call[t] IN
    /\ At(t, "read")
    /\ IF reg[c.loc].owner # "ours" THEN
            /\ Goto(t, "load") /\ UNCHANGED <<strong, value>>
       ELSE IF value[c.loc] = Nil THEN Loaded(t, Nil)
       ELSE /\ call' = [call EXCEPT ![t].at = "retain", ![t].obj = value[c.loc]]
            /\ UNCHANGED <<strong, value>>
    /\ UNCHANGED <<life, exists, reg, given, sentinel, bound>>

\* After the lock.
Retain(t) ==
    LET o == call[t].obj IN
    /\ At(t, "retain")
    /\ life[o] = "live" \/ "late" \in Uses
    /\ Loaded(t, o)
    /\ UNCHANGED <<life, exists, reg, given, sentinel, bound>>

\* objc returns its object if that is live, and nothing without the function.
RealLoad(t) ==
    LET o == value[call[t].loc] IN
    /\ At(t, "load")
    /\ Loaded(t, IF "load" \in bound /\ o # Nil /\ life[o] = "live" THEN o ELSE Nil)
    /\ UNCHANGED <<life, exists, reg, given, sentinel, bound>>

(***************************************************************************)
(* objc_destroyWeak                                                        *)
(***************************************************************************)
\* Mutation of End: a slot of objc's is left in the registry.
EndOurs(t) ==
    LET x == call[t].loc IN
    /\ At(t, "end")
    /\ IF reg[x].owner = "objc" THEN Goto(t, "unregister") /\ UNCHANGED reg
                                ELSE Goto(t, "blank") /\ Forget(x)
    /\ UNCHANGED <<life, strong, exists, value, given, sentinel, bound>>

End(t) ==
    LET x == call[t].loc IN
    /\ At(t, "end")
    /\ Forget(x)
    /\ Goto(t, IF reg[x].owner = "objc" THEN "unregister" ELSE "blank")
    /\ UNCHANGED <<life, strong, exists, value, given, sentinel, bound>>

Unregister(t) ==
    /\ At(t, "unregister")
    /\ given' = IF "destroy" \in bound THEN [given EXCEPT ![call[t].loc] = Nil] ELSE given
    /\ call' = [call EXCEPT ![t] = Idle]
    /\ UNCHANGED <<life, strong, exists, value, reg, sentinel, bound>>

Blank(t) ==
    /\ At(t, "blank")
    /\ value' = [value EXCEPT ![call[t].loc] = Nil]
    /\ call' = [call EXCEPT ![t] = Idle]
    /\ UNCHANGED <<life, strong, exists, reg, given, sentinel, bound>>

(***************************************************************************)
(* The life of an object: its last release, the destruction of what is     *)
(* associated with it, objc's own zeroing, and the end of its memory.      *)
(***************************************************************************)
Drops(t, o, after) ==
    /\ strong' = [strong EXCEPT ![t] = @ \ {o}]
    /\ IF \E u \in Threads \ {t} : o \in strong[u]
       THEN /\ call' = [call EXCEPT ![t] = after]
            /\ UNCHANGED life
       ELSE /\ life' = [life EXCEPT ![o] = "dying"]
            /\ call' = [call EXCEPT ![t] =
                   [after EXCEPT !.at = "zero", !.obj = o, !.next = after.at]]
    /\ UNCHANGED <<exists, tables, bound>>

Release(t, o) == /\ At(t, "idle") /\ o \in strong[t]
                 /\ Drops(t, o, Idle)

\* The release that ends a copy.
CopyRelease(t) ==
    /\ At(t, "release")
    /\ Drops(t, call[t].obj,
             IF call[t].then = "moved" THEN [Idle EXCEPT !.at = "end", !.loc = call[t].from]
             ELSE Idle)

Zero(t) ==
    LET o == call[t].obj IN
    /\ At(t, "zero")
    /\ IF o \in sentinel THEN ZeroFor(o)
       ELSE /\ value' = [x \in Slots |-> IF given[x] = o /\ value[x] = o THEN Nil
                                         ELSE value[x]]
            /\ UNCHANGED reg
    /\ given' = [x \in Slots |-> IF given[x] = o THEN Nil ELSE given[x]]
    /\ sentinel' = sentinel \ {o}
    /\ Goto(t, "free")
    /\ UNCHANGED <<life, strong, exists, bound>>

Dealloc(t) ==
    /\ At(t, "free")
    /\ life' = [life EXCEPT ![call[t].obj] = "freed"]
    /\ call' = [call EXCEPT ![t].at = call[t].next, ![t].obj = Nil, ![t].next = "none"]
    /\ UNCHANGED <<strong, exists, tables, bound>>

Next ==
    \E t \in Threads :
        \/ \E x \in Slots, o \in Objects \cup {Nil} : InitWeak(t, x, o)
        \/ \E x \in Slots, o \in Objects \cup {Nil} : StoreWeak(t, x, o)
        \/ \E x \in Slots : LoadWeakRetained(t, x)
        \/ \E x \in Slots : DestroyWeak(t, x)
        \/ \E x, y \in Slots, moved \in BOOLEAN : x # y /\ CopyWeak(t, x, y, moved)
        \/ \E o \in Objects : Release(t, o)
        \/ Bind(t) \/ Look(t) \/ Undo(t) \/ Attach(t) \/ Associate(t)
        \/ RememberOurs(t) \/ Write(t) \/ Drop(t) \/ Clear(t) \/ RealStore(t)
        \/ Record(t) \/ Read(t) \/ Retain(t) \/ RealLoad(t)
        \/ End(t) \/ Unregister(t) \/ Blank(t) \/ CopyRelease(t) \/ Zero(t) \/ Dealloc(t)

Spec == Init /\ [][Next]_vars

(***************************************************************************)
(* Properties                                                              *)
(***************************************************************************)
\* No weak variable holds an object whose memory is gone: "the slots are cleared
\* before the memory is reused" (the file's header).
NoDangling ==
    \A x \in exists : value[x] # Nil /\ life[value[x]] = "freed" => Busy(x)

\* objc is asked to take back only what it was given: for anything else it
\* faults in weak_unregister_no_lock (the comment on enum mpls_weak_owner).
ObjcOnlyItsOwn ==
    \A t \in Threads : call[t].at \in {"undo", "store", "unregister"} =>
        value[call[t].loc] \in {Nil, given[call[t].loc]}

\* A variable that has gone away is in neither table, so that no later
\* destruction writes to memory that is by then something else's.
NothingLeftBehind ==
    \A x \in Slots \ exists : ~Busy(x) => reg[x] = Unknown /\ given[x] = Nil

\* A weak variable of a live object is cleared by a call on that variable only.
LiveStays ==
    [][\A x \in exists :
          value[x] # Nil /\ value'[x] = Nil /\ life[value[x]] = "live" =>
              \E t \in Threads : call[t] # call'[t] /\ x \in {call[t].loc, call[t].from}]_vars
=============================================================================
