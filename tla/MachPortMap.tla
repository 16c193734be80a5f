---------------------------- MODULE MachPortMap ----------------------------
(***************************************************************************)
(* The Mach port translation of kevent64_shim.c.                           *)
(*                                                                         *)
(* 10.9 accepts EVFILT_MACHPORT on a portset only.  When a receive port is *)
(* registered, the shim moves it into a portset of its own, registers the  *)
(* portset and remembers the pair in g_mp_map; when the portset fires, it  *)
(* translates the ident back, empties the port if the caller expects the   *)
(* kernel to have received the message (a loop's wakeup port), and forgets *)
(* the pair if the caller receives the message itself (a one-shot reply    *)
(* port of getaddrinfo_async).                                             *)
(*                                                                         *)
(* Every use of g_mp_map is one critical section of g_mp_mu; the kernel    *)
(* calls between them are not protected.  Ports, portsets and filters are  *)
(* the kernel's (external), as the shim uses them.                         *)
(***************************************************************************)
EXTENDS Integers, FiniteSets

CONSTANTS
    Threads,
    Ports,      \* names of the callers' receive ports
    Psets,      \* names the kernel has for portsets
    MapSize,    \* MP_MAP_SIZE
    Kind,       \* each port is registered as "wakeup" or as "reply"
    User,       \* the ports each thread registers
    Again,      \* TRUE: a port is registered again while it is registered
    Scarce,     \* TRUE: the kernel may refuse to make a portset at any time
    None        \* MACH_PORT_NULL

Slot == 1..MapSize

ASSUME MapConstants ==
    /\ MapSize \in Nat \ {0}
    /\ Kind \in [Ports -> {"wakeup", "reply"}]
    /\ User \in [Threads -> SUBSET Ports]
    /\ Again \in BOOLEAN /\ Scarce \in BOOLEAN
    /\ None \notin Ports /\ None \notin Psets

VARIABLES
    map,        \* g_mp_map
    pc,         \* where each thread is in the shim
    port,       \* the port a thread registers, or that fired
    pset,       \* the portset a thread created, looked up, or that fired
    other,      \* mp_get_or_create_pset's `other`
    noDrain,    \* machport_drain_fired's `no_drain`
    alive,      \* external: ports with a live receive right
    psets,      \* external: portsets that exist
    member,     \* external: the portset each port is in
    queue,      \* external: each port's one-message queue
    filter,     \* external: the filter registered on each portset
    reg,        \* external: what a port's owner knows of its registration
    told        \* external: reply ports whose owner was told of a message

locals == <<port, pset, other, noDrain>>
kernel == <<alive, psets, member, queue, filter>>
owner  == <<reg, told>>
vars   == <<map, pc, locals, kernel, owner>>

Empty == [port |-> None, pset |-> None, noDrain |-> FALSE]
Entry == [port : Ports, pset : Psets, noDrain : BOOLEAN]
Stage == {"idle", "create", "install", "handback", "unwrap", "submit",
          "fired", "drain", "release"}

TypeOK ==
    /\ map \in [Slot -> Entry \cup {Empty}]
    /\ pc \in [Threads -> Stage]
    /\ port \in [Threads -> Ports \cup {None}]
    /\ pset \in [Threads -> Psets \cup {None}]
    /\ other \in [Threads -> Psets \cup {None}]
    /\ noDrain \in [Threads -> BOOLEAN]
    /\ alive \subseteq Ports
    /\ psets \subseteq Psets
    /\ member \in [Ports -> Psets \cup {None}]
    /\ queue \in [Ports -> 0..1]
    /\ filter \in [Psets -> {"none", "oneshot", "keep"}]
    /\ reg \in [Ports -> {"no", "yes", "deleted"}]
    /\ told \subseteq Ports

Init ==
    /\ map = [i \in Slot |-> Empty]
    /\ pc = [t \in Threads |-> "idle"]
    /\ port = [t \in Threads |-> None]
    /\ pset = [t \in Threads |-> None]
    /\ other = [t \in Threads |-> None]
    /\ noDrain = [t \in Threads |-> FALSE]
    /\ alive = {}
    /\ psets = {}
    /\ member = [p \in Ports |-> None]
    /\ queue = [p \in Ports |-> 0]
    /\ filter = [s \in Psets |-> "none"]
    /\ reg = [p \in Ports |-> "no"]
    /\ told = {}

-----------------------------------------------------------------------------
(* Helpers *)

Goto(t, stage) == pc' = [pc EXCEPT ![t] = stage]
Used     == {i \in Slot : map[i].port # None}
First(S) == CHOOSE i \in S : \A j \in S : i <= j

\* Mutation of OfPort: the wrong field is compared.
OfPortField(p) == {i \in Used : map[i].pset = p}

\* The slots of a port, and of a portset.
OfPort(p) == {i \in Used : map[i].port = p}
OfPset(s) == {i \in Used : map[i].pset = s}

\* Mutation of Stale: a live port is taken for a member.
StaleDead(i) == map[i].port \notin alive

\* mp_port_dead or not mp_is_member: the mapping can no longer fire.
Stale(i) == map[i].port \notin alive \/ member[map[i].port] # map[i].pset

\* Mutation of DestroyPset: the portset right is not dropped.
DestroyPsetLeak(s, mem) ==
    /\ psets' = psets
    /\ member' = [p \in Ports |-> IF mem[p] = s THEN None ELSE mem[p]]
    /\ filter' = [filter EXCEPT ![s] = "none"]

\* mach_port_mod_refs(pset, -1): members leave it, its filter goes with it.
DestroyPset(s, mem) ==
    /\ psets' = psets \ {s}
    /\ member' = [p \in Ports |-> IF mem[p] = s THEN None ELSE mem[p]]
    /\ filter' = [filter EXCEPT ![s] = "none"]

\* mp_release_locked(i): pull the port out of whatever set it is in now, drop
\* the portset, clear the slot.
Release(i) ==
    /\ DestroyPset(map[i].pset, [member EXCEPT ![map[i].port] = None])
    /\ map' = [map EXCEPT ![i] = Empty]

-----------------------------------------------------------------------------
(* mp_get_or_create_pset and the EV_ADD it serves *)

\* mp_lookup_pset: a valid mapping is the answer; a stale one is released.
Lookup(t, p) ==
    /\ pc[t] = "idle" /\ p \in User[t] \cap alive
    /\ Again \/ reg[p] # "yes"
    /\ port' = [port EXCEPT ![t] = p]
    /\ IF OfPort(p) = {}
       THEN Goto(t, "create") /\ UNCHANGED <<map, pset, psets, member, filter>>
       ELSE LET i == First(OfPort(p)) IN
            IF Stale(i)
            THEN Release(i) /\ Goto(t, "create") /\ UNCHANGED pset
            ELSE /\ pset' = [pset EXCEPT ![t] = map[i].pset]
                 /\ Goto(t, "submit")
                 /\ UNCHANGED <<map, psets, member, filter>>
    /\ UNCHANGED <<other, noDrain, alive, queue, owner>>

\* Allocate a portset and move the port into it, out of any it was in.
Create(t) ==
    /\ pc[t] = "create"
    /\ \E s \in Psets \ psets :
         /\ psets' = psets \cup {s}
         /\ member' = [member EXCEPT ![port[t]] = s]
         /\ pset' = [pset EXCEPT ![t] = s]
    /\ Goto(t, "install")
    /\ UNCHANGED <<map, port, other, noDrain, alive, queue, filter, owner>>

\* mach_port_allocate or the move fails (the kernel is short of memory or of
\* names): the registration goes through unwrapped.
CreateFails(t) ==
    /\ pc[t] = "create" /\ (Scarce \/ psets = Psets)
    /\ Goto(t, "submit")
    /\ UNCHANGED <<map, locals, kernel, owner>>

\* Mutations of Mapping: port and portset change places; no_drain is inverted.
MappingSwapped(t) == [port |-> pset[t], pset |-> port[t], noDrain |-> Kind[port[t]] = "reply"]
MappingDrained(t) == [port |-> port[t], pset |-> pset[t], noDrain |-> Kind[port[t]] = "wakeup"]

Mapping(t) == [port |-> port[t], pset |-> pset[t], noDrain |-> Kind[port[t]] = "reply"]

\* The second look at the table: another thread's mapping of the port is
\* preferred; otherwise a free slot is taken, a stale one reclaimed, or the
\* registration is given up.
Install(t) ==
    /\ pc[t] = "install"
    /\ LET theirs == OfPort(port[t])
           free   == Slot \ Used
           stale  == {i \in Used : Stale(i)}
       IN  CASE theirs # {} ->
                    /\ other' = [other EXCEPT ![t] = map[First(theirs)].pset]
                    /\ Goto(t, "handback")
                    /\ UNCHANGED <<map, psets, member, filter>>
             [] theirs = {} /\ free # {} ->
                    /\ map' = [map EXCEPT ![First(free)] = Mapping(t)]
                    /\ Goto(t, "submit")
                    /\ UNCHANGED <<other, psets, member, filter>>
             [] theirs = {} /\ free = {} /\ stale # {} ->
                    LET i == First(stale) IN
                    /\ DestroyPset(map[i].pset, [member EXCEPT ![map[i].port] = None])
                    /\ map' = [map EXCEPT ![i] = Mapping(t)]
                    /\ Goto(t, "submit")
                    /\ UNCHANGED other
             [] OTHER ->
                    /\ Goto(t, "unwrap")
                    /\ UNCHANGED <<map, other, psets, member, filter>>
    /\ UNCHANGED <<port, pset, noDrain, alive, queue, owner>>

\* Mutation of HandBack: our portset goes with the port still in it.
HandBackNothing(t) ==
    /\ pc[t] = "handback"
    /\ DestroyPset(pset[t], member)
    /\ pset' = [pset EXCEPT ![t] = other[t]]
    /\ other' = [other EXCEPT ![t] = None]
    /\ Goto(t, "submit")
    /\ UNCHANGED <<map, port, noDrain, alive, queue, owner>>

\* Outside the lock: move the port to the other thread's portset, which fails
\* if that is gone, and drop our own.
HandBack(t) ==
    /\ pc[t] = "handback"
    /\ LET moved == IF other[t] \in psets /\ port[t] \in alive
                    THEN [member EXCEPT ![port[t]] = other[t]] ELSE member
       IN  DestroyPset(pset[t], moved)
    /\ pset' = [pset EXCEPT ![t] = other[t]]
    /\ other' = [other EXCEPT ![t] = None]
    /\ Goto(t, "submit")
    /\ UNCHANGED <<map, port, noDrain, alive, queue, owner>>

\* The table is full: undo the wrapping.
Unwrap(t) ==
    /\ pc[t] = "unwrap"
    /\ DestroyPset(pset[t], [member EXCEPT ![port[t]] = None])
    /\ pset' = [pset EXCEPT ![t] = None]
    /\ Goto(t, "submit")
    /\ UNCHANGED <<map, port, other, noDrain, alive, queue, owner>>

\* The kernel takes the EV_ADD: on a live portset it succeeds, on anything
\* else it is answered with EV_ERROR.
Submit(t) ==
    /\ pc[t] = "submit"
    /\ IF pset[t] \in psets
       THEN /\ filter' = [filter EXCEPT ![pset[t]] =
                            IF Kind[port[t]] = "reply" THEN "oneshot" ELSE "keep"]
            /\ reg' = [reg EXCEPT ![port[t]] = "yes"]
       ELSE UNCHANGED <<filter, reg>>
    /\ port' = [port EXCEPT ![t] = None]
    /\ pset' = [pset EXCEPT ![t] = None]
    /\ Goto(t, "idle")
    /\ UNCHANGED <<map, other, noDrain, alive, psets, member, queue, told>>

-----------------------------------------------------------------------------
(* A wait that returns a portset: machport_drain_fired *)

\* The kernel reports a portset one of whose members has a message.
Fire(t, p) ==
    /\ pc[t] = "idle" /\ p \in User[t] \cap alive
    /\ LET s == member[p] IN
         /\ s # None /\ queue[p] = 1 /\ filter[s] # "none"
         /\ pset' = [pset EXCEPT ![t] = s]
         /\ filter' = [filter EXCEPT ![s] = IF @ = "oneshot" THEN "none" ELSE @]
    /\ Goto(t, "fired")
    /\ UNCHANGED <<map, port, other, noDrain, alive, psets, member, queue, owner>>

\* Find the pair of the portset under the lock.
Translate(t) ==
    /\ pc[t] = "fired"
    /\ LET known == OfPset(pset[t])
           e     == IF known = {} THEN Empty ELSE map[First(known)]
       IN  /\ port' = [port EXCEPT ![t] = e.port]
           /\ noDrain' = [noDrain EXCEPT ![t] = e.noDrain]
           /\ Goto(t, IF e.noDrain THEN "release" ELSE "drain")
    /\ UNCHANGED <<map, pset, other, kernel, owner>>

\* The call returns the event to the owner of the port; a one-shot is spent.
Deliver(t) ==
    /\ told' = IF port[t] # None /\ Kind[port[t]] = "reply" THEN told \cup {port[t]} ELSE told
    /\ reg' = IF port[t] # None /\ Kind[port[t]] = "reply"
              THEN [reg EXCEPT ![port[t]] = "no"] ELSE reg
    /\ port' = [port EXCEPT ![t] = None]
    /\ pset' = [pset EXCEPT ![t] = None]
    /\ noDrain' = [noDrain EXCEPT ![t] = FALSE]
    /\ Goto(t, "idle")

\* Mutation of Drain: the message is left, as 10.9 leaves it.
DrainNothing(t) ==
    /\ pc[t] = "drain"
    /\ Deliver(t)
    /\ UNCHANGED <<map, other, alive, psets, member, queue, filter>>

\* mp_drain_any: receive and discard whatever the portset's members hold.
Drain(t) ==
    /\ pc[t] = "drain"
    /\ queue' = [p \in Ports |-> IF member[p] = pset[t] THEN 0 ELSE queue[p]]
    /\ Deliver(t)
    /\ UNCHANGED <<map, other, alive, psets, member, filter>>

\* Mutation of ReleaseFired: the mapping of a spent one-shot stays.
ReleaseNothing(t) ==
    /\ pc[t] = "release"
    /\ Deliver(t)
    /\ UNCHANGED <<map, other, alive, psets, member, queue, filter>>

\* mp_release_by_pset: the message stays on the port, the pair goes.
ReleaseFired(t) ==
    /\ pc[t] = "release"
    /\ IF OfPset(pset[t]) = {} THEN UNCHANGED <<map, psets, member, filter>>
       ELSE Release(First(OfPset(pset[t])))
    /\ Deliver(t)
    /\ UNCHANGED <<other, alive, queue>>

-----------------------------------------------------------------------------
(* The callers (external) *)

\* EV_DELETE: the shim passes the port's own name on, under which the kernel has
\* no filter: it answers ENOENT.  The shim keeps the pair and the portset its
\* filter, against kevent64_shim.c:546-548, "clean up the portset on EV_DELETE".
Delete(t, p) ==
    /\ pc[t] = "idle" /\ p \in User[t] /\ reg[p] = "yes"
    /\ reg' = [reg EXCEPT ![p] = "deleted"]
    /\ UNCHANGED <<map, pc, locals, kernel, told>>

\* A port is created under a free name, or destroyed while its users are
\* outside the shim.
CreatePort(p) ==
    /\ p \notin alive
    /\ alive' = alive \cup {p}
    /\ UNCHANGED <<map, pc, locals, psets, member, queue, filter, owner>>

DestroyPort(p) ==
    /\ p \in alive
    /\ \A t \in Threads : p \in User[t] => pc[t] = "idle"
    /\ alive' = alive \ {p}
    /\ member' = [member EXCEPT ![p] = None]
    /\ queue' = [queue EXCEPT ![p] = 0]
    /\ reg' = [reg EXCEPT ![p] = "no"]
    /\ told' = told \ {p}
    /\ UNCHANGED <<map, pc, locals, psets, filter>>

\* A sender; with a full queue the send times out.
Send(p) ==
    /\ p \in alive /\ queue[p] = 0
    /\ queue' = [queue EXCEPT ![p] = 1]
    /\ UNCHANGED <<map, pc, locals, alive, psets, member, filter, owner>>

\* getaddrinfo_async_handle_reply.
Receive(t, p) ==
    /\ pc[t] = "idle" /\ p \in User[t] \cap told
    /\ told' = told \ {p}
    /\ queue' = [queue EXCEPT ![p] = 0]
    /\ UNCHANGED <<map, pc, locals, alive, psets, member, filter, reg>>

-----------------------------------------------------------------------------
Register(t) == Create(t) \/ CreateFails(t) \/ Install(t) \/ HandBack(t)
               \/ Unwrap(t) \/ Submit(t)
Return(t)   == Translate(t) \/ Drain(t) \/ ReleaseFired(t)

Next ==
    \/ \E t \in Threads : Register(t) \/ Return(t)
    \/ \E t \in Threads, p \in Ports : Lookup(t, p) \/ Fire(t, p) \/ Delete(t, p) \/ Receive(t, p)
    \/ \E p \in Ports : CreatePort(p) \/ DestroyPort(p) \/ Send(p)

\* Threads leave the shim, loops keep coming back to wait, and the kernel, which
\* reports every ready filter there is room for, passes none over for ever.
Spec     == Init /\ [][Next]_vars
FairSpec == Spec /\ \A t \in Threads : /\ WF_vars(Register(t) \/ Return(t))
                                       /\ \A p \in User[t] : SF_vars(Fire(t, p))

-----------------------------------------------------------------------------
(* Properties *)

\* The portset a thread has created and not yet put into the map or dropped.
Mine(t) == IF pc[t] \in {"install", "handback", "unwrap"} THEN {pset[t]} ELSE {}

\* The map pairs each port with one portset of its own, and the portset exists.
MapSound ==
    /\ \A i, j \in Used : map[i].port = map[j].port \/ map[i].pset = map[j].pset => i = j
    /\ \A i \in Used : map[i].pset \in psets

\* No portset is leaked: each one in existence is in the map or in the hands
\* of exactly one thread that is about to install or destroy it.
NoPsetLeak ==
    /\ \A s \in psets : (\E i \in Used : map[i].pset = s) \/ (\E t \in Threads : s \in Mine(t))
    /\ \A t \in Threads : \A s \in Mine(t) :
           /\ \A i \in Used : map[i].pset # s
           /\ \A u \in Threads \ {t} : s \notin Mine(u)

\* "Verifying membership is what makes a cache hit trustworthy": the portset a
\* registration is about to use contains the port, so that it can fire.
Wrapped ==
    \A t \in Threads : pc[t] = "submit" /\ pset[t] # None =>
        pset[t] \in psets /\ member[port[t]] = pset[t]

\* A registration the kernel accepted can fire until it has: between calls its
\* port is in a portset with a filter.  That is so too of one the owner has ended
\* by EV_DELETE: nothing takes the filter, the portset or the pair away, although
\* kevent64_shim.c:546-548 says so.
CanFire ==
    (\A t \in Threads : pc[t] = "idle") =>
        \A p \in Ports : reg[p] # "no" => member[p] # None /\ filter[member[p]] # "none"

\* The shim leaves a reply for getaddrinfo_async_handle_reply: when a caller
\* has been told of a reply, the message is still on the port.
ReplyStillQueued == \A p \in told : queue[p] = 1

\* "Without it every DNS lookup permanently burned a slot": between calls, a
\* mapping that can still fire belongs to a registration that has not fired (one
\* that was deleted keeps its slot, as CanFire says).
NoBurnedSlot ==
    (\A t \in Threads : pc[t] = "idle") =>
        \A i \in Used : ~Stale(i) => reg[map[i].port] # "no"

\* A wakeup sent to a registered loop port is taken off the port, so that the
\* next send is not refused.
WakeupTaken ==
    \A p \in Ports : Kind[p] = "wakeup" =>
        (reg[p] = "yes" /\ queue[p] = 1) ~> (reg[p] # "yes" \/ queue[p] = 0)
=============================================================================
