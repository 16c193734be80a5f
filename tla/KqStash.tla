------------------------------ MODULE KqStash ------------------------------
(***************************************************************************)
(* The event stash of mavericks-legacy-support/src/kevent64_shim.c.        *)
(*                                                                         *)
(* 10.9's kernel does not know KEVENT_FLAG_ERROR_EVENTS: a call that only  *)
(* wants to register filters is handed ready events as well, and a         *)
(* one-shot filter is consumed by that.  kevent64_wrapper hides those      *)
(* events from the caller, keeps them in a table of per-kqueue slots and   *)
(* delivers them on a later wait on the same kqueue.                       *)
(*                                                                         *)
(* A thread runs through the stages of kevent64_wrapper; every access to   *)
(* the table is a critical section of g_kq_mu.  The kernel's kqueues and   *)
(* the owners of the registered objects are external.                      *)
(***************************************************************************)
EXTENDS Integers, Sequences, FiniteSets

CONSTANTS
    Threads,        \* threads that call kevent64
    Kqs,            \* kqueue descriptors
    Fds,            \* idents that are file descriptors
    Timers,         \* idents that are timers
    FdFilters,      \* filters registered on a descriptor
    Modes,          \* registration modes in use
    Loop,           \* the kqueue each thread works on
    Home,           \* the kqueue each ident is registered on
    Calls,          \* the kevent64 calls threads make
    TableSize,      \* KQ_TABLE_SIZE
    MaxPending,     \* MAX_PENDING_PER_KQ
    MaxGen,         \* bound: objects that may live under one ident
    EarlyReuse,     \* TRUE: an ident is reused while it has a stashed event
    NoKq, Nobody

Idents == Fds \cup Timers
Key    == (Fds \X FdFilters) \cup (Timers \X {"timer"})
Slot   == 1..TableSize

\* A struct kevent64_s: the filter that fired and the owner it points to.
Event  == [key : Key, udata : 1..MaxGen]

\* A call: its one change ("wait": no change), whether FLAG_ERROR_EVENTS is
\* set, and the capacity of the caller's event list.
Call   == [op : {"add", "delete", "disable"}, key : Key, mode : Modes,
           errorsOnly : BOOLEAN, n : Nat]
          \cup [op : {"wait"}, errorsOnly : {FALSE}, n : Nat \ {0}]

\* The arguments of a thread that is outside kevent64.
NoCall == [op |-> "wait", errorsOnly |-> FALSE, n |-> 1]

ASSUME StashConstants ==
    /\ TableSize \in Nat \ {0}
    /\ MaxPending \in Nat \ {0}
    /\ MaxGen \in Nat \ {0}
    /\ EarlyReuse \in BOOLEAN
    /\ Modes \subseteq {"oneshot", "dispatch", "level"}
    /\ Loop \in [Threads -> Kqs]
    /\ Home \in [Idents -> Kqs]
    /\ Calls \subseteq Call
    /\ NoKq \notin Kqs
    /\ Nobody \notin Threads

VARIABLES
    slotKq,     \* g_kq_pending[i].kq
    pend,       \* g_kq_pending[i].ev[0 .. count-1]
    any,        \* g_kq_stash_any
    mu,         \* holder of g_kq_mu across several steps, or Nobody
    pc,         \* stage of each thread in kevent64_wrapper
    call,       \* arguments of each thread's call
    ok,         \* FALSE: the kernel answered the change with EV_ERROR
    slot,       \* kq_stash's local `slot`; 0 is "none"
    kept,       \* events kq_drain copied out (the n_kept ones)
    fresh,      \* events real_kevent64 returned to this call
    knote,      \* external: the kernel's filter for each key
    live, gen,  \* external: idents in use, and how often each was created
    armed       \* external: keys whose owner has not deleted them

table  == <<slotKq, pend, any>>
local  == <<call, ok, slot, kept, fresh>>
outer  == <<knote, live, gen, armed>>
vars   == <<table, mu, pc, local, outer>>

NoNote == [mode |-> "none", on |-> FALSE, act |-> FALSE, udata |-> 0]
Note   == [mode : Modes \cup {"none"}, on : BOOLEAN, act : BOOLEAN, udata : 0..MaxGen]

Stage  == {"idle", "check", "invalidate", "submit", "register", "stash", "stashing",
           "drain", "wait", "merge", "return"}

TypeOK ==
    /\ slotKq \in [Slot -> Kqs \cup {NoKq}]
    /\ pend \in [Slot -> Seq(Event)]
    /\ any \in BOOLEAN
    /\ mu \in Threads \cup {Nobody}
    /\ pc \in [Threads -> Stage]
    /\ call \in [Threads -> Call]
    /\ ok \in [Threads -> BOOLEAN]
    /\ slot \in [Threads -> Slot \cup {0}]
    /\ kept \in [Threads -> SUBSET Event]
    /\ fresh \in [Threads -> SUBSET Event]
    /\ knote \in [Key -> Note]
    /\ live \subseteq Idents
    /\ gen \in [Idents -> 0..MaxGen]
    /\ armed \subseteq Key

Init ==
    /\ slotKq = [i \in Slot |-> NoKq]
    /\ pend = [i \in Slot |-> <<>>]
    /\ any = FALSE
    /\ mu = Nobody
    /\ pc = [t \in Threads |-> "idle"]
    /\ call = [t \in Threads |-> NoCall]
    /\ ok = [t \in Threads |-> TRUE]
    /\ slot = [t \in Threads |-> 0]
    /\ kept = [t \in Threads |-> {}]
    /\ fresh = [t \in Threads |-> {}]
    /\ knote = [k \in Key |-> NoNote]
    /\ live = {}
    /\ gen = [i \in Idents |-> 0]
    /\ armed = {}

-----------------------------------------------------------------------------
(* Reading the table *)

Lesser(m, n) == IF m < n THEN m ELSE n

KeysOf(S) == {e.key : e \in S}

\* The events a slot holds, and the keys stashed anywhere.
Held(i) == {pend[i][j] : j \in DOMAIN pend[i]}
Stashed == KeysOf(UNION {Held(i) : i \in Slot})

\* kq_stash's first loop: the slot of kq, else the first unused one, else none.
SlotFor(kq) ==
    LET mine == {i \in Slot : slotKq[i] = kq}
        free == {i \in Slot : slotKq[i] = NoKq}
        First(S) == CHOOSE i \in S : \A j \in S : i <= j
    IN  IF mine # {} THEN First(mine) ELSE IF free # {} THEN First(free) ELSE 0

Put(evs, i, e) == [evs EXCEPT ![i] = e]

\* Mutations of Stash: no coalescing; the last place of a slot is not used.
StashAgain(evs, e) == IF Len(evs) < MaxPending THEN Append(evs, e) ELSE evs
StashShort(evs, e) ==
    IF \E j \in DOMAIN evs : evs[j].key = e.key
    THEN Put(evs, CHOOSE j \in DOMAIN evs : evs[j].key = e.key, e)
    ELSE IF Len(evs) < MaxPending - 1 THEN Append(evs, e) ELSE evs

\* kq_stash's inner loop for one event: overwrite the entry with the same
\* (ident, filter), append while there is room, else drop the event.
Stash(evs, e) ==
    IF \E j \in DOMAIN evs : evs[j].key = e.key
    THEN Put(evs, CHOOSE j \in DOMAIN evs : evs[j].key = e.key, e)
    ELSE IF Len(evs) < MaxPending THEN Append(evs, e) ELSE evs

\* Mutations of Without: the entry stays; the entry stays with its owner zeroed.
WithoutNothing(evs, k) == evs
WithoutOwner(evs, k) ==
    [j \in DOMAIN evs |-> IF evs[j].key = k THEN [evs[j] EXCEPT !.udata = 0] ELSE evs[j]]

\* kq_invalidate_filter's compaction.  Stash keeps at most one entry per key.
Without(evs, k) ==
    IF \E j \in DOMAIN evs : evs[j].key = k
    THEN LET gone == CHOOSE j \in DOMAIN evs : evs[j].key = k
         IN  [j \in 1..Len(evs) - 1 |-> IF j < gone THEN evs[j] ELSE evs[j + 1]]
    ELSE evs

\* kq_drain's fcntl(F_GETFD) test; only descriptor filters have one.
Deliverable(e) == e.key[1] \in Fds => e.key[1] \in live

-----------------------------------------------------------------------------
(* The kernel's side of real_kevent64 (external) *)

\* The change is answered with EV_ERROR (EBADF, ENOENT).
Fails(c) ==
    \/ c.op = "add" /\ c.key[1] \notin live
    \/ c.op \in {"delete", "disable"} /\ knote[c.key].mode = "none"

\* The filters after the change; a new filter may be ready by the next scan.
Changed(c) ==
    IF Fails(c) THEN knote ELSE
    CASE c.op = "add"     -> [knote EXCEPT ![c.key] = [mode |-> c.mode, on |-> TRUE,
                                  act |-> FALSE, udata |-> gen[c.key[1]]]]
      [] c.op = "delete"  -> [knote EXCEPT ![c.key] = NoNote]
      [] c.op = "disable" -> [knote EXCEPT ![c.key].on = FALSE]

Ready(kq) == {k \in Key : Home[k[1]] = kq /\ knote[k].on /\ knote[k].act}

\* What returning a filter does to it: a one-shot is removed, a dispatch
\* filter is disabled, a level one fires again if it is still ready.
Fired(note, still) ==
    CASE note.mode = "oneshot"  -> NoNote
      [] note.mode = "dispatch" -> [note EXCEPT !.on = FALSE, !.act = FALSE]
      [] OTHER                  -> [note EXCEPT !.act = still]

\* kqueue_scan: return as many ready filters as there is room for.
Scan(t, room) ==
    \E S \in SUBSET Ready(Loop[t]), still \in BOOLEAN :
        /\ Cardinality(S) = Lesser(room, Cardinality(Ready(Loop[t])))
        /\ knote' = [k \in Key |-> IF k \in S THEN Fired(knote[k], still) ELSE knote[k]]
        /\ fresh' = [fresh EXCEPT ![t] = {[key |-> k, udata |-> knote[k].udata] : k \in S}]

\* The places left in the event list by the kept events; after an EV_ERROR the
\* kernel does not scan.
Room(t) == IF ok[t] THEN call[t].n - Cardinality(kept[t]) ELSE 0

-----------------------------------------------------------------------------
(* kevent64_wrapper *)

Goto(t, stage) == pc' = [pc EXCEPT ![t] = stage]

\* Mutation of Dispatch: a wait does not look into the stash.
DispatchPast(c) == IF c.op = "wait" THEN "wait" ELSE "submit"

\* Where a call goes once its deletions have been taken out of the stash.
Dispatch(c) == IF c.op = "wait" THEN "drain" ELSE "submit"

\* A thread calls kevent64.  An object is registered by its live owner.
Invoke(t) ==
    /\ pc[t] = "idle"
    /\ \E c \in Calls :
         /\ c.op # "wait" => Home[c.key[1]] = Loop[t]
         /\ c.op = "add" => c.key[1] \in live
         /\ call' = [call EXCEPT ![t] = c]
         /\ Goto(t, IF c.op \in {"delete", "disable"} THEN "check" ELSE Dispatch(c))
    /\ UNCHANGED <<table, mu, ok, slot, kept, fresh, outer>>

\* kq_invalidate_filter, fast path: g_kq_stash_any is read without the lock.
CheckFlag(t) ==
    /\ pc[t] = "check"
    /\ Goto(t, IF any THEN "invalidate" ELSE Dispatch(call[t]))
    /\ UNCHANGED <<table, mu, local, outer>>

\* kq_invalidate_filter, locked part.
Invalidate(t) ==
    /\ pc[t] = "invalidate" /\ mu = Nobody
    /\ pend' = [i \in Slot |-> IF slotKq[i] = Loop[t] THEN Without(pend[i], call[t].key)
                               ELSE pend[i]]
    /\ Goto(t, Dispatch(call[t]))
    /\ UNCHANGED <<slotKq, any, mu, local, outer>>

\* real_kevent64 takes the change, of either kind of call.
Submit(t) ==
    /\ pc[t] = "submit"
    /\ knote' = Changed(call[t])
    /\ ok' = [ok EXCEPT ![t] = ~Fails(call[t])]
    /\ Goto(t, IF call[t].errorsOnly THEN "register" ELSE "wait")
    /\ UNCHANGED <<table, mu, call, slot, kept, fresh, live, gen, armed>>

\* Case 1: the timeout is zero, and what came back is to be stashed.
Register(t) ==
    /\ pc[t] = "register"
    /\ Scan(t, Room(t))
    /\ Goto(t, IF fresh'[t] = {} THEN "return" ELSE "stash")
    /\ UNCHANGED <<table, mu, call, ok, slot, kept, live, gen, armed>>

\* The loop that fills to_stash (at most MAX_PENDING_PER_KQ events), and
\* kq_stash up to the choice of a slot.  Without a slot the events are dropped.
StashBegin(t) ==
    /\ pc[t] = "stash" /\ mu = Nobody
    /\ LET i == SlotFor(Loop[t]) IN
         IF i = 0
         THEN /\ fresh' = [fresh EXCEPT ![t] = {}]
              /\ Goto(t, "return")
              /\ UNCHANGED <<slotKq, mu, slot>>
         ELSE /\ \E S \in SUBSET fresh[t] :
                   /\ Cardinality(S) = Lesser(MaxPending, Cardinality(fresh[t]))
                   /\ fresh' = [fresh EXCEPT ![t] = S]
              /\ slotKq' = [slotKq EXCEPT ![i] = Loop[t]]
              /\ slot' = [slot EXCEPT ![t] = i]
              /\ mu' = t
              /\ Goto(t, "stashing")
    /\ UNCHANGED <<pend, any, call, ok, kept, outer>>

\* One iteration of kq_stash's event loop, under the lock.
StashOne(t) ==
    /\ pc[t] = "stashing"
    /\ \E e \in fresh[t] :
         /\ pend' = [pend EXCEPT ![slot[t]] = Stash(@, e)]
         /\ fresh' = [fresh EXCEPT ![t] = @ \ {e}]
    /\ UNCHANGED <<slotKq, any, mu, pc, call, ok, slot, kept, outer>>

\* kq_stash raises the flag and unlocks.
StashEnd(t) ==
    /\ pc[t] = "stashing" /\ fresh[t] = {}
    /\ any' = TRUE
    /\ mu' = Nobody
    /\ slot' = [slot EXCEPT ![t] = 0]
    /\ Goto(t, "return")
    /\ UNCHANGED <<slotKq, pend, call, ok, kept, fresh, outer>>

\* Mutation of Drain: what was copied out is not taken off the slot.
DrainKeeping(t) ==
    /\ pc[t] = "drain" /\ mu = Nobody
    /\ kept' = [kept EXCEPT ![t] = {e \in UNION {Held(i) : i \in {j \in Slot : slotKq[j] = Loop[t]}} :
                                       Deliverable(e)}]
    /\ Goto(t, "wait")
    /\ UNCHANGED <<table, mu, call, ok, slot, fresh, outer>>

\* kq_drain: copy out the first n stashed events, dropping those whose
\* descriptor is closed, and lower the flag when nothing is left.
Drain(t) ==
    /\ pc[t] = "drain" /\ mu = Nobody
    /\ LET full == {i \in Slot : slotKq[i] = Loop[t] /\ pend[i] # <<>>} IN
         IF full = {}
         THEN kept' = [kept EXCEPT ![t] = {}] /\ UNCHANGED pend
         ELSE LET i    == CHOOSE j \in full : \A h \in full : j <= h
                  take == Lesser(Len(pend[i]), call[t].n)
              IN  /\ kept' = [kept EXCEPT ![t] =
                                {e \in {pend[i][j] : j \in 1..take} : Deliverable(e)}]
                  /\ pend' = [pend EXCEPT ![i] = SubSeq(@, take + 1, Len(@))]
    /\ any' = (any /\ \E i \in Slot : pend'[i] # <<>>)
    /\ Goto(t, "wait")
    /\ UNCHANGED <<slotKq, mu, call, ok, slot, fresh, outer>>

\* Case 2: with a stashed event in hand, no room or a failed change, the
\* kernel does not block; otherwise it returns once a filter is ready.
Wait(t) ==
    /\ pc[t] = "wait"
    /\ Scan(t, Room(t))
    /\ kept[t] # {} \/ fresh'[t] # {} \/ call[t].n = 0 \/ ~ok[t]
    /\ Goto(t, IF kept[t] # {} /\ fresh'[t] # {} THEN "merge" ELSE "return")
    /\ UNCHANGED <<table, mu, call, ok, slot, kept, live, gen, armed>>

\* The wait ends without kernel events: timeout, or rc2 < 0, where the stashed
\* events, if any, are the answer.
WaitFails(t) ==
    /\ pc[t] = "wait"
    /\ Goto(t, "return")
    /\ UNCHANGED <<table, mu, local, outer>>

\* Mutation of Merge: the kernel's events are handed over as they are.
MergeAll(t) ==
    /\ pc[t] = "merge"
    /\ Goto(t, "return")
    /\ UNCHANGED <<table, mu, local, outer>>

\* A kernel event that repeats a stashed one is compacted out.
Merge(t) ==
    /\ pc[t] = "merge"
    /\ fresh' = [fresh EXCEPT ![t] = {e \in @ : e.key \notin KeysOf(kept[t])}]
    /\ Goto(t, "return")
    /\ UNCHANGED <<table, mu, call, ok, slot, kept, outer>>

\* What a call hands to its caller when it returns.
Result(t) == kept[t] \cup fresh[t]

Return(t) ==
    /\ pc[t] = "return"
    /\ LET c == call[t] IN
         armed' = CASE c.op = "add" /\ ok[t] -> armed \cup {c.key}
                    [] c.op = "delete"       -> armed \ {c.key}
                    [] OTHER                 -> armed
    /\ kept' = [kept EXCEPT ![t] = {}]
    /\ fresh' = [fresh EXCEPT ![t] = {}]
    /\ call' = [call EXCEPT ![t] = NoCall]
    /\ ok' = [ok EXCEPT ![t] = TRUE]
    /\ Goto(t, "idle")
    /\ UNCHANGED <<table, mu, slot, knote, live, gen>>

-----------------------------------------------------------------------------
(* The objects behind the filters (external) *)

\* socket() or a new timer: a new object under a free ident.
Open(i) ==
    /\ i \notin live /\ gen[i] < MaxGen
    /\ EarlyReuse \/ \A k \in Stashed : k[1] # i
    /\ live' = live \cup {i}
    /\ gen' = [gen EXCEPT ![i] = @ + 1]
    /\ UNCHANGED <<table, mu, pc, local, knote, armed>>

\* A filter becomes ready.
Activate(k) ==
    /\ knote[k].on /\ ~knote[k].act
    /\ knote' = [knote EXCEPT ![k].act = TRUE]
    /\ UNCHANGED <<table, mu, pc, local, live, gen, armed>>

\* The owner is freed by a thread of its loop between calls.  A socket is
\* closed, which removes its filters; a timer is deleted first.
Retire(t, i) ==
    /\ pc[t] = "idle" /\ Home[i] = Loop[t] /\ i \in live
    /\ i \in Timers => <<i, "timer">> \notin armed
    /\ live' = live \ {i}
    /\ knote' = [k \in Key |-> IF k[1] = i /\ i \in Fds THEN NoNote ELSE knote[k]]
    /\ armed' = {k \in armed : k[1] # i}
    /\ UNCHANGED <<table, mu, pc, local, gen>>

-----------------------------------------------------------------------------
Kevent(t) ==
    \/ CheckFlag(t) \/ Invalidate(t) \/ Submit(t)
    \/ Register(t) \/ StashBegin(t) \/ StashOne(t) \/ StashEnd(t)
    \/ Drain(t) \/ Wait(t) \/ Merge(t) \/ Return(t)

Next ==
    \/ \E t \in Threads : Invoke(t) \/ Kevent(t) \/ WaitFails(t)
    \/ \E t \in Threads, i \in Idents : Retire(t, i)
    \/ \E i \in Idents : Open(i)
    \/ \E k \in Key : Activate(k)

\* A thread inside kevent64 gets on with it, the mutex starves nobody, and an
\* event loop keeps coming back to wait.  Nothing obliges a filter to become
\* ready.
TakeLock(t)   == Invalidate(t) \/ StashBegin(t) \/ Drain(t)
InvokeWait(t) == Invoke(t) /\ call'[t].op = "wait"

Spec     == Init /\ [][Next]_vars
FairSpec == Spec /\ \A t \in Threads : /\ WF_vars(Kevent(t)) /\ SF_vars(TakeLock(t))
                                       /\ SF_vars(InvokeWait(t))
-----------------------------------------------------------------------------
(* Properties *)

\* The table is sound whenever no thread is inside kq_stash: one slot per
\* kqueue, one entry per filter in a slot (what coalescing is for), no slot
\* over capacity, only the kqueue's own filters in its slot, and the flag that
\* lets kq_invalidate_filter skip the lock is up while anything is stashed.
OneSlotPerKq   == \A i, j \in Slot : slotKq[i] = slotKq[j] /\ slotKq[i] # NoKq => i = j
OneEntryPerKey == \A i \in Slot : \A m, n \in DOMAIN pend[i] :
                      pend[i][m].key = pend[i][n].key => m = n
WithinCapacity == \A i \in Slot : Len(pend[i]) <= MaxPending
OwnFilters     == \A i \in Slot : \A j \in DOMAIN pend[i] : Home[pend[i][j].key[1]] = slotKq[i]
FlagRaised     == mu = Nobody /\ (\E i \in Slot : pend[i] # <<>>) => any

StashSound == /\ OneSlotPerKq /\ OneEntryPerKey /\ WithinCapacity
              /\ OwnFilters /\ FlagRaised

\* The shim holds an event from the moment the kernel gives it up until the
\* caller gets it.
InFlight == Stashed \cup KeysOf(UNION {kept[t] \cup fresh[t] : t \in Threads})

\* "What we MUST NOT do is drop EV_ONESHOT or EV_DISPATCH events, because
\* those never re-fire": an event the shim holds goes away only by being
\* returned to a caller, by a delete or disable of its filter, or because its
\* descriptor is closed.
FireSurvives(k) ==
    \/ k \in InFlight'
    \/ \E t \in Threads : \/ pc[t] = "return" /\ k \in KeysOf(Result(t))
                          \/ pc[t] = "invalidate" /\ call[t].key = k
                          \/ pc[t] = "drain" /\ k[1] \in Fds \ live
FiresSurvive == [][\A k \in InFlight : FireSurvives(k)]_vars

\* One return of kevent64 never reports the same filter twice, although a
\* stashed level-triggered event and a fresh kernel event may coincide.
OneReportPerFilter ==
    \A t \in Threads : pc[t] = "return" => KeysOf(kept[t]) \cap KeysOf(fresh[t]) = {}

\* No call returns an event whose owner has been freed: the invalidation on
\* EV_DELETE and the closed-descriptor test of kq_drain are there for this.
NoDanglingUdata ==
    \A t \in Threads : pc[t] = "return" =>
        \A e \in Result(t) : e.key[1] \in live /\ e.udata = gen[e.key[1]]

\* "Delivered on the next normal wait on that kqueue": a thread does not
\* block in the kernel while its kqueue's slot holds a deliverable event.
NoParkOverStash ==
    \A t \in Threads :
        pc[t] = "wait" /\ call[t].op = "wait" /\ kept[t] = {} =>
            \A i \in Slot : slotKq[i] = Loop[t] => \A e \in Held(i) : ~Deliverable(e)

\* A stashed event does not stay in the stash for ever.
StashDelivered == \A k \in Key : k \in Stashed ~> k \notin Stashed
=============================================================================
