# Verification of Mavericks-Porting-Resources

TLA+ models of the parts of this repository that keep state, run concurrently
or must survive failures. TLC checks them on small instances; TLAPS proves the
main safety properties for every instance.

## 1. The system

The repository makes programs built for newer macOS versions run on OS X 10.9.

| part | where | state it keeps | what is hard |
|---|---|---|---|
| kevent64 shim: event stash | `mavericks-legacy-support/src/kevent64_shim.c` | `g_kq_pending` (slots per kqueue), `g_kq_stash_any`, `g_kq_mu` | events that exist only in the shim, stale `udata`, several threads |
| kevent64 shim: Mach ports | same file | `g_mp_map`, `g_mp_mu`, portsets | kernel calls between two critical sections, recycled names |
| futex emulation | `mavericks-legacy-support/src/ulock.c` | one mutex, one condition variable | missed and spurious wake-ups, timeouts |
| AVX emulator: signals | `avxemu/src/handler.c` | the program's saved handlers, two ownership flags | order of installation, handlers the program installs later |
| AVX emulator: hot sites | `handler.c`, `reloc.c`, `patch_mem.c` | table of 4096 hot sites, relocated code | counters in signal handlers, patching of running code |
| AVX emulator: trampolines | `tramp.c`, `tramp.s`, `lde.c` | pools, steals | which bytes may be moved |
| AVX emulator: instructions | `decode.c`, `exec*.c`, `softfma.c` | none | bit-level semantics |
| weak references | `weak_custom_rr.c` | side table of weak slots, a sentinel per object | a load against the last release, first references formed at once |
| Mach-O editing | `change_dylib.c`, `macho_grow.h`, `patch_macho.c`, `fix_macho.c`, `add_version_min.c`, `rename_segment.c`, `retag_swift_classes.c` | a file | room for larger load commands, numbers that follow a shift in many encodings, tools run in any order |
| dlopen interposition | `dlopen_interpose.c`, `init_offsets.c` | a temporary copy of the library | the same room |
| streams | `fmemopen.c`, `memstream.c` | position, length, buffer | boundary arithmetic |
| `*at` calls, directories | `atcalls.c`, `atcalls.h`, `pthread_chdir.c`, `fdopendir.c`, `posix_spawn_chdir.c` | the thread's directory, the process's, a table of spawn actions | restoring them on every path, other threads meanwhile |
| vectored and batched I/O | `preadv_pwritev_nocancel.c`, `msg_x.c`, `write_underline.c`, `getentropy.c` | how far a call has got | short counts and errors in the middle |
| clocks | `time.c` | the scale of mach time, the offset of continuous time | products wider than a word, clocks read one after another |
| framework wrappers | `framework-stubs/*.m` | associated objects: backlinks of delegates, callbacks made, constraints built, frames set | callbacks that call back, objects on their way out, state that goes stale |
| dispatch additions, other polyfills, Swift stubs, build tools, diagnostics | see `PROJECT.json` | none or nearly none | - |

They interact little: each polyfill is called by the program and calls the old
libSystem. Inside `kevent64_wrapper` the stash and the port map are used one
after the other; in the emulator the signal handler, the hot-site table and the
relocator share the code they patch; the Mach-O tools work on one file after one
another, and what they leave is what `dlopen` rewrites and dyld loads.

What makes each part correct:

- *stash*: an event the kernel has given up reaches its owner exactly once, and
  never an owner that has been freed; a loop does not sleep over a stashed event;
- *port map*: an accepted registration can fire; portsets are not leaked and
  slots are given back; wakeups are drained and replies are not;
- *futex*: nobody sleeps through a change; timed waits end; 0 means "changed";
- *emulator signals*: the program sees the handlers it installed, and the
  emulator's own stay in place;
- *hot sites and trampolines*: however a function has been patched, it runs the
  instructions it would run on a newer CPU, each once, and no path enters the
  middle of a jump;
- *weak references*: a variable names a live object or nothing; objc's table and
  the side table never hold one variable both;
- *Mach-O editing*: the commands stay within their room, and the program loaded
  from the file is the one the orders ask for;
- *streams*: what a file would have given;
- *`*at` calls, spawns*: each path is followed from where its caller meant, and
  directories and ids come back, on error paths too;
- *vectored I/O*: what was moved is a prefix of what was asked, and the caller
  hears how long it is;
- *clocks*: exact scaling, one time in all its forms, never back;
- *frameworks*: a delegate on its way out is not messaged; controllers hear of
  their views in order; layouts keep what the program asked for.

## 2. Modules

| module | models |
|---|---|
| `KqStash` | `kevent64_wrapper`, `kq_stash`, `kq_drain`, `kq_invalidate_filter` |
| `MachPortMap` | `mp_*` and `machport_drain_fired`, with the EV_ADD/EV_DELETE branch of `kevent64_wrapper` |
| `Futex` | abstract: compare-and-wait as the newer kernel promises it |
| `Ulock` | `__ulock_wait2`, `__ulock_wake`; implements `Futex` |
| `Signals` | abstract: dispositions and faults of a program without the emulator |
| `SigOwner` | `avxemu_install`, `avxemu_sigaction`, `avxemu_signal`, `on_sigill`, `chain`, `on_crash`, `try_fixup_overread`; implements `Signals` |
| `X86Program` | functions of the emulated program, as the scanners see them |
| `Native` | abstract: such a function on a CPU that has every instruction |
| `CodePatch` | `scan_function`, `emit_run`, `avxemu_pool_alloc`, `avxemu_patch_safe`, `avxemu_relocate_block`, `hot_bump` and the part of `on_sigill` that uses them; implements `Native` |
| `WeakSlots` | every entry point of `weak_custom_rr.c`, with objc's calls |
| `MachO` | an image as far as the tools and dyld look at it, and the program dyld makes of it |
| `ChangeDylib`, `MachOGrow` | `change_dylib.c` with `macho_grow.h` |
| `PatchMacho` | `patch_macho.c`: chained fixups become opcodes |
| `MachOTools` | `fix_macho.c`, `rename_segment.c`, `add_version_min.c`, `retag_swift_classes.c`, the rewriting of `dlopen_interpose.c` |
| `MachOPipeline` | the tools on one file in any order, then `dlopen`; implements `LinkedImage` |
| `LinkedImage` | abstract: the loaded program, and what each order means for it |
| `WorkDirs` | `*at` calls, `pthread_chdir_np`, `fdopendir`, `posix_spawn` with a change of directory |
| `ByteFile` | abstract: a file as read, written and sought |
| `FMemOpen`, `OpenMemStream` | the callbacks of the two streams over memory; implement `ByteFile` |
| `Transfer` | abstract: a call that moves many pieces |
| `VectorIO` | `preadv`, `pwritev`, `recvmsg_x`, `sendmsg_x`, `write`, `getentropy`; implements `Transfer` |
| `ClockArith`, `SleepOffset` | the arithmetic of `time.c`; its continuous time |
| `LayerDelegates` | `setDelegate:`, the backlinks, `removeFromSuperlayer`, `setSublayers:` |
| `ViewControllers` | `viewDidLoad`, appearance callbacks, children, transitions |
| `StackViews` | arranged subviews and their distribution |
| `ManualFrames` | frames set by hand and restored after a layout |
| `MC*` | instances for TLC; `MCLibc` and `MCFrameworks` hold several parts that share nothing, one at a time |
| `KqStashProofs`, `MachPortMapProofs`, `UlockProofs`, `SigOwnerProofs`, `CodePatchProofs` | theorems about the module in the name |
| `LibcProofs` | theorems about `WorkDirs`, and about `MCLibc`: the clocks |
| `FrameworksProofs` | theorems about `WeakSlots`, and about `MCFrameworks`: layers' delegates, view controllers, stack views, frames |
| `MachOProofs` | theorems about `MachOPipeline` and what it is built from |

### KqStash

A thread is in one stage of `kevent64_wrapper` (`pc`). Each use of the table
under `g_kq_mu` is one step, except `kq_stash`, whose loop is modelled entry by
entry with the lock held (`mu`), because `kq_invalidate_filter` reads
`g_kq_stash_any` *without* the lock (`CheckFlag`) and can do so in the middle of it.

    Invoke -> CheckFlag -> Invalidate -> Submit -> Register -> StashBegin, StashOne*, StashEnd -> Return
                                      \-> Drain -> Wait -> Merge -> Return

An event is a filter and the generation of the object its `udata` points to.
Data, flags and the event list's layout are left out. The kernel is external: a
filter (`knote`) is enabled or not, ready or not; a scan returns as many ready
filters as there is room for and does to each what its mode says. External are
also the owners: sockets and timers come and go; a timer is deleted before its
owner is freed, a socket is simply closed - the assumption the comment at the
end of `kevent64_shim.c` makes. A failed change ends a call with EV_ERROR.

### MachPortMap

One step per critical section of `g_mp_mu` and one per stretch of kernel calls
between them: `Lookup`, `Create`, `Install`, `HandBack`, `Unwrap`, `Submit` for
a registration; `Fire`, `Translate`, then `Drain` or `ReleaseFired` for a wait.
A port is used as a loop's *wakeup* port (the caller expects the kernel to have
taken the message) or for a *reply* (the caller receives it). Port names are
recycled: `DestroyPort` and `CreatePort` may reuse a name that is still mapped.

### Ulock and Futex

`Ulock` has one step per lock operation and per look at the word; the word is
changed without the lock. `Futex` keeps the word, the arguments of each wait, the
waits whose deadline has passed (`due`) and what each thread's last wait answered,
and has two ways out: 0, at a moment when the word differs, and ETIMEDOUT, after the
wait's own deadline. The mapping is the identity on all four, so that a wait that
answers 0 over an unchanged word, or times out early, is seen. The deadline is worked
out after the fast path and may pass at any moment from then on.

### SigOwner and Signals

`SigOwner` keeps the kernel's dispositions (`kernel`) beside `g_old*`
(`saved`) and the two ownership flags. The constructor is five steps (`stage`),
each one call or assignment; the program runs when it is done. A thread in one
of the emulator's handlers is in one of their stages: `emulate -> chain` for
SIGILL, `gap -> before -> map` or `chain` for a crash signal, `chain -> target` where
the saved flags and then the saved handler are read, and `default -> raise` where the
program has no handler. A disposition is a handler and a flag, copied and read without
a lock: an intercepted `sigaction` is `Report` (`*old = g_old`), then `Store` of the
handler and `Store` of the flag, with other threads' steps in between (`call`). What an
instruction is (emulated or not) and whether an access looks like an over-read are
choices. Pages are gaps, guard pages, data or the zero pages the repair maps.

`Signals` keeps one disposition per signal, what `sigaction()` reported, which
handler each thread runs and how it was called. It is mapped to: the saved
disposition of a signal the emulator has taken (`Shadowed`), the kernel's of
another; one that is being stored counts as stored from the moment the old one was
reported (`Shown`). `Uses` says what else the program does: it asks for a disposition
without setting one, calls `signal()` for a crash signal, maps memory while
another thread is in the crash handler, or sets a disposition while another thread
sets it or is about to call it.

### CodePatch and Native

A function (`prog`) maps offsets to instructions, of which length, kind and
branch targets are kept: whether they fault, whether `safe_copyable` lets them
be moved, and what `collect_branch_targets` sees of them. The scanner walks over
it (`cursor`): `ScanOver` for an instruction that does not fault, `Trampoline`
and `LeaveRun` for a run of faulting ones. Then the program runs: `Native` and
`Emulate` one instruction, `Relocate` and `Decline` the handler at the fault
that meets the threshold, `Enter` the jump to a thunk or a relocated block,
`InBlock` and `TrapInBlock` one instruction in it. What has been overwritten is
`resume`: for each site the offset its block jumps back to; the bytes of the
jump are those less than five above the site.

Left out: the bytes themselves, so that the scan of `avxemu_patch_safe` sees all
branches, although behind an earlier jump it really decodes what that has left
over; functions that do not decode linearly; how jump tables are matched (a jump
is resolved or not); whether a block is a lowering or a stub (both stand for the
same instructions); which slot of the table of counts an address hashes to
(`HotSlots` and `Probes` say when it may find none). A call leaves the function
only in `ret`, after which it is called again. `beat` turns over with each
instruction, in both modules, so that running one twice or not at all shows.

### WeakSlots

A thread's call on a weak variable (`Slots`) goes through the stages of
`weak_custom_rr.c`: the lookup of objc's functions (`Bind`), then for a store
`Look`, `Undo` in the other registry, `Attach` and `Associate` of the sentinel,
`RememberOurs`, `Write`, or `Drop`, `Clear`, `RealStore`, `Record` for an object of
objc's; `Read`, `Retain` and `RealLoad` for a load; `End`, `Unregister`, `Blank`
for the end of a variable. A step is what `mpls_weak_lock` covers, or one store or
call without it. `reg` is the side table, `given` objc's own. An object is *live*,
*dying* while its associations go (`Zero`) and *freed*.

### The Mach-O tools

`MachO` keeps of an image the load commands with their sizes, the first section's
offset, the addresses and offsets that move when the header grows, and those that
count from the header and are not moved (`relative`: `__unwind_info`, the entries of
LC_DATA_IN_CODE), the fixups as chains or as opcodes, ordinals with the width of
their encoding, and the symbols' libraries. A word of a chain is its bits in groups:
the import and the addend of a bind, or an address's low bits, bits 36 to 42 and top
byte; `PatchMacho` takes them apart where the tool does (`Plain`, `BindOf`, and
`ImportEntry` for a table of imports with addends). From that it derives what dyld
makes of it: the library of each pointer and symbol, addresses, constructors,
exports. A command's name is one of `Names`, or `"none"`; what a tool keeps of a
list is `Picked` from it. `ChangeDylib` follows `main` of the tool from the new
table through the ordinals to growth and commit; `CanGrow` lists every reason for
which `mg_grow_header` refuses, and it refuses before it writes. `MachOPipeline`
uses the tools up to `MaxEdits` times, one step each, since a tool reads the whole
file and writes it at its end. It starts from what a linker makes (`WellFormed`):
commands that leave the first section alone, the file's end within `__LINKEDIT`, and
each kind of information once. `LinkedImage` says what an order means for the loaded
program, by names only: no offsets, ordinals or room.

### WorkDirs

`own` is each thread's directory (`__pthread_fchdir`), `cwd` the process's, `home`
what the program has set it to. A call of the `*at` family is `Leave` (remember
the directory), `Enter`, `Do` and `Back`, with `FullPathAt` first where there are
two paths; `done` records where each path was followed from and where its caller
meant. A spawn is `Spawn`, `Lock`, `Enters`, `RealSpawn`, `Restore`; `table` is
`g_chdir_table`.

### Streams, vectored I/O, clocks

`FMemOpen` and `OpenMemStream` have one action per callback, with lengths that wrap
(`WORD`), and keep the last call, its arguments and its answer (`call`). `ByteFile` is a
file, which keeps the same and leaves nothing open: a write puts the caller's bytes at
the position, as many as there is room for; a read returns the bytes there; a seek goes
where offset and base say, or is refused. Open is only what lies between the end of the
data and a position beyond it, and a refusal of a position outside the data. `VectorIO` has one step per system call: it takes
part of what it is given, none, or fails. `Transfer` is the promise: a prefix is
moved, and the caller hears how long it is. `ClockArith` evaluates the conversions
in words of six bits over chosen operands and scales; `SleepOffset` reads boot time, time of
day and mach time one after another while they run.

### Framework wrappers

`LayerDelegates`: the system's plain pointer (`delegate`) beside what the program
made it (`given`), the backlinks (`links`), the destruction of a delegate as
`Release`, `Compare`, `Clear`, and a change of the layers' tree as `Collect`,
`Change`, `LetGo`. The delegates held are those `MaxDepth` layers down
(`Collected`); the system works with all that are under the change.
`ViewControllers`: `todo` is the stack of calls under way, since from everything it
is told the program may call back. Asking for a view is `Load`, which tests the flag
and may run the program's loadView, and `Loaded`, which goes by that test.
`StackViews`: the lists per gravity, the equal-size constraints and the arrangement
they were built for. `ManualFrames`: a frame is a place and a size, either of which
may collapse; the engine sets it through the same call as the program, as the trace
in the file shows.

A definition preceded by a comment "Mutation of X" is a plausible wrong version
of X. It is used nowhere in the model: putting it in X's place shows that a
property notices.

## 3. Runs

| run | instance | shows |
|---|---|---|
| `kq_shared` | 2 threads, 1 kqueue, a socket and a timer, 3 modes, room for 1 or 2 events, a slot of 2 | `StashSound`, `OneReportPerFilter`, `FiresSurvive` |
| `kq_loop` | 1 thread, 3 filters, list as long as the slot, objects recreated once | `NoDanglingUdata`, `NoParkOverStash`, `StashDelivered` |
| `mp_own` | 2 threads, 3 ports with one user each, a map of 2, 3 portsets | `Wrapped`, `ReplyStillQueued`, `NoBurnedSlot`, `WakeupTaken` |
| `mp_shared` | 2 threads, one wakeup port | `MapSound`, `NoPsetLeak`, `CanFire` |
| `ulock` | 3 threads, one word of two halves, 32- and 64-bit waits | `NoMissedWake`, `WaitReturns`, `TimedWaitEnds`, `ImplementsFutex` |
| `sig_own` | 2 threads, one of which installs dispositions, 2 pages, one handler | `Frontline`, `FaultEnds`, `NoClobber`, `ImplementsSignals` |
| `patch_all` | all 10,032 functions of four instructions and a `ret` that `Covered` describes | `NoMidJump`, `BlocksSound`, `ImplementsNative` |
| `macho` | executables and libraries with chained fixups of both kinds or opcodes, header pads of 16 to 320 bytes; 9 orders for `change_dylib`, 4 for `fix_macho`; up to 4 uses | `SectionsIntact`, `OneOfEach`, `CopyMeansTheSame`, `ImplementsLinked` |
| `frameworks` | one at a time: 2 threads, 2 weak variables, 3 objects; 2 layers, 2 delegates; 2 controllers; 3 views in 2 gravities; one frame | `NoDangling`, `ObjcOnlyItsOwn`, `NothingLeftBehind`, `LiveStays`, `DelegatesSafe`, `CallbacksInOrder`, `LayoutKept` |
| `weak_attach` | 2 threads form the first weak references to one object | `NoDangling` **fails** |
| `frame_lost` | constraints determine a part of a frame | `FrameKept` **fails** |
| `libc` | one at a time: 2 threads, 2 directories, 2 spawns; streams of up to 3 and 5 bytes; vectors of up to 3 buffers, texts of up to 6 bytes; clocks; 2 threads asking for continuous time | `WhereAsked`, `DirectoryRestored`, `CallerUnchanged`, `ImplementsStreams`, `ClocksSound` |

`MCLibc` and `MCFrameworks` hold parts that share no state. A behaviour is one of
them, the others rest in an initial state, so that a run costs the sum of the parts
and not their product.

Bounds. `MaxGen` limits how often an object is recreated: two generations are enough
to tell a freed owner from its successor. The slot of `kq_shared` holds as many
events as there are filters, as 32 entries do in practice; overflow is in the model
and is not promised anything. A map smaller than the number of ports (`mp_own`)
brings the full table, reclaiming and the unwrapped fallback; three portsets allow
two threads to hold one each while a third is mapped. Two values per half-word give
equal, different and too-wide values; three threads give a waiter, a waker and a
second waiter that takes the wrong wake-up. Two pages are one page and the page
before it, all the repair looks at, and the second is a gap or a guard page at first
(`Layouts`); the runaway guard is 0 instead of 200000, so that it is met. The
default and SIG_IGN in any combination before the emulator is loaded (`Early`), and
a handler with siginfo, without it (by `signal()`) and the default afterwards
(`Actions`) are the ways a chain can go. One thread installs (`Setters`) while both
fault: without `"race"` below, two that install would take turns. A jump covers five
bytes and the shortest faulting instruction has four, so four instructions give
every way a jump can meet its surroundings: within its own instruction, over the
next one or two, over the next site, before, at and behind a branch target.
`Threshold` is 2 instead of 50, `MaxRun` 2 instead of 64 and the pool holds two
blocks, so that all three are met; a count goes no further than one above the
threshold.

The images of `macho` have the least that makes the tools differ: three libraries of
which the first may be weak, upward or re-exported, one pointer that is rebased and
four that are bound (one weakly, one to the flat namespace), function starts of one
or two uleb digits and one that needs more when the base moves, constructors or
exports; and five odd ones, with an addend, bits in the top byte in either format, a
table of imports with addends, and code described from the header: on each of these
the run leaves out the one tool that goes wrong. The limits are scaled down so that
they are met: ordinals above 2 do not fit an immediate, above 3 need a second digit
(`ImmMax`, `OrdRadix`), six libraries and three operations are too many. Four uses
are convert, edit, edit again and open. Two weak variables and two objects of a
custom class allow every store over another object, two sentinels and a slot that
changes registries. Three views let one be moved past another and leave two to be
shared between; with two controllers a parent, a child and a transition. `MaxTodo`
is the depth of calls nested in callbacks: five allow a transition, whose three
calls are made one by one, from within another callback. `MaxDepth` is 1 instead of
32, and the run's two layers do not reach it; three layers are needed for `"deep"`
below. In `libc` a buffer of three bytes has a start, a middle and an end, texts
contain the needle twice or not at all, and the clocks' words have six bits so that
both carries and overflow occur among the chosen values. Six ticks (`MaxNow`) let
the offset of continuous time be published between two queries of a thread, the
first of which has answered more than zero, and let the time of day be set ahead.

Why a list as long as the slot in `kq_loop`: Bun asks for 1024 events and a slot
holds 32. With a shorter list, events dropped for closed descriptors use up the
caller's places (`kevent64_shim.c:459`) and the wait can block over a
deliverable event.

Why one thread per loop in `kq_loop`: Bun runs one event loop per kqueue. With
two threads on one kqueue, a thread already in the kernel is not woken when the
other stashes an event; the comment at `kevent64_shim.c:731-741` records the
attempts to change that.

### Where the code and its comments disagree

- `weak_attach`: `mpls_weak_attach_sentinel` looks for a sentinel (`:201`) and
  associates one (`:207`) without a lock around both. The one associated second
  releases the first, whose dealloc unregisters a slot that its thread has yet to
  write; that slot dangles (against `weak_custom_rr.c:29-32` and `:40`).
- `frame_lost`: the engine's frame is left out of what is remembered only if it
  collapsed in both respects (`AppKitWrapper.m:1495`). A view with constraints for
  its size alone, the case the comment begins with (`:1464-1470`), has its place
  forgotten in the first layout.
- `EV_DELETE` of a Mach port (`kevent64_shim.c:562`) is passed on with the port's own
  name, though its filter is on the portset; the mapping is remembered "so we can [...]
  clean up the portset on EV_DELETE" (`:546-548`), which nothing does. Portset, filter
  and slot stay, and a deleted wakeup port keeps being drained. The model has it so:
  `CanFire` says of a deleted registration too that it can fire.
- `EHCollectDelegates` turns back below a depth of 32 (`QuartzCoreWrapper.m:206`), against
  "the whole subtree is collected" (`:209-210`): `"deep"` below.
- `viewDidLoad` is called "once" (`AppKitWrapper.m:782`), but `:822` goes by a test made
  at `:820`, before the program's loadView ran: one that asks for `self.view` once it has
  set it is told twice: `"loadview"` below.
- `macho_grow.h:163-168` names the offsets from the image's base that must grow with
  it and goes on "These are the rest"; `__unwind_info` and the entries of LC_DATA_IN_CODE
  (of which `:470` moves the file offset alone) count from there as well: `"relative"`
  below.

The first two have runs of their own. `EV_DELETE` is part of the model; the last three
show when the choice named is added to an instance.

### What the runs exclude

`Uses` (`Allowed` for the wrappers, the streams, the calls of many and the clocks), and some constants, say what a program or the
system may do. The runs leave them empty, because the code does not stand it;
adding one shows how it fails. These are limits of the code, not of the models.

| module | choice | what then happens |
|---|---|---|
| `KqStash` | `EarlyReuse = TRUE` | `kq_drain` takes `fcntl(F_GETFD)` for a proof that the owner is alive (`:474`, against `:743`); a descriptor closed and opened again passes: `NoDanglingUdata` fails |
| `MachPortMap` | `RaceKind`, a reply port of two threads | releasing a mapping takes the port out of the portset another thread is registering it in (`:209`, against `:203`): `CanFire` fails |
| `SigOwner` | `"signal"` | `avxemu_signal` intercepts SIGILL only (`handler.c:685`, against `:658`, `:668`): `Frontline` fails |
| | `"mmap"` | what is mapped between test and repair is lost (`handler.c:301`, against `:298`): `NoClobber` fails |
| | `"query"` | a query returns the emulator's handler: `ImplementsSignals` fails |
| | `"race"` | dispositions are copied and read without a lock (`handler.c:664-665`, `:674-675`; `:463-468`, `:322-324`): what a fault calls, or, with two `Setters`, what is reported, may be the handler of one disposition with the flags of another: `ImplementsSignals` fails |
| `CodePatch` | `LoopInRun` (`MCCodePatch`) | a run's thunk resumes within the jump of a later block (`reloc.c:468`, against `:463-467`): `NoMidJump` fails. `Covered` excludes it, and `loop`/`jrcxz`, which `lde_cflow` does not take for branches |
| `MachOPipeline` | `"upward"`, `"both"` | an order for an upward dylib is not followed but renumbered for; the loop of `fix_macho` ends before the last commands: `ImplementsLinked` fails |
| | `"chained"` | growing does not adjust chains of offsets: `ImplementsLinked` fails |
| | `"relative"` | growing leaves `__unwind_info` and data in code where they pointed (`macho_grow.h:163-168`): `ImplementsLinked` fails |
| | `"addend"` | the addend of a chained bind is masked away (`patch_macho.c:187`): `ImplementsLinked` fails |
| | `"top"` | bits 36 to 42 of a rebase are taken for the address's (`:234-236`), and of an offset the top byte is dropped (`:238`): `ImplementsLinked` fails |
| | `"wide"` | an imports table with addends is read as one without (`:192`): `ImplementsLinked` fails |
| | `"scratch"` | the new table is written past the end of the scratch buffer |
| | `"copy"` | `dlopen`'s test for room forgets the header: `SectionsIntact` fails |
| `WeakSlots` | `"attach"` | as above |
| | `"share"`, `"bind"` | two calls on one variable (a data race of the caller); a call that finds objc's functions half looked up (`:222-238`) |
| | `"late"`, `"nomem"` | a load between the last release and the sentinel, which the file's header admits; an unregistered slot: `NoDangling` fails |
| `WorkDirs` | `"emfile"`, `"ids"` | the thread's directory, or `faccessat`'s exchanged ids, are not put back: `CallerUnchanged` fails |
| | `"window"`, `"own"` | a path or spawn in the window in which the process's directory is changed; a thread whose own directory hides the change: `WhereAsked` or `DirectoryRestored` fails |
| | `"again"`, `"twice"`, `"full"`, `"reuse"` | the table's entry is consumed, overwritten, dropped or stale: `WhereAsked` fails |
| `FMemOpen` | `"beyond"`, `"middle"` | the remaining length wraps after a seek past the data; text is cut at the last write |
| `OpenMemStream` | `"read"`, `"negative"`, `"nomem"` | reads copy from the start; a negative position is used as it is; a failed growth is ignored |
| `VectorIO` | `"stream"`, `"again"` | a message sent in part counts as sent; `write` tells an approximation of what it wrote |
| `SleepOffset` | `"race"` | two threads that work the offset out at once publish two: `Monotonic` fails |
| `LayerDelegates` | `"race"`, `"direct"`, `"dying"` | a new delegate is cleared with the old one; AppKit's own assignments are not linked; a delegate whose `dealloc` has begun is retained and asked |
| | `"deep"` | the delegate of a layer further down than `MaxDepth` is destroyed by the change and then asked (three layers): `DelegatesSafe` fails |
| `ViewControllers` | `"nested"`, `"early"`, `"reparent"` | a view moved from within WillAppear; a view in a window before it was asked for; a child in two parents' lists |
| | `"loadview"` | a loadView that asks for the view it has made: viewDidLoad comes twice, `CallbacksInOrder` fails |
| `StackViews` | `"first"`, `"again"` | after the removal of the view all others are held to, or its return to where it was, nothing is rebuilt |
| `ManualFrames` | `"half"`, `"zero"` | as above; a program that collapses a view itself gets the old frame back |

### Fairness

- `KqStash`: a thread inside `kevent64` goes on (`WF`), the mutex starves nobody
  (`SF` on the steps that take it), and an event loop comes back to wait again
  and again (`SF` on invoking a wait). Filters are not obliged to become ready
  and kernel waits are not obliged to fail.
- `MachPortMap`: threads leave the shim (`WF`); a loop keeps waiting and the
  kernel reports every ready portset eventually (`SF` on `Fire`).
- `Ulock`: threads run (`WF`), the mutex starves nobody (`SF`), time comes to a
  deadline (`WF` on `Deadline`), and as it is absolute, a sleeper that keeps starting
  over finds it passed (`SF` on `Expire`). Stores, calls and spurious
  wake-ups are never forced.
- `SigOwner`: a thread inside one of the emulator's handlers runs on (`WF`). The
  program is never forced to do anything.
- The other modules: none; their properties are safety properties.

## 4. Proofs

| theorem | property | assumes | inductive invariant |
|---|---|---|---|
| `KqStashProofs!TypeCorrect`, `StashIsSound`, `NoFilterTwice` | `TypeOK`, `StashSound`, `OneReportPerFilter` | - | `IInv`: type, `Changes`, `Notes`, `Locked`, `Buffers`, `Slots`, `OneSlotPerKq`, `FlagRaised`, `OneReportPerFilter` |
| `NeverParksOverStash` | `NoParkOverStash` | `Apart`, `Roomy` | `IInv` and `Emptied` |
| `NoFreedOwner` | `NoDanglingUdata` | `Apart`, `~EarlyReuse` | `IInv` and `OwnersInv` |
| `EveryFireSurvives` | `FiresSurvive` | `Fits` | `IInv` and `OneEach` |
| `MachPortMapProofs!TypeCorrect`, `MapIsSound`, `NoPortsetLeaked` | `TypeOK`, `MapSound`, `NoPsetLeak` | - | `IInv`: type, `MapSound`, `NoPsetLeak`, `Hands` |
| `RegistersWrapped`, `RegisteredCanFire`, `RepliesStay`, `NoSlotBurned` | `Wrapped`, `CanFire`, `ReplyStillQueued`, `NoBurnedSlot` | `OneUser` | `UserInv`: `IInv`, `Registers`, `Returns`, `Members`, `Modes`, `Registered`, `Replies` |
| `UlockProofs!TypeCorrect`, `MutexCorrect`, `NoWakeMissed`, `Refinement` | `TypeOK`, `MutexHeld`, `NoMissedWake`, `ImplementsFutex` | - | `IInv`: type, `MutexHeld`, `WaitArgs`, `LateDue`, `NoMissedWake` |
| `SigOwnerProofs!TypeCorrect` | `TypeOK` | - | `TypeInv`: type, `Staged`, `Unowned` |
| `OwnershipKept`, `Transparent` | `Frontline`, `ImplementsSignals` | the program's `Uses` | `TypeInv`, with `Kept` and `Doomed` (`OwnInv`), with `Placed`, `Alone` and `Stored` (`SeenInv`) |
| `CodePatchProofs!TypeCorrect`, `NeverMidJump`, `BlocksStaySound`, `Implements` | `TypeOK`, `NoMidJump`, `BlocksSound`, `ImplementsNative` | `Covered` of each function | `IInv`: type, `Covered`, `BlocksSound`, `Scanning`, `Guarded`, `Outside` |
| `FrameworksProofs!SlotsClearedFirst`, `ObjcNeverFaults`, `LiveReferencesStay` | `NoDangling`, `ObjcOnlyItsOwn`, `LiveStays` | `Uses` within `"bind"` | `CallsInv` and `BackedInv` |
| `NothingIsLeftBehind` | `NothingLeftBehind` | `Uses` within `"attach"`, `"late"` | `CallsInv` and `TracesInv` |
| `LibcProofs!TypeCorrect` | `TypeOK` | - | `CallsInv`: type, `Locked`, `Sound` |
| `ProcessDirectoryRestored` | `DirectoryRestored` | `Uses` without `"window"`, `"own"`, `"twice"`, `"reuse"` | `RestoredInv`: `CallsInv`, `TableInv`, `Spawners`, `DirectoryRestored` |
| `PathsFollowedWhereAsked` | `WhereAsked` | `Uses` within `"emfile"`, `"ids"` | `AskedInv`: `RestoredInv`, `Listed`, `Askers`, `WhereAsked` |
| `CallersDirectoryKept` | `CallerUnchanged` | `Uses` without `"emfile"`, `"ids"` | `ReturnInv`: `CallsInv`, `OneExchange`, `Returning` |
| `ClocksStaySound` | `ClocksSound` | `Allowed` without `"race"` | `ClocksInv`: `ArithInv`; `SleepInv`: `Clocked`, `Queries` (`Fair`), `Alone` |
| `DelegatesStaySafe` | `DelegatesSafe` | `Allowed` without `"race"`, `"direct"`; its second half also without `"dying"`, `"deep"` | `LayersInv`: type, `Linked`, `LinkingLive`, `Compared`, `Hold`, and the property |
| `ControllersToldInOrder` | `CallbacksInOrder` | `Allowed` without the controllers' | `ControllersInv`: type, `Seen`, `Family`, `Fine`, `InTurn` |
| `FramesKept` | `FrameKept` | `Allowed` without the frames' | `FrameInv` |
| `LayoutStays` | `LayoutKept` | `Allowed` without the stacks' and the frames' | `StackInv` and `FrameInv` |
| `MachOProofs!Invariant` | - | - | `IInv`: `WellFormed` of the file, `Copied` |
| `RoomKept` | `SectionsIntact` | `Uses` without `"copy"` | `IInv` |
| `OneKept` | `OneOfEach` | - | `IInv` |
| `CopyKept` | `CopyMeansTheSame` | - | `IInv` |

They hold for any sets of threads, kqueues, idents, ports, words, handlers, pages,
objects, weak variables, directories, spawns, layers, controllers, views, images and
orders, for any table sizes and depths of nested calls, and for lists of views and of load
commands of any length; the clocks' theorem for any half word that a second's
nanoseconds fit in, any numbers of a word, boot times, samples and span of time, with the
scales, usages and units of `MCLibc` - under the assumptions named in the modules
(`StashConstants`, `MapConstants`, `UlockConstants`, `OwnerConstants`,
`PatchConstants`, `WeakConstants`, `DirConstants`, `LibcConstants`, `FrameworkConstants`,
`PipelineConstants`, `PipelineInputs`, `PathLengths`, `WrapperPaths`). What a
theorem assumes beyond these stands in its ASSUME:

- `Apart`: one thread per kqueue; `Roomy`: a wait asks for no fewer events than a slot
  holds. Both are how Bun's event loops use the shim (section 3); the code has neither
  guarantee to offer otherwise. `EarlyReuse` is a descriptor reused under a stashed event.
- `Fits`: as many slots as kqueues and room in a slot for one event of each filter of
  its kqueue. `kq_stash` drops what does not fit, so nothing less will do.
- `OneUser`: no port is used by two threads, as a loop has its wakeup port and a lookup
  its reply port for themselves. It is needed for reply ports (section 3). That a
  *wakeup* port can be shared by two threads is what `mp_shared` checks of `CanFire`;
  no theorem says so.
- `Covered`, which `LoopInRun` shows to be needed.
- `Uses` and `Allowed`: no more than the behaviours named. Each that is left out makes
  the property fail (the table of section 3; a child with two parents shows with three
  controllers, the others in the runs' instances), so none is assumed away for the
  proof's sake, with one exception: `LiveStays` holds of the run's instance also when
  the registry is out of memory (`"nomem"`), but rests in the proof on `BackedInv`,
  which then fails.
  `Transparent` in addition has no SIG_IGN with SA_SIGINFO (`chain` would call it). That
  no two threads are at one disposition (`"race"`) is a condition which a program has no
  reason to keep; it is the one the code needs.

Why the strengthenings are needed. `StashSound` speaks of the table, but a step
that appends an event must know that the event belongs to the slot's kqueue and
that the slot belongs to the thread that holds the lock: `Buffers` says what is
in a thread's hands at each stage, `Locked` ties the lock, the stage and the
local `slot` together. `FlagRaised` holds only outside `kq_stash`, hence the
mention of the lock. `NoParkOverStash` rests on what a drain leaves (`Emptied`), which
nobody but the kqueue's own thread can undo. `NoDanglingUdata` needs the owners of all
copies of an event - in the kernel, in a thread's list, in the slot - to be alive or its
filter to be invalidated before it is seen again (`OwnersInv`). `FiresSurvive` needs the
slot to be there when `kq_stash` looks: an event of one filter is in one place only, so
that a full slot would hold more filters than its kqueue has (the lemma `NoMore`).

`MapSound` needs `NoPsetLeak`: destroying one's own portset must not destroy a mapped
one. With one user per port, what a thread has seen of a mapping is still true when it
uses it: `Registers` says so of a thread on its way to register, `Returns` of one whose
portset fired; `Members` that a port is in no other portset than its own, `Modes` that
filters fit the kind of their port, `Registered` that a registered port is mapped. All
four theorems need all of it.

`NoMissedWake` needs the mutex: a broadcaster that is still to come cannot pass a
thread between its test and its sleep.
`Frontline` is not inductive: it must be known from the first moment a signal is
taken, through the constructor's stages (`Kept`, over `Shadowed`), and that only
a doomed process restores a default (`Doomed`). `Transparent` rests on what lies
between the halves of a copy: a disposition is half stored only in one thread's call,
nobody is then about to call it, and the flags a thread has read are those of the
handler it will find (`Alone`, `Stored`); and it
needs that a thread is in a chain only for a signal the emulator has taken
(`Placed`). `NoMidJump` follows from two facts about every path that may come to a
jump: no branch leads behind a site's first byte (`Guarded`), and control never
is inside what a jump has overwritten unless it is in the block (`Outside`). Both
need to know what a block stands for (`BlocksSound`) and that the program has not
begun while the scanner works (`Scanning`).

Of weak references, `CallsInv` is what the calls keep among themselves: who is where on
which slot, and that no two calls are on one. `BackedInv` says for every stage of a call
that what a slot holds is backed by the table its object's class needs, and that an
object on its way out has its sentinel until the slots have been blanked; a dangling
slot would be one that neither table knows. `TracesInv` is the converse: what a table
knows is a slot that exists or that a call is about to take out.

Of directories, `CallsInv` ties the stage of each call to what it has saved and the lock
of the spawns to the one thread that has it. `DirectoryRestored` must know what the
thread inside will put back (`Spawners`) and that an entry of `g_chdir_table` is of one
live set of actions (`TableInv`); `WhereAsked` in addition that actions which asked for a
directory have an entry (`Listed`), which with a table of sufficient size takes a
pigeonhole argument (the lemma `Room`). `CallerUnchanged` speaks of the moments a call
begins and ends; `Returning` carries what it found through all stages between.

Of the frameworks, `DelegatesSafe` needs that every assignment has a backlink or will
have (`Linked`), and what the wrapper saw of a dying delegate while it compares and
clears (`Compared`, `Hold`). `ControllersInv` describes the whole stack of calls under
way, whatever is nested in it: no view moves above a call its controller is still owed,
none before the controller has loaded it (`Fine`), and each controller is at rest, owed
the second call of a pair, or about to get the first of one (`InTurn`). The lemmas about
`Onto` say what that means of a stack by its top and its rest. The constraints of a
stack of views are those its arrangement asks for (`HeldEqual`, `Others`). The
arrangement joins the lists of the gravities, which have no view twice and none in
common (`Apart`); `Joins` says which views are in it and which is first, and holds of
the first `k` lists for each `k` in turn.

Of the clocks, the product in half words is compared with the real one in `MiddleWord`:
the cross products' carries are what is missing from the high word, modulo a word.
`TimespecIs` and `ScaledIs` need in addition that a second fits in half a word
(`HalfWords`) and the bounds on twice rounded quotients (`RoundedTwice`). For continuous
time, `Fair` keeps a call's floor below what it can answer: below mach time as it has
read it with the offset as it is. It survives a new offset because the only one ever
published replaces zero (`Alone`: whoever works it out does so while the other rests),
and no sum wraps because no sample is of a later time than the clocks (`Clocked`).

Of the Mach-O tools, what a tool makes of a list of commands is a function along the
list, and the library's induction is out of the prover's reach; a claim about each prefix
is proved from the least number it would fail for (`LeastExists`, `Induced`). `Leaves`
says of each tool that no kind of command of which there may be one comes more often
than before. `IInv` has no more than that the file is well formed after each tool, and
that what `dlopen` opened is the file or its rewriting (`Copied`). `SectionsIntact` and
`OneOfEach` follow at once; `CopyMeansTheSame` needs that a rewriting leaves the code
and each pointer where they are, and the libraries in their order.

`TypeOK` of these modules and the mutex's `MutexHeld` are proved and are not
among the runs' properties.

Only model-checked:

- the liveness properties (`StashDelivered`, `WakeupTaken`, `WaitReturns`,
  `TimedWaitEnds`, `FaultEnds`), because the prover does not reason about fairness;
- `NoClobber`: where nobody maps memory during a repair (`"mmap"` excluded) it says no
  more than that the page is looked at first, which the run and its mutant show;
- `ImplementsLinked`: `CopyKept` is the part of it that is about the loader. The rest
  needs, of every fixup and symbol, what the renumbering of an ordinal and the growth
  of a header do to it, beside what `IInv` says of the commands;
- `ImplementsStreams`, which needs lemmas about slices of buffers at each step of three
  refinements.

## 5. Not modelled, and the plan

Not modelled, with the reason:

- instruction semantics of the emulator: no state, and compared with the compiler's
  intrinsics by `avxemu/test`;
- dispatch additions: forwarding functions, and block cancellation
  (`dispatch_modern.c:43`), which is one flag, set and read at once, of a block the
  caller keeps;
- of the frameworks: constraint activation (`isActive` keeps its key in a static of
  its own, `AppKitWrapper.m:676`, and never finds what `setActive:` stored under the
  one of `:659`), hidden arranged views, the WebKit bridge (a policy listener may be
  answered twice, `WebKitWrapper.m:353`), stubs with empty bodies;
- of the wrappers of stack views: a change of orientation (`AppKitWrapper.m:309-311`,
  `:345`);
- of `posix_spawn` with a change of directory: a change back that fails
  (`posix_spawn_chdir.c:114-117`);
- of `dlopen`: that the rewritten copy lies in `/tmp` (`dlopen_interpose.c:186-231`), where
  a name that begins with `@loader_path` leads elsewhere: `CopyMeansTheSame` is about
  names and bindings;
- of Mach-O editing: fat files, the bytes of opcode streams, a crash between a
  tool's truncation of the file and its write;
- of the kevent64 shim: several changes in one call, a change bundled with a wait;
- of the emulator: functions that do not decode linearly, other threads while a jump
  is written, the length decoder;
- polyfills and Swift stubs that only forward, build tools, tracing.

Left for later, in this order:

1. `ImplementsStreams`: the streams and `VectorIO` against `ByteFile` and `Transfer`,
   for buffers of any length.
2. `ImplementsLinked`, from what each tool does to an ordinal, a fixup and a symbol.
3. `CanFire` with a wakeup port of several threads: which of the conditions of
   `mp_shared` it needs.
4. Composition of `KqStash` and `MachPortMap`: a stashed Mach port event is
   stored under its portset's name, and a wait that fails skips the translation.
5. `CodePatch` with several threads.
