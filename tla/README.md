# A verification development of Undercover

Undercover injects an apk into a running Android process with ptrace and lets the
apk's code hook Java methods of that process. This directory holds TLA+ models of
its code and of those parts of the Dalvik headers that have code in them, the TLC runs
that check them, and TLAPS proofs about every module of the models. Paths below are
relative to the repository.

## 1. The system

| Part | Code | State it keeps | Operations | What is hard |
|---|---|---|---|---|
| Native method hook | `jni/hook/Proxy.cpp` | the `struct Method` of each hooked method, a heap copy of the original in `insns`; the boxes of one invocation | `hookMethod`, `methodHookHandler`, `boxMethodArgs`, `realInvokeOriginalMethodNative` | a live struct is rewritten field by field while other threads dispatch on it; the only lock is the monitor of the HookManager class; boxes are stored behind the collector's back |
| Callback registry | `HookManager.java`, `HookedMethod.java` | `sMethodCache`, `mCallback`, `mMethod` | `setMethodHooked`, `handleHookedMethod`, `HookedMethod.invoke` | check-then-act without a lock; an unlocked read of a HashMap that may be growing; a field per wrapper written by every invocation |
| Ptrace session | `jni/inject/inject.c`, `ptrace.c` | registers of the target's main thread, `oldregs`, strings on its stack, the bases of the linker | `get_remote_addr`, attach, dlopen, dlsym, call hook, detach | signals and faults that look like the stop waited for; several inj at once; death of either side; maps that change while they are read |
| Dex table | `jni/hook/libhook.cpp`, `initMembers`, `Hook.java` | `PATHS`, `CLASS`, `sSize`, `catfish`, `Hook.hooked` | `hook`, `invoke_dex_method`, `Hook.main` | pointers into stack memory given back to the application; calls cut short; a second load redirects the handler |
| Class loader chain | `jni/hook/loader.cpp` | the parent of the application's class loader | `dlmain`, `invoke`, `insertClassLoaderProxy` | a JNI call can throw at each step |
| Start of an injection | `Injector.java`, `find_pid_of`, `test/MainActivity.java` | the copied `inj` binary, the buffer for a cmdline | `startInjection`, on each `onResume`; the scan of `/proc` | never awaited, repeated; pids come, go and are reused during a scan; copies that fail half way |
| The virtual machine | `jni/hook/**/*.h` (Dalvik) | objects, bitmaps, cards; the instanceof cache; references; the interpreter's stack; dex files; packets | the inline functions and macros of the headers | concurrent marking, lock-free reading, reuse of slots, arithmetic on offsets and widths |
| Not code | `.so`, `assets/inj`, `res`, build files | | | |

How they interact: `startInjection` has `su` run `inj`, one process per call. `inj`
finds the target's pid and the addresses of `dlopen` and `dlsym` in it, attaches to its
main thread and makes it call `dlopen(libhook)`, `dlsym("hook")` and
`hook("process#apk")`. `hook` loads the apk (or finds it in the table), registers the
natives of its HookManager, points `catfish` at its `handleHookedMethod`, and calls
`Hook.main`, which calls the user's `Undercover.onInject`. That code calls
`HookManager.setMethodHooked`, which calls `hookMethod`. From then on every thread that
invokes the method goes through `methodHookHandler`, which boxes the arguments, to
`handleHookedMethod` and the callback.

What makes each part correct: a method is either as it was or completely hooked for
whoever invokes it, and its original survives; an invocation calls the callback that
is registered for it with the arguments it was made with, and runs its own original;
the interrupted thread resumes with its registers and frames whatever happened; inj
attaches to the target and calls its own dlopen; an injection leads to `onInject` once
per load and leaves the table usable; the application's class loader chain stays whole;
and what libhook does inside the VM leaves the VM's own structures sound.

## 2. Modules

| Module | Models | Notes |
|---|---|---|
| `HookInstall` | what installing a hook promises to Java | abstract: one indivisible step between call and return |
| `MethodHook` | `hookMethod` and dispatch in `Proxy.cpp` | one action per access to shared memory; implements `HookInstall` (`ImplementsHookInstall`) |
| `ArgBoxing` | `methodHookHandler`, `boxMethodArgs` in `Proxy.cpp`, `Native.h` | the invoker's side of the call is the reference the boxes are compared with |
| `HookManager` | `HookManager.java`, `HookedMethod.java` | extends `HookInstall`, so it rests on the promise, not on `Proxy.cpp` |
| `PtraceSession` | `main` of `inject.c`, `ptrace.c` | the kernel's side (stops, pending signals, tracer) is part of the module |
| `RemoteAddress` | `ptrace_find_dlinfo`, `get_remote_addr`, `get_module_base` | beside threads of the target that map and unmap |
| `Injection` | `Injector.java`, `find_pid_of`, `MainActivity.java` | attach to detach is two steps here, `PtraceSession` takes them apart |
| `InvokeDex` | `libhook.cpp`, `initMembers`, `Hook.java` | `CutShort` is what `PtraceSession` shows can happen to `hook` |
| `Loader` | `loader.cpp` | sequential; the interest is in failures and repetition |
| `ObjectHeap` | `oo/Object.h`, `alloc/VisitInlines.h`, `alloc/HeapBitmap*.h` | operators: layout, references of an object, bitmaps |
| `ConcurrentGC` | `oo/ObjectInlines.h`, `alloc/WriteBarrier.h`, `CardTable.h`, `boxMethodArgs` | extends `ObjectHeap`; the collector is external |
| `AtomicCache` | `AtomicCache.h`, `oo/TypeCheck.h` | one action per memory access |
| `IndirectRefs` | `IndirectRefTable.h` | the local reference table |
| `InterpStack` | `interp/Stack.h`, what `hookMethod` does to frame sizes | |
| `DexImage` | `libdex/DexFile.h`, `DexProto.h` | dx, the writer, is external |
| `ByteOrder` | numbers as bytes, as `Bits.h` and a little-endian machine have them | operators, for the two modules below |
| `Packets` | `Bits.h`, `jdwp/Jdwp.h`, `ExpandBuf.h` | |
| `FieldAccess` | the setters and getters of `oo/ObjectInlines.h` | |
| `*Proofs` | | inductive invariants and theorems: section 4 says about which modules |
| `MC*` | | constants and symmetry for TLC; `MCComponents` and `MCVm` are explained in section 3 |

Operators named as mutants (a comment starts with "Mutant:") are deliberate
distortions of one definition. No specification uses them. They exist to show that
each property can fail: with the definition replaced by its mutant, TLC finds the
property violated.

### MethodHook
`method[m]` is the struct, reduced to the fields `hookMethod` writes. `hookInfo` is
the heap. `monitor[g]` is the monitor of a HookManager class, which the JNI bridge
takes because `hookMethodNative` is `static synchronized`; `ManagerOf` says which
class each installing thread uses. `Enter`, `Check`, `Copy`, `SetNativeFunc`,
`SetInsns`, `SetRegisters`, `SetOuts`, `SetFlag`, `Return` are the statements of
`hookMethod` in order. An invocation (`Invoke`) reads the two frame sizes and ACC_NATIVE
(`ReadRegistersSize`, `ReadOutsSize`, `ReadFlag`) in any order, since some of Dalvik's
call paths size the frame before they test the flag and some after it, and then follows
the code pointer that the flag names (`Dispatch`). `seen` is what it has read,
`hookedBefore` whether the method was native when it began. A handler entered on a frame
that was sized for bytecode finds locals where its arguments should be: it is
"misplaced". An invocation that the hook overtakes can come to that or to executing the
saved struct; `NativeCallsSound` says that one begun on a native method comes to
neither, and that one that saw the flag executes the handler at least.
`InvokeOriginal` is `realInvokeOriginalMethodNative`, which takes the saved copy out of
`insns`. `invokeOriginalMethod` takes no lock although Java declares
it synchronized: `dvmSetNativeFunc` gives it a function that is not behind the bridge.

### ArgBoxing
The invoker passes values one by one (`Pass`) in registers, one for most types and two
for long and double; `methodHookHandler` and `BoxWord`, `BoxLong`, `BoxReference` take
them out again by the shorty; `HandleHookedMethod` returns any box, null or an
exception, and `Unbox` makes the result of it. `CallSeen` says that the boxes are the
values passed, that the frame is read to its end and no further, and that the invoker
finds a result of its type.

### HookManager
`setMethodHooked` is `SetMethodHooked` (to the lookup), then `UpdateCallback`, or
`HookMethodNative` (three steps of `HookInstall`) and `Put`. `PutResizes` and
`PutResized` are a put that doubles the table; in between a lock-free `get` (`Found`)
may miss any entry, because the new table is published before the entries are moved.
An invocation is `Invoke`, `GetWrapper`, `SetMMethod`, `ReadCallback`, `CallbackAsks`,
`CallbackReturns` or `CallbackThrows`, `InvokeOriginal`. `generateKey` is modelled by what it tells apart:
declaring class, name, and for each type the class that represents it. The history
variables `registered`, `replaces`, `admissible` define which callbacks an invocation
may call when registrations overlap with it.

### PtraceSession
`Stages` are the five stops `main` works through. For each, `WaitForSignal` takes
whatever `waitpid` reports, an action named after the C function prepares the
registers (`SaveAndTrap`, `ptrace_dlopen`, `ptrace_dlsym`, `ptrace_call`), and `Cont`
resumes. `Detach` restores `oldregs`. The target executes (`CallReturns`,
`FaultAtBadAddress`), receives signals, faults inside a call, or dies. Stack addresses
are numbers, since alignment and word-wise writing are at stake; code addresses are
names.

### RemoteAddress
`mapped[w]` are the mappings of inj and of the target. `fgetsLine` reads the next line
of `/proc/<pid>/maps`, which the kernel produces in order of addresses and continues by
address (`from`), so mappings made or removed meanwhile may or may not be seen.
`get_module_base` and `RemoteAddr` are the ends of the two readings.

### Injection
`TransferFiles`, `CopyWritten`, `CopyFails`, `CheckProcessExist` and `StartRoot` are the
steps of `startInjection`; `Inj(s)` those of one `su` with its `chmod` and `inj`, whose
`find_pid_of` reads one pid at a time into a buffer that a failing or empty read leaves
as it was. Processes fork, get their name, die and are replaced at any time; the apk is
updated; the clock has the coarse unit of a file's time stamp, so a copy and an update
may carry the same time.

### InvokeDex
`memory[a]` is the path found at a stack address, `Junk` once the application has
overwritten it. `PATHS` holds addresses, as the code's pointers do. `dexOf`, `CLASS`,
`catfish`, `registered`, `bound`, `hooked` follow one pair of classes (Hook,
HookManager) per load. Each assignment after which being cut short matters is an
action: `Main` sets `Hook.hooked`, and only `ReplaceParentClassLoader`, later, calls
`onInject`; `SetCatfish` makes the new handler reachable for other threads before
`SetNativeFunc` binds its `invokeOriginalMethod` (`NativesInPlace` says that nobody else
meets that gap). `SetClass` does not compare the index with the size of the table, as
the code does not: with the table full it leads to "overrun", after which nothing is
said. Callers run beside it.

### Loader
A JNI call yields an object or a null and an exception. `catchException` and `GivenUp`
are the code's test, inverted sense included. `Fault` is the use of a null object.

### The virtual machine
- `ObjectHeap` lays out objects and classes as words that may hold references and
  translates `visitObject` and the bitmap macros over them. `ConcurrentGC` adds a
  thread that allocates, releases tracked allocations, loads and stores references by
  the inline setters (store and card are two steps) and by `boxMethodArgs` (no card),
  a class that is being linked and may fail at any stage (`ClassFails`; for
  `CLASS_ERROR`, which is negative, `visitObject` skips super and interfaces though they
  are references: `Hidden`), and the collector as `MarkSweep.h` and `HeapSource.h`
  declare it: mark from the roots, scan, pause for dirty cards, sweep.
- `AtomicCache` has one entry, since entries share nothing; threads that look up and
  threads that replace it take one memory access per step, the version first and last.
- `IndirectRefs` packs index, serial and kind into a number as the macros do, with a
  small modulus of the serial. `kClearedJniWeakGlobal`, which the iterator skips too,
  stands in tables of weak globals only and is left out.
- `InterpStack` pushes and pops frames word by word in one array, so that an overlap of
  ins, outs and save areas would be seen, and has the reserve for stack overflow.
- `DexImage` writes any small dex file and reads every item back by the accessors.
- `Packets` and `FieldAccess` write numbers of each width next to one another and read
  them back.

## 3. Runs

| Run | Result | Shows |
|---|---|---|
| `method_hook` | holds (47 thousand states) | invariants, permanence, refinement of `HookInstall`, completion |
| `method_hook_torn` | `InvocationsRunCode` violated | dispatch that straddles the installation executes the saved struct, or the handler on a frame of the wrong size |
| `hook_manager` | holds (241 thousand states, with symmetry) | no replaced or foreign callback, the right original, no wrapper before the hook |
| `hook_manager_overloads` | `InvocationSeesCurrentCallback` violated | overloads share a key |
| `ptrace_session` | holds (778 thousand states) | registers and frames restored, arguments intact, every inj ends |
| `invoke_dex` | holds (1.2 million states, with symmetry) | table complete, overrun only after more places than entries; a dex's own Java has its natives, also beside threads that invoke; `onInject` once per load; repetition harmless |
| `invoke_dex_stale_path` | `OnInjectCalled` violated | another apk at the same stack address is "already loaded" |
| `invoke_dex_lost_callback` | `InvocationReachesCallback` violated | a second load takes the callbacks of the first out of force |
| `components` | holds (1.1 million states, with symmetry) | boxing, instanceof cache, references, dex accessors, start of an injection, class loader chain, remote addresses |
| `loader_null_parent` | `ZeroMeansInserted` violated | the inverted test: success reported, parent null |
| `vm` | holds (293 thousand states) | concurrent collection, interpreter stack, packets, fields |
| `concurrent_gc_boxing` | `TrackedArrayHoldsBoxes` violated | a box stored without a barrier is collected while its array holds it |

The six violations are recorded as findings, each with the sentence of the
repository it contradicts.

`components` and `vm` check modules that share no state with one another. Their
specification is the sum of those of the modules: the variable `part`, chosen initially
and never changed, names the one that takes steps, and the others stay as they begin. A
behaviour of the run is therefore a behaviour of one module, and every behaviour of each
module on these constants is covered; where a module begins in many ways, all but one
are explored only when it is the active one.

Bounds, and why they are enough:
- `method_hook`: two methods, two installers, one caller, as many blocks as methods, one
  HookManager class. Callers only read what installers write and share nothing with one
  another, so one does for all. The other properties speak of two threads on one method,
  or two methods; the proofs below remove the bound.
- `hook_manager`: two methods with different keys, two registering threads, two
  callers, three callbacks (one in force, one replacing it, one more registered
  meanwhile), as many wrappers. A callback is registered anew only when no trace of
  it is left (`Fresh`), which keeps the histories finite. A callback asks for the
  original once at most (`MaxAsked`).
- `ptrace_session`: two inj, one of which may be killed, two foreign signals, two
  sizes of strings and two stack pointers (both parities of the eight-byte alignment).
  Each of the five waits of `main` takes whatever stop comes, so five signals of others
  can end them all, with the SIGSTOP of the attach still pending and no call made:
  `HookRuns` and `NotLeftStopped` are about fewer (`FewSignals`), and two are enough for
  one to arrive in every place where it can.
  Sessions end, so the system may stop: deadlock is not checked in this run.
- `invoke_dex`: two apks (one lacking `Hook.main`), a table of two entries and three stack
  addresses, so that the table can be overrun, three loads, one caller. The number of
  injections is not bounded. Callers do not touch the table and leave no trace when they
  are done, so they run only while no more addresses have been used than there are
  entries (`CallersOrOverrun` in `MCInvokeDex`). Overrunning the table is undefined
  behaviour: the model stops there, so deadlock is not checked in this run. That more
  than 0x100 places occur in one process is unlikely, as the main thread is interrupted
  at few depths of its stack; the code neither states nor checks it, and the model does
  not assume it.
- `components`:
  - boxing: registers of two bits, bytes of one (`WORDS` = 4, `BYTES` = 2, all values), every shorty of up to three
    letters out of one per size and kind (Z, B, I, J, L), static or not;
  - cache: two threads, two classes, one above the other, versions up to 6: three
    replacements, so that one whole replacement and the beginning of another fit into
    one lookup (the wrap of the version at 2^32 is beyond it);
  - references: two objects, four slots, three serials, one native call in another. Native
    code is taken not to keep a deleted reference until the serial of its slot comes
    round (4096 uses in the code), where the reference would be valid again;
  - dex: two strings, two types, up to two sets of annotations, up to two code units;
  - injection: two pids, each of two processes one after the other, two su at one time,
    one update of the apk, a clock with one tick: equal and different time stamps;
  - loader: five apks, each lacking something else, three class loaders, any number of
    calls;
  - remote: six addresses, two segments of the linker, two functions.
- `vm`:
  - gc: a class of classes, a class with a static reference, a class that is linked
    meanwhile or fails, an array and an instance of it; cards of 32 bytes, so that objects share
    cards and objects on one are told from those on another; bitmap words of four bits,
    so that a word has a successor. `boxMethodArgs` is executed while the collector is
    idle or sweeps; executed while it marks it loses a box, which is what
    `concurrent_gc_boxing` is about (`BoxingPhases`);
  - stack: two methods, one without locals, a stack of 24 words with a reserve of 12;
  - packets: two fields, bytes of two bits (`BYTE` = 4), strings up to three characters into a
    buffer of two: shorter, as long, too long;
  - fields: one of each width next to each other, with the values at the edges of each
    type. The fields of `dvmSetFieldIntVolatile` are excepted: it has its store commented
    out, so it sets nothing.

  `components` and `vm` have modules that come to an end (a packet is full, a table is),
  so deadlock is not checked in them.

Symmetry is used only in runs without liveness properties, and for sets whose elements
no definition tells apart.

Fairness: `HookCompletes` assumes that a thread inside `hookMethod` is scheduled; it has
no wait there. `InjectorEnds` assumes that the target's thread and the inj processes
are scheduled and that a called function returns; it assumes nothing of signals, faults
or deaths. The other modules state no fairness: what they promise is safety.

## 4. Proofs

Every theorem is about the specification that a run checks, for all values of the
constants that satisfy the named assumptions, so the runs' bounds are gone: `MaxTime`,
`MaxVersion`, `MaxFields` and the like occur only as "a natural number". The argument is
the same everywhere: an invariant that is inductive (one lemma per action), the property
as a consequence of it, and PTL for the temporal step. No property is inductive as it
stands. What has to be added, by module:

**`MethodHookProofs`** (`TypeCorrect`, `CopySavedIsOriginal`, `NativeIsReady`,
`NativeDispatch`, `HookStays`, `Refinement`: every step of `MethodHook` is a step of
`HookInstall` or a stutter), under `SingleManager`: all installers use one HookManager
class. With two classes there are two monitors, and the copy may be of a half-hooked
struct, so the assumption is needed (it is a hazard in PROJECT.json). That a saved copy
is the original depends on no thread taking a copy from a struct another has begun to
rewrite, hence on where every installer is. `IInv`: an installer inside `hookMethod`
holds the monitor; so at most one is inside; the struct of every method is pristine,
hooked completely, or, for the method of the installer inside, exactly as far as its
program counter says; each block in use is referred to by one method or by that
installer; a caller that began on a native method has read only what a hooked struct holds; and one
that saw ACC_NATIVE will find, or has found, the struct completely hooked.

**`HookManagerProofs`** (`TypeCorrect`, `NoWrongCallback`, `OriginalIsOfCallee`,
`CachedAreHooked`, `WrapperStays`), under `DistinctKeys`: `generateKey` tells the methods
apart. `hook_manager_overloads` shows what happens otherwise. `IInv` says of each wrapper
that all its uses (in the cache, in the hands of a registering or an invoking thread, in
its own field) are for one method; of each pair of registrations of one method that
neither counts the other's callback as replaced, and that each puts a wrapper of its
own; of each invocation that what is registered while it runs it may call.

**`InvokeDexProofs`** (`TableTypeCorrect`, `TableIsSound`, `NativesAreInPlace`,
`OnInjectCalledOnce`, `ReinjectionIsHarmless`). The index that the code never checks
leaves the table only after injections from more places than entries, by a pigeonhole
argument (`MorePlaces`): the paths of the counted entries are different places that
injections have used, and the argument's is not among them. `ReinjectionHarmless` has an invariant of its own, `ReInv`,
on top of `IInv`: while one dex at one address has been used and nothing was cut short,
one class at most is loaded and the handler is that class's.

**`PtraceSessionProofs`**, in two layers. `IInv` (`RegistersRestored`, `NoCrash`,
`StackIsKept`): the registers interrupted are in the thread until the tracer saves them
and with the tracer from then on; only one inj is past its attach; the stack pointer
never rises above what was pushed, because rounding to eight and writing in whole words
stay within the room made (`PushBelow`). `SInv` (`TypeCorrect`, `HookIsRun`,
`LeftRunning`) adds how the stops are used up (`SessionInv`): of a session in its n-th
stage, each wait passed has used one stop, either of the n - 1 that the session itself
brings about or of a signal of somebody else, and which calls have run follows from how
many signals it absorbed. An attempt without `FewSignals` fails where five signals end
all five waits; that case is real, and so both properties say how many signals there
are. Stack addresses are integers here: that none is negative is true only of a stack
deep enough for the strings.

**`InjectionProofs`**, about three modules:
- `Injection` (`AttachesToTarget`, `CopyIsCurrent`, `TargetIsFound`). While a scan goes
  on, the name in the buffer is not the target's, so a read that leaves the buffer as it
  was cannot end it; a target that was there throughout is ahead of the cursor; a copy
  with a time stamp later than the apk's is of that apk.
- `RemoteAddress` (`RemoteAddressIsRight`). A process has its linker in one place and no
  two mappings in one (`MapInv`); while its maps are read, the base is ahead of the
  position or has been found, whatever is mapped and unmapped around it (`ReadInv`). The
  difference of the bases then takes an address in inj to that in the target, modulo the
  address space.
- `Loader` (`LoaderTypeCorrect`, `ChainIsSound`, `ChainIsKept`). Nobody else changes the
  chain, so an invoke that found no proxy still finds the application's own parent when
  it inserts one; and as the sense of `catchException` is inverted, no result of a JNI
  call makes it give up (`NeverGivenUp`).

**`ComponentsProofs`**, about four modules, and their run:
- `AtomicCache` (`CacheTypeCorrect`, `LookupsAreRight`, `EntriesAreConsistent`). A thread
  that has read the same even version twice has read keys and value that were in the
  entry together (`Reader`); the thread that holds the odd version is the only one that
  writes (`OneWriter`, `Writer`).
- `IndirectRefs` (`ReferencesTypeCorrect`, `ReferencesAreResolved`). `RefsInv`: the
  segments lie above one another and each knows the number of holes below its bottom, as
  the cardinality of a set (`SegmentsInv`); a reference that is held is that of the
  current use of a slot in its own segment (`HeldInv`); each slot in use below the top
  has one that is held (`UsedInv`), so counting down over holes ends where it should; no
  reference given back resolves (`StaleInv`). Index and serial fit side by side in a
  number because there are at most 65535 entries.
- `ArgBoxing` (`BoxingTypeCorrect`, `CallIsSeen`). `BoxingInv`: there are positions at
  which the arguments begin in the registers, each where the one before it ends
  (`Laid`), and the next to be read is that of the next argument; the boxes made so far
  are those of the values passed (`BoxedInv`). A long is put together from two registers
  and taken apart again for any number of values a register has.
- `DexImage` (`DexItemsAreFound`). `DexInv`: every string, list, set, list of references,
  directory and piece of code that was written stands where its offset says, number by
  number (`StringAt`, `ListAt`, `SetAt`, `RefsAt`, `DirectoryAt`, `CodeAt`), and whatever
  refers to an item by index or offset refers to one that is there. Items are only
  appended (`Grows`), so none moves (`WordStays`); what remains is arithmetic: the two
  bytes of a long string's length, the items of members behind the four numbers of the
  directory, the padding of an odd number of instructions before the tries. It holds for
  any number of strings and code of any length.
- `ComponentsTypeCorrect`: `ComponentsInv`, the conjunction of all invariants of the
  modules whose types the run checks, and bounds for the variables of those that have no type
  invariant of their own.

**`ConcurrentGCProofs`** (`GCTypeCorrect`, `VisitsRight`, `CollectionIsSound`), under
`"mark" \notin BoxingPhases`: no box is stored without a write barrier while the
collector marks. `concurrent_gc_boxing` shows what happens otherwise. `GCInv`:
- `TypesInv`: no object above the highest recorded in a bitmap has its bit set;
- `LinkInv`: a class has objects only when its superclass has been stored, and it stays
  the one `visitObject` walks up to also when the class fails later, so that what is
  visited is all the references of the shape but those `CLASS_ERROR` hides;
- `LiveInv`: what is live contains what the thread holds and is closed under references;
- `MarkInv`: while the collector marks, whatever it has scanned refers to marked objects
  only, or lies on a dirty card, or is the object whose card is about to be marked.
That a whole scan marks all that can be reached is an induction on the number of steps
on a path.

**`VmProofs`**, about the rest of the run `vm`:
- `InterpStack` (`StackTypeCorrect`, `StackIsSound`). `StackInv`: the sizes of a method
  contain its ins, and are the same for a native one, before and after it is hooked
  (`SizesInv`); each frame leads to its caller directly or by a break frame, holds its
  registers, and lies below the save area of all before it (`FramesInv`).
- `FieldAccess` (`FieldsAreKept`). `FieldInv`: the bytes of a field hold the digits of
  what it was last set to. It rests on two facts about `ByteOrder`: bytes put together
  are the number they are the bytes of, and two's complement is undone by it.
- `Packets` (`PacketsAreSound`). `PacketsInv`: there are positions at which the fields
  end in the buffer, and between them each is encoded (`Placed`); the reader is at one
  of them.
- `VmTypeCorrect`: the conjunction of all of these and `GCInv`.

Where an assumption on the constants is more than a type, this is why the code
justifies it:
- `SignalsAssumption`: other signals are neither of the two the model tells apart.
- `IndirectRefsAssumption`: a reference has 16 bits for the index (`IndirectRefTable.h`).
- `LayoutAssumption`, `ShapesAssumption`, `HeapAssumption`: objects are aligned and laid
  out as the class linker does it: what a shape names as class or superclass is a class,
  array classes have an element class and inherit no reference fields, and a reference
  is stored only where the layout has one.
- `BoxingAssumption`, `ByteAssumption`: a register is a whole number of bytes, and a byte
  has an even number of values, so half of them are negative.
- `FieldAssumption`: fields lie behind the object's class and lock (`ObjectSize >= 8`)
  and do not overlap.
- `PacketsAssumption`: characters fit in a byte and are not 0; the length of a text fits
  in the four bytes `expandBufAddUtf8String` has for it.
- `TableAssumption`: the table has an entry at least (0x100 in the code).

Induction: the library's theorems for it take a predicate as a parameter, which none of
the provers here can instantiate. Where a recursive function or a walk of any length
matters, the proofs take the set of numbers for which the statement fails and derive a
contradiction from its least element, which the library's well-foundedness of the
naturals provides (`LeastElement`, `SetInduction`).

The proofs also found definitions whose set operators did not bind as was meant
(`ConcurrentGC`) or bind differently for the two parsers (`Packets`); they are
parenthesised now.

Only model-checked:
- liveness: `HookCompletes`, `InjectorEnds`;
- the properties the six violation runs are about, which do not hold.

## 5. Not modelled

- `JNI_OnLoad`: the linker's dlopen does not call it. `HookHandler` and the two lookups
  behind it in `Hook.java`, `ptrace_mymath_add`, `ptrace_stack_alloc`, `ptrace_readstr`,
  `ptrace_read`, `get_linker_base`, `findClass`: never called. `getHookedCallback` and the
  getters of `HookedMethod` only read.
- Most of the Dalvik headers. They come from the VM's sources and are there to compile
  against: global variables (`Globals.h`), enumerations (`DexOpcodes.h`,
  `JdwpConstants.h`), structs and declarations of functions that are in libdvm.so. Of
  what such a function does a model could only invent the details. What has a body in the
  headers is modelled, but for single assignments and tests of a bit (`CodeVerify.h`,
  `DvmDex.h`, `Exception.h`, the mutex wrappers of `Thread.h`). This is why the map covers
  nearly all of the tool's own code and about a fifth of all lines.
- Allocation failures (`calloc` in `hookMethod` is used unchecked), Java exceptions left
  pending by a failed injection, and the first cmdline buffer of `find_pid_of` before
  anything was read into it, which is uninitialised: the model begins with a name that is
  not the target's.
- `superclassIdx` 0, which `dexGetSuperClassDescriptor` (`DexFile.h`) takes for "no
  superclass" though it is a valid index: `DexImage` has the accessor as it is, and what it
  promises of the superclass's name (`NamesFound`) excepts this index.
- Weak memory: all models of shared memory are sequentially consistent, which can hide
  but never invent an interleaving. `AtomicCache.h` reads with acquire loads; the hook's
  rewriting has no barriers at all.
- Restarting of system calls interrupted by ptrace; the contents of JNI strings; logging.
- Binaries, resources and build files.

## 6. Plan

Done: the tool's own code, and the code in the VM's headers; proofs of every invariant
and action property that a passing run checks.

Possible next steps:
1. An abstract injection that both `PtraceSession` and `InvokeDex` refine: `hook` runs to
   its end, or a prefix of it runs.
2. `MethodHook` and `HookManager` composed, in place of the refinement in between, with
   two HookManager classes in one process.
