# A TLA+ verification project for libva

libva is the user-space library that dispatches VA-API calls to a video driver.
The drivers do the work; what libva itself has to get right is the life of a
display (finding, opening, checking and closing a driver), its connection to the
window system, and a tracer that wraps every call: it keeps tables of contexts,
configs, buffers and log files under concurrent calls, and it maps, prints and
unmaps the application's buffers in the middle of them.  These modules model that
logic, TLC checks it on small instances, and TLAPS proves, for every instance, the
safety properties of all of them: the tracer's tables, the scripts of the calls and
their dumps, the buffer table, the display, GLX and the back ends, and two
refinements.  Source paths are relative to the
repository.

## 1. Inventory

| Component | State | Operations | What is hard | What makes it correct |
|---|---|---|---|---|
| Display lifecycle, `va/va.c` | `VADisplayContext`, `VADriverContext`: vtables, `handle`, callbacks, `override_driver_name`, `vatrace` | `vaGetDisplay*`, `vaInitialize`, `vaSetDriverName`, `vaSet*Callback`, `vaTerminate` | several candidate drivers in several directories, each failing at a different point; a second `vaInitialize` after a failed one | hooks of an initialised display are present and the driver's own; one reference to one library; the status tells the truth; everything is given back |
| API dispatch, `va/va.c` | none of its own | some 60 traced functions and more that pass through | optional hooks, chains of fallbacks, trace events on every way out | no missing hook is called but the five that nothing makes sure of; events nest |
| Tracer tables, `va/va_trace.c` | `ptra_ctx`, `context_num`, `config_info`, `log_file` under `resource_mutex`; the virtual context under `context_mutex` | `va_TraceCreate/DestroyContext`, `va_TraceCreate/DestroyConfig`, `DPY2TRACECTX` in every call on a context | the driver reuses an id before the thread that destroyed the object has told the tracer; data read outside a mutex; failing `calloc` and `fopen` | a live context is found; nothing is freed twice or while in use; log files are counted; every call returns |
| Trace buffers, `va/va_trace.c` | `buf_manager`: hash table of levels allocated on demand | `va_TraceCreate/Destroy/MapBuffer` | colliding ids, full buckets, ids reused on other contexts, entries never deleted | at most one entry per id; no buffer taken for another context's |
| Dumps of pictures, `va/va_trace.c` | `trace_profile`, `trace_slice_size` | `va_TraceRenderPicture` and the printers of each codec | which struct a buffer holds depends on profile, type and size; array bounds come from counts in the buffer; the size of a slice comes from an earlier buffer | a buffer is printed as what it is and not past its end |
| Dumps and events, `va/va_trace.c` | maps and locks in the driver, open events | `va_TraceRenderPicture`, `va_TraceEventBuffers`, `va_TraceSurface`, `va_TraceProtectedSessionExecute` | buffers are mapped through the public API in the middle of another call, one in the middle of another | each map has its unmap; the chunks of an event add up to the buffer; no thread waits for itself |
| X11 backend, `va/x11/` | `dri_state`: descriptor, `auth_type`, DRI2 hooks, table of drawables | `va_DRI3_/va_DRI2_GetDriverNames`, `va_dri_get_drawable`, `va_dri_free_drawable`, `va_DisplayContextDestroy` | fallbacks DRI3, DRI2, NV-CONTROL, FGLRX; retries; numbers of closed descriptors | a driver runs with an open descriptor of its display; each is closed; no freed drawable is used |
| Wayland backend, `va/wayland/` | `opaque` context of the back end in use, `drm_state`, queue, registry and device objects | create and destroy of the back ends, registry and device events | events during roundtrips; each back end overwrites what the one before left | no event is lost; what failed back ends had is given back |
| DRM backend, `va/drm/` | `drm_state` | connect, authenticate, driver names | legacy nodes need a magic and an authentication by X11 or the master; a driver requested by name is opened without it | `auth_type` tells the driver the truth |
| GLX, `va/glx/` | `VASurfaceGLX`, its GL context, the X error trap | create, copy and destroy surfaces | every entry point switches the GL context; X, GL and the driver fail at any step | the context, the bindings and the handler are as before on return |
| Attribute conversion, `va/va.c` | none | `va_impl_query_surface_attributes`, `vaQuerySurfaceAttributes` | old and new driver interfaces | the list returned is the driver's |
| Names, NV-CONTROL, FGLRX, Win32 | none to speak of | string tables, X requests, adapter enumeration | | |

The components call each other synchronously.  `va.c` calls the backend through
`vaGetDriverNames` and `vaDestroy`, the driver through the vtables, and the
tracer before and after the driver; the tracer calls the public functions of
`va.c` for the buffers it prints; the driver calls back into `va.c` for messages
and into the X11 backend for drawables.  The shared state is the display, the
tracer's tables and two mutexes, the X error handler and, between displays, the
descriptor table of the process.  Nothing in libva itself starts a thread, so the
concurrency is that of the application's calls.

## 2. Modules

| Module | Models | Uses |
|---|---|---|
| `TraceLogFiles` | the per-thread log files as functions from one table to the next | |
| `VATrace` | contexts, configs and log files of one display under concurrent calls | `TraceLogFiles` |
| `VATraceInv` | the inductive invariants of `VATrace` | `VATrace` |
| `VATraceProof` | proofs: types, the context table and the log files | `VATraceInv`, `LeastElement` |
| `MCVATrace` | symmetry sets for TLC | `VATraceInv` |
| `BufferRegistry` | abstract: the context each buffer was recorded with | |
| `TraceBuffers` | the buffer hash table and the trace functions that search it; implements `BufferRegistry` | `BufferRegistry` |
| `TraceBuffersProof`, `LeastElement` | its invariants and the refinement; least elements of sets of naturals, and what follows of glued lists | `TraceBuffers`, TLAPS |
| `DriverSlot` | abstract: a display has no driver or one | |
| `Display` | driver loading, retries and termination, with its inductive invariant; implements `DriverSlot` | `DriverSlot` |
| `DisplayProof` | the proof of that invariant, of what follows from it, and of the refinement | `Display`, TLAPS |
| `VAApi` | the functions of `va.c` as scripts of steps | |
| `TraceRender` | threads that run the scripts, with the trace functions that call back | `VAApi` |
| `TraceRenderProof` | a logic of triples for scripts, one lemma per call, the machine's invariant and its seven properties | `TraceRender`, `LeastElement` |
| `MCTraceRender` | buffers, lists and calls for TLC | `TraceRender` |
| `VAStructs` | the arrays of each buffer struct of the headers | |
| `TracePrinters` | the printers of each codec: the struct they read, and how far | `VAStructs` |
| `TracePictures` | an application that sends pictures, and the dispatch of its buffers | `TracePrinters` |
| `TracePicturesProof` | the invariant of the dumps, with one lemma per printer | `TracePictures`, `LeastElement` |
| `MCTracePictures` | the profiles for TLC | `TracePictures` |
| `VAGlx` | GLX surfaces, GL contexts and the X error trap | |
| `VAGlxProof` | its inductive invariant and the proofs of its properties | `VAGlx`, TLAPS |
| `DescriptorTable` | the descriptor table of a process | |
| `X11Display`, `WaylandDisplay`, `DrmDisplay` | the devices of displays of each window system, X11 drawables | `DescriptorTable` |
| `Backends` | displays of all window systems in one process | the three above |
| `BackendsProof` | who owns which descriptor, and what is on which queue: the invariant and its proof | `Backends`, `LeastElement` |

### VATrace

A thread's call is a sequence of steps; `pc[t]` and `loc[t]` are its place and its
locals, under the names of the C variables where there are any (`idx` is
`tra_ctx_id` or `ctx_id`, `obj` the `trace_ctx` in hand, `old` the one
`internal_TraceUpdateContext` took out).  One step is at most one critical section
of `resource_mutex`, with what only this thread or the holder of `context_mutex`
touches: `get_free_ctx_idx`, the slot update, one `stop_tracing2log_file` each are
separate steps, and the unlocked reads of `DPY2TRACECTX` and of `refresh_log_file`
are steps of their own, so that other threads come between.  The order "driver
first, tracer afterwards" of `vaDestroyContext` and `vaDestroyConfig` is what makes
the interesting interleavings: the driver may hand out an id again in between.

`drv_context` and `drv_config` say what the driver and the application know of an
id.  An application uses one context from one thread at a time (`busy`), which is
what `va.h:151` asks of it, and destroys no config a thread is creating a context
from.  `heap` says whether the memory of a `trace_context` is allocated.  `entry` is
a history variable: the `trace_context` recorded for a context id since it was last
created.  The LOG flag, allocation failures, `fopen` failures and driver failures are
switches of the configuration.

Data is abstracted to what the properties tell apart: a profile stands for
profile, entrypoint and attributes of a config; the name and the pointer of a log
file are two Booleans; what is printed is left out.

### TraceBuffers and BufferRegistry

Same style, with the contexts fixed: those in `Traced` have a `trace_context`.
`pbuf_info` is the array of levels, a level is a function on hash values, and the
hash is the id modulo the size, as the mask of the code is.  The trace of
`vaDestroyBuffer` runs before the driver's function, that of `vaCreateBuffer` and
`vaMapBuffer` after it.  `BufferRegistry` is what the callers of the table expect:
a map from buffer ids to contexts from which nothing is forgotten, because the
deletion in `va_TraceDestroyBuffer` is never reached.  The refinement mapping reads
the context of an id with the code's own search.

### Display and DriverSlot

One thread initialises a display; the alternatives of the actions are the answers
of the driver, the loader and the allocator.  `vtable` records which library set each
hook, so that a hook left by another candidate can be told from an own one;
`opened` counts the references of `dlopen`; `allocated` counts the blocks the library
has not freed.  `Hook` and `Required` stand for the entries of `VADriverVTable` and
for those `CHECK_VTABLE` tests.  `va_openDriver`'s loop over the directories is
`NextDir`, the rest of a round `DriverInit`, which is the driver's init function and
the checks.  The three vtables are one, which is missing when any of the three
could not be allocated.  Calling `vaInitialize` while a driver is open is left out.
`DriverSlot` is what the application sees of all this: `handle` is the slot.

### VAApi and TraceRender

Every function of `va.c` is a script in `VAApi`: trace events at its ends, the hooks
it tests, the driver's functions, `context_mutex`.  In `TraceRender` a thread has a
list of steps to do, `todo`, and takes one at a time; a branch puts the rest of its
script in front.  `vaMapBuffer`, called by the tracer for a buffer the application
renders with, is the same script again, trace events included.  `maps` and `locked`
are the driver's record of who mapped what; `ptr` holds the local pointers of the
trace functions; `hooks` are the hooks of the driver, those `va_openDriver` checks (`CHECK_VTABLE`) and one
of the sets in `DriverHooks`.  Five hooks are neither checked when the driver is opened
nor tested when they are called (`Unchecked`: `BufferInfo`, `QuerySurfaceError`,
`LockSurface`, `UnlockSurface`, `PutSurface`); a driver may lack them, and a process that
calls one that is missing dies (`CallNull`, `crashed`).  The tracer calls `BufferInfo` and
`LockSurface` in calls that do not need them.  `open` has the events in the file that
have begun and not ended.  A step that writes an event says how many bytes it carries; those of
a list, which the application may make as long as it likes, depend on one of the
`ListLengths`.  `va_TraceEvent` drops an event of more than `VA_TRACE_MAX_SIZE` bytes, and
`dropped` remembers this until the call is over.  A pipeline buffer maps its filters while it is itself
mapped.  Buffers are records with a size and a list of filters.

### VAStructs, TracePrinters and TracePictures

`VAStructs` has the structs of the public headers with the dimensions of their
arrays, `TracePrinters` one operator per printer of `va_trace.c` that says which
struct the printer casts the buffer to and the extents it prints of every array,
as a function of the counts in the buffer; an extent the code clamps is clamped.
A struct nested in another has its arrays beside those of the outer one (`Nests`).
`TracePictures` has the application, which sends what the headers tell it to send
for a profile, the switch on profile and type in `va_TraceRenderPicture`, and
`trace_slice_size`, the one value that passes from one buffer to a later one.

### VAGlx

A call of `va_glx_impl.c` goes through the places of `pc[t]`; each GL or X request
may fail.  `current` is the GL context current in each thread; a context can be
current in one thread only, so that a call on a surface in use fails (`SurfaceBusy`).
`bound` says what the driver's X pixmap is bound to in fact, `is_bound` what the
structure says.  The error trap is two static variables, `handler` and
`old_error_handler`; `overlapped` is a history variable that says whether two threads
were inside it at once.  The errors of a request that is followed by `XSync` arrive in its
own trap.  Others arrive later, when any thread reads from the connection (`LateError`):
that of `glXCreatePixmap`, which `create_tfp_surface` does not wait for
(`va_glx_impl.c:571-580`), and those of requests made without a trap.  A trap that is set at
that time takes them for its own; `misread`, another history variable, has the
surfaces whose bind this happened to.  Calls are made with the application's context current, a
surface is destroyed when no other call works on it, and a display is destroyed
after its surfaces.

### DescriptorTable, X11Display, WaylandDisplay, DrmDisplay and Backends

`file` is the descriptor table of the process: `open` takes the lowest free number,
`close` asks nobody.  An open that fails later in the same function is an
alternative that leaves the table as it was.

An X11 display's thread goes through `dri3`, `dri2`, `other` and `open`; `dri2Close`
and `va_DisplayContextDestroy` are two steps, as other displays may open a file
between them.  All drawables have one hash value: `chain` is their bucket.

A Wayland display has two queues of events, its own and the default one, which the
application's event pump empties in another thread.  `wl_display_get_registry` and the
handlers append the events their requests cause; a roundtrip is a `sync` event at
the end of the queue, so what a handler asks for comes after the roundtrip that is
under way.  `offers` is what the compositor has, and `faults` remembers whether a
step failed.  A display whose context of `wl_drm` could not be allocated ends as
"crashed", since the destroy function writes to that context all the same
(`va_wayland_drm.c:150`).

A DRM display's descriptor is the application's, from `vaGetDisplayDRM` to its own
`close`; the kernel's record that a primary node is authenticated is the `node` of
the file.  When the authentication fails there are no driver names, but a name that the
application or the environment requests is opened all the same (`va.c:668-701`), on a
node that was not authenticated; `auth_type` is then `NONE`.

`Backends` interleaves the three over one table.

## 3. Runs

| Run | Instance | Checks |
|---|---|---|
| `tables` | 2 threads, 3 context ids, 1 config id, 2 slots, 4 addresses, all failures; no log files | `TypeOK`, `ContextNumIsOccupied`, `EntryIsFound`, `FreedOnce` |
| `log_files` | 2 threads, 2 files, 1 context id, 2 slots, failing `calloc` and `fopen`; use counts to 4; fairness | `LogFilesCounted`, `WritesToOpenFile`, `OneFilePerThread`, `FileKeepsThread`, `MutexReleased`, `CallsReturn` |
| `buffers` | 3 ids with the same hash value, 2 levels, 2 traced contexts and an untraced one, failing `calloc` | `TypeOK`, `OneEntry`, `OwnContext`, `ImplementsRegistry` |
| `display` | 2 drivers, 2 directories, 2 hooks, 2 attempts, 2 names, `LIBVA_DRIVER_NAME` set or not | `TypeOK`, `HooksPresent`, `OneReference`, `StatusTellsOpen`, `ResourcesCleaned`, `OverrideWins`, `ImplementsSlot` |
| `render` | 2 threads, one with every call of `va.c`; buffer sizes on both sides of one and two event chunks; pipelines with right and wrong filters; lists of 1 and 300 entries; drivers with all, no and some optional hooks, and without each of the unchecked ones; all traces on | `ReadsMapped`, `MapsReturned`, `SurfaceReturned`, `EventsNest`, `BufferDataWhole`, `NoSelfLock`, `HookPresent` |
| `printers` | every profile of `va.h`, every buffer type its codec may send, counts 0, 4, 14 and 31 (limits, and over them where the trace clamps), up to 2 slices of 3 sizes in a buffer | `WithinStruct`, `OwnStruct`, `SliceDataShown` |
| `glx` | 2 threads, 2 surfaces, a failure at every step, errors of other requests in every trap | `ContextReturned`, `PutUnbound`, `StateBalanced`, `ObjectsOwned`, `HandlerRestored` |
| `backends` | an X11 display initialised up to twice with 2 drawables, a Wayland and a DRM display, any two of them at a time, 3 descriptors, every compositor and every failure | `DriverHasDevice`, `DescriptorsReturned`, `DrawablesOwned`, `DisplayGiven` |

Why the bounds are enough.  Two threads are an owner and one that is late; three
ids with two slots let an id be reused while another context is live, and let a
context find the table full; four addresses are the virtual context, one per slot
and one in hand; only with two full slots and a thread that still holds a freed
`trace_context` does `calloc` have no choice but to fail (the other runs have five).
Two buffers with one hash value fill a bucket of two levels and the third finds it
full.  Two drivers in two directories give every pair "failed candidate, next
candidate", and two attempts every pair "failed attempt, next attempt".  In `render`
the second thread is there for the mutex only; a thread's calls are independent of
its earlier ones but for what they leave mapped, locked or open, which the
properties forbid; a list of 300 entries is too long for every event that carries one,
a list of one entry for none.  In `printers` the extents are linear in the counts, so the limits
and their neighbours decide.  In `backends` the window systems meet only in the
descriptor table: two displays are the one that closes and the one that has been
given the number, and three numbers are those of two displays and the one that a
second `vaInitialize` loses.  The bounds on use counts, attempts, names and displays
only stop a new call from starting; a call that has started is always finished.
`Bounds` of `Backends` also ends a behaviour with the second close of a DRI2
descriptor, after which nothing can be said (see `x11_close` below).

`CHECK_DEADLOCK FALSE` is in the runs whose behaviours end: counters at their bound, a
terminated display.  `render` and `glx` check deadlock.

Fairness (`log_files`).  A thread inside a call keeps running, `WF_vars(Continue(t))`; the
operating system schedules it and no step of the tracer waits for the application.
No call has to start.  Weak fairness does not give a waiting thread the mutex when
other threads go on making calls forever, and a POSIX mutex does not either, so
`CallsReturn` says that calls return once new ones stop.

### Disagreements found

| Run | What it shows |
|---|---|
| `live_context` | A call on a live context looks up a slot, releases `resource_mutex` and then reads it; the slot may hold an older `trace_context` with the same id, which its late destroyer frees while the call goes on with it (`va.h:147`). |
| `stale_hooks` | A driver that opens after a failed candidate keeps the failed one's optional hooks, in a library that was closed (`va_backend.h:525`). |
| `x11_close` | `vaTerminate` closes the DRI2 descriptor twice; the second time it may be another display's (`va.h:147`). |
| `event_maps` | The trace of events maps every buffer of a `vaRenderPicture` and unmaps none (`va.h:4004`). |

The first needs an explanation, since `EntryIsFound` holds: it speaks of entries that
were recorded.  When `va_TraceCreateContext` of the new context fails (no memory, no
slot), or before it has run, the id is live and the entry of the older context
still answers for it.

Others are in the models without a run of their own:

- `va_TraceMapBuffer` always returns early, because `DPY2TRACECTX` compares the context
  it found with the argument `VA_INVALID_ID`; `LIBVA_TRACE_CODEDBUF` saves nothing,
  although `va_trace.c:100` describes it.  Theorem `NothingDumped` proves it.
- `va_TraceDestroyConfig` deletes by id after the driver released it, so the entry of a
  new config with that id can be lost (`va_trace.c:367`; action in `VATrace`).
- A driver's message goes through the NULL callback that `va.c:153` describes as a way
  to turn logging off (`va.c:268`; action `DriverMessage` in `Display`).

Some properties are stated with the condition under which the code keeps them.
`ResourcesCleaned` speaks of displays that were initialised and named once: a name set
twice and the trace state of a failed `vaInitialize` are not freed.
`DescriptorsReturned` speaks, for X11, of displays initialised once: a second
`vaInitialize` overwrites the descriptor that DRI3 or DRI2 gave the first, and nobody
closes it; for Wayland it allows a feedback object to stay when a step failed.
`DriverHasDevice` speaks of the time before a display that used DRI2 is destroyed, and
for DRM of displays with an `auth_type`: a driver that was requested by name is opened
on a primary node that nobody authenticated, and has to find that out.
`PutUnbound` and `HandlerRestored` hold as long as no two error traps overlapped.
`PutUnbound` leaves out surfaces whose bind met the error of another request besides:
`bind_pixmap` then takes the pixmap it has bound for one it could not bind, and
the next copy puts a surface in it without unbinding it.
`EventsNest` speaks of calls none of whose events was too big: `va_TraceEvent` drops a
`BEGIN` or an `END` with too long a list (`va_trace.c:7685-7702`; vaCreateConfig,
vaQuerySurfaceAttributes, vaCreateSurfaces, vaDestroySurfaces, vaCreateContext,
vaRenderPicture), and the other one then stands alone in the file.
`HookPresent` says that the five hooks of `Unchecked` are the only ones that can be called
when the driver did not set them; a process whose driver lacks one of them does call
it (`va.c:1512`, `1718`, `2212`, `2228`, `va_x11.c:182`), with tracing on also from
`vaRenderPicture`, `vaProtectedSessionExecute` and `vaEndPicture`.
`DrawablesOwned` says that no freed drawable is in the table; the drawables behind one
that was freed leave the table without being freed (`va_dricommon.c:96`).

## 4. Proofs

The proofs hold for every value of the constants under the assumptions that the
modules name, all of which TLC evaluates: table sizes are positive, ids are naturals,
`NULL`, `NoThread`, `VA_INVALID_ID` and "nobody" differ from what they are mixed with,
the hooks a driver must have are hooks, bounds and lengths are naturals, the table of descriptors
is a finite set of naturals, displays of different window systems are different
(`OwnersAssumption`), slices are not empty (`PicturesAssumption`), what a pointer
holds when it is not a buffer differs from buffers, and an event is larger than its
header (`RenderAssumption`), and a thread calls functions of `va.c`
(`CallsAssumption`).  None of them bounds the counts in a buffer, its size, the length
of a list, or the number of threads, contexts, surfaces or displays.

**Context table** (`VATraceProof`).  `EntryIsFound` and
`FreedOnce` are not inductive.  That a late destroyer does not take out the entry
of a new context rests on the test of `created_thd_id`, and that test is enough
only because the creator of the entry cannot itself be late with the same id: a
thread is in one call at a time.  `IInv` says this for every place of a call:

- `MutexInv`: a thread between `LOCK_CONTEXT` and `UNLOCK_CONTEXT` holds the mutex, so
  slots change in one thread at a time;
- `UsersInv`: of the threads that work on an id at most one works on a live
  context, all others are late with a destroyed one;
- `Own`, `SlotsInv`: the `trace_context`s in slots, taken out, and in hand are distinct
  and allocated;
- `Idx`: what a lookup found under the mutex stays true until the slot is written;
- `EntryKept`: no thread that is late with the id created the entry, and a call that
  has looked the id up has found the entry.

`Inductive` proves `[]IInv` by one lemma per action; `EntryFound`, `FreedOnceCorrect`
and `ContextNumCorrect` follow, the last with an invariant on `context_num` alone.
`TypeCorrect` is proved first because the others use it.

**Log files** (`VATraceProof`).  `OneFile` and `KeepsThread` say that no two log files
belong to one thread and that a file in use does not change its thread, which is
what allows `refresh_log_file` to read `thread_id` unlocked.  `LogFilesCounted` needs more:
that a destroyed context takes back exactly the uses it counted.  `LogInv` is the
inductive form:

- `ListInv`: the list of a `trace_context` has one entry at most, entry 0, because the
  test in `refresh_log_file` that would add a second one never succeeds
  (`va_trace.c:770`);
- `CountInv`: the `trace_context`s that list a file, or write to it from the table, and
  the threads that have counted a use and not yet stored it, are finitely many, and
  together no more than the file's use count; the file is open when the count is not 0;
- `FileLocal`: a `trace_context` that is being created is known to its creator alone and
  writes to the file that it lists.

A step adds no use, or counts one in `start_tracing2log_file`, or passes one from a
thread to a `trace_context`, or takes one back.  That the users are finitely many is
part of the invariant, so that nothing is assumed of `Thread` and `Address`.
`FilesCounted` and `FileIsOpen` follow from `LogInv` and `IInv`.

**Trace buffers** (`TraceBuffersProof`).  The table is a hash table with levels, and
that a search stops at the first level that is missing is right only when levels
and slots are filled from the first one on.  `Table` collects this: `TypeOK`; `Dense`,
levels are allocated and the slots of a hash value taken in order; `Placed`, a slot
holds an id with its hash value; `Unique`, no id is in two slots.  `Working`
says that a call has its buffer to itself, `Known` that what the table says of a
buffer of a traced context, unless it is just being created, is that context or
nothing.  `IInv == Table /\ Working /\ Known` is inductive, and gives
`SearchIsComplete`, `BuffersKeepContext`, the refinement `RegistryImplemented`, and that
nothing is dumped, `NothingDumped`.  The search for the first free slot is a `Min`, whose
existence `LeastElement` derives from the well-foundedness of the naturals.

**Display** (`DisplayProof`).  `HooksPresent`, `OneReference` and `StatusTellsOpen` are
inductive together with what `vaInitialize` may rely on at each place: a library is
being tried in `init` only, no driver is open during the loop, a success that
reaches the end of the loop was not that of `vaGetDriverNames`.  `SlotImplemented`
follows: of all steps only the last of a successful search changes the slot.

`ResourcesCleaned` is about the end of a display's life; `Held` says at all times which
blocks a display has: the trace state when there is one, the name when one is set, and
neither after `vaTerminate`.  `OverrideWins` is an action property; `OnlyRequested` says
that while an override is set the candidates left are that name or none, and that the
library being tried is the first candidate's.

**GLX** (`VAGlxProof`).  A call may fail at any of its GL and X requests, and what it then
has to undo depends on where it failed.
`IInv == TypeOK /\ Ownership /\ TrapInv /\ PixmapInv`:

- `Ownership`: a surface in a call is in the call of one thread only, since the call
  has the surface's GL context current; the place of the call determines which
  objects the surface has and how many matrices are pushed;
- `TrapInv`: the handler that a thread in a trap will restore is the application's, as
  long as no two traps overlapped;
- `PixmapInv`: under the same condition, a pixmap that is bound is recorded as bound in
  its structure, except between the request that bound it and the end of its trap,
  and except for the surfaces in `misread`.

`ContextReturned`, `StateBalanced`, `ObjectsOwned`, `HandlerRestored` and `PutUnbound`
follow.

**Back ends** (`BackendsProof`).  The displays of a process share nothing but the
descriptor table, where a number means whatever was opened last.  `IInv` has three
parts: what is true of each display by itself (`X11Local`, `WlLocal`); who owns which
number (`X11Owns`, `WlOwns`, `DrmOwns`); and, for Wayland, what is still to come on the
queue of the display.  The second holds until a number has been closed twice: the
run `x11_close` shows that it does not hold after that.  A step of owner o
`Touches(o)`: it changes numbers only that are o's or closed.  One frame lemma per
window system says that the displays of others keep what they own over such a step,
so that each action is only proved to keep the invariant of its own display.
`DriverHasDevice`, `DescriptorsReturned` and `DrawablesOwned` follow.

`DisplayGiven` says that no event is lost.  `QueueInv` says that an event that opens the
device, and one that ends the feedback, comes once at most and before its effect;
`ProgressInv` that, if nothing failed and the compositor has what the back end needs,
the event that the back end waits for is on the queue, before the `sync` that ends the
roundtrip.  A handler that made its request after that `sync` would break the
invariant.

**Dumps of pictures** (`TracePicturesProof`).  The constants leave open which profiles
there are, which counts stand in a buffer, how many elements it has and how many
slices were announced before.  `PicturesInv` is `SizeKept`, `WithinStruct`, `OwnStruct` and
`SliceDataShown`.  `SliceDataShown` needs the first: slices are announced inside of a
picture only, and while the profile is one whose dumps use it, `trace_slice_size` is
the size of the last of them.  The tracer sets the size in a loop over the elements,
the application announces the elements one by one, and both end with the same slice.

The other two come down to each printer.  `Fine(prints, names)` says that a printer shows
structs it was sent and stays in their arrays, and there is one lemma per codec,
`FineH264` to `FineProc`, with a case per buffer type.  Where the code clamps, or the
headers bound, a count, the lemma gets from that bound to the dimension; where
neither does, it would fail.  `FineElement` joins them along the switch of
`va_TraceRenderPicture`, `ShowFine` carries the result over all elements of a buffer.

What is printed of a buffer is glued together with `FlattenSeq`, and tiles and
partitions are added up with `FoldSeq`.  `FlattenDefined` and `SumsDefined` show that the
recursive functions behind the two exist, `FlattenTyped` that gluing keeps what holds
of each part, `SumBounds` that a sum is bounded by its parts.  The library's induction
theorem is out of reach of the provers, so each assumes a counterexample and takes a
least one, with `MinIsLeast`.

**Calls and their traces** (`TraceRenderProof`).  What a thread does in a call is a script
of steps that `VAApi` and `TraceRender` build from smaller ones: one after the other, in
an `if` that is opened when the thread gets there, in a loop over a list of buffers, or
in a loop over the chunks of an event.  The properties speak of states, and each of them
needs to know what the rest of the script will do.  The module therefore has a small
program logic:

- `Local(t, g)` is what thread t sees of the state: its pointers, its maps, what it holds,
  its open events `g[t]`, the bytes it has sent, and the hooks.  `Moves` says what one step
  does to that, and `Right` when a step does not break a property: a read has its
  buffer mapped, a lock is not held, an `end` has its `begin`, a hook is there, the
  chunks add up.
- `Triple(P, s, Q)`: from a state in P the script s takes steps that are `Right` only, and
  if it ends it ends in Q.  A triple is witnessed by a set of states, each with the
  script that is left, closed under steps (`Safe`); so it needs no recursion over
  scripts, and holds however long they are.
- There is a rule for each way of building a script: `NothingRule`, `StepRule`,
  `ThenRule`, `ChoiceRule`, `FlattenRule`, `LoopRule`, `FiltersRule`.  Those for lists assume a
  counterexample and take the shortest.

`Base(o)` is the set of states with the events o open, nothing held, and nothing mapped
but by the trace of events, which never unmaps (`event_maps`); `Steady(s)` says that s
leads from `Base(o)` to `Base(o)` for every o.  `CallsSteady` has a step for each function
of `va.c`, on top of a lemma per trace function.  Two of these are the reason for the
logic.  A pipeline buffer maps, prints and unmaps its filters while it is mapped
itself, and may not get some of them: `Apart(by, P)` says that P leaves the pointer of one
trace function open, so that the other's triples can run inside its own.  And `va_TraceEventBuffers` cuts a buffer into
chunks: `ChunkArithmetic` shows that n - 1 full chunks and the last one add up
to the whole size, when the size is a multiple of a chunk too.

An event that was dropped would leave the open events in the file out of step with the
script.  The invariant therefore speaks of the events that would be open if none had been
dropped, a ghost `g`, which `Told` says are those in the file as long as none was.
`RenderInv` says that there is such a `g`, and that every thread is between calls, in
`Base(<< >>)`, or in the middle of a script with a triple from what it sees now to
`Base(<< >>)`.  It is kept by the thread's own steps since triples are closed under them,
and by the steps of others since these change nothing that it sees.  All seven
properties follow, as a wrong step would not be `Right`.  `RenderInv` quantifies over sets of
states and scripts, which TLC cannot enumerate: TLC checks the properties, in
`render`, and the proof the invariant.

**Only model-checked.**

- `CallsReturn` and `MutexReleased` of `log_files`: liveness under fairness.
- The four properties that the code does not have (`Disagreements found`).

## 5. Not modelled

- Scalar fields of the buffers, wording and layout of what the tracer prints, string
  tables (`va_str.c`), version macros: no behaviour beyond the text.
- Slices sent in base mode (`VA_DEC_SLICE_MODE_BASE`), where a buffer holds the short
  form of a struct.
- Which entries of a list mean something: `va_trace.c:4362` prints
  `offset_for_ref_frame` up to `max_num_ref_frames`, which is not the count of that
  list but stays inside the array, and that is what is checked.
- The files of `LIBVA_TRACE_SURFACE`, of which `TraceRender` has only the locks, and the
  size product of `va_TraceEventBuffers` as a 32-bit number: buffers that large do not
  come from a driver.
- The values `va_impl_query_surface_attributes` converts; `VAApi` has the hooks it calls.
- Callbacks replaced while another thread uses them, and callbacks that call the
  library: no document says they may.
- Overlapping error traps beyond the conditions named above, a GLX display that is
  destroyed while it has surfaces, GLX calls without a current context.
- DRI2 buffers and swaps, replies of the X extensions, NV-CONTROL and FGLRX, the
  symbols `va_drm_auth_x11.c` looks up: requests that succeed or fail, without state.
- The removal of Wayland globals, whose handlers have no effect before the display is
  given, after which nobody dispatches the queue; the EMGD back end, which is only
  built with `HAVE_EMGD`.
- Win32: adapter enumeration through D3D, no state after the display is made.

## 6. Plan

Every safety property of a run that passes is a theorem.  What is left:

1. Properties for the hazards that have none, above all the deletion of configs by id
   (`va_trace.c:367`).
2. The parts of section 5 that have state of their own: DRI2 buffers, the EMGD back end,
   and callbacks that are replaced while they are called.
