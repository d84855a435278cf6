----------------------------- MODULE TraceRender -----------------------------
(***************************************************************************)
(* The calls of va/va.c as threads make them, with the trace functions of  *)
(* va/va_trace.c that call back into the library: va_TraceRenderPicture,   *)
(* va_TraceProcFilterParameterBuffer, va_TraceEventBuffers, va_TraceSurface*)
(* and va_TraceProtectedSessionExecute ask the driver for the type of a    *)
(* buffer, map it, read it and unmap it, through the public functions,     *)
(* which are traced in their turn.  A thread runs the script of its call   *)
(* (VAApi) one step at a time.                                             *)
(***************************************************************************)
EXTENDS VAApi, Integers, SequencesExt

CONSTANTS
  Thread,
  NULL,
  FAILED, PIXELS,      \* a lock that failed, the data of a locked surface
  Buffer,              \* the buffers an application renders with: records
                       \* with their id, their size in bytes and, when they
                       \* are pipeline buffers, the list of their filters
  BufferLists,         \* lists of buffers a vaRenderPicture is given
  DriverHooks,         \* what each driver has besides the checked hooks
  Calls(_),            \* the scripts a thread calls
  VA_TRACE_MAX_SIZE    \* most bytes of one trace event

ASSUME RenderAssumption ==
  /\ NULL \notin Thread
  /\ NULL # FAILED /\ NULL # PIXELS /\ FAILED # PIXELS
  /\ {NULL, FAILED, PIXELS} \cap Buffer = {}
  /\ \A b \in Buffer : b.total \in Nat /\ b.filters \in Seq(Buffer)
  /\ BufferLists \subseteq Seq(Buffer)
  /\ DriverHooks \subseteq SUBSET (OptionalHooks \cup Unchecked)
  /\ VA_TRACE_MAX_SIZE \in Nat /\ VA_TRACE_MAX_SIZE > 16   \* headers of a chunk

VARIABLES
  todo,            \* what is left of the script of each thread
  context_mutex,   \* the thread that holds it, or NULL
  ptr,             \* the pointer each trace function last got from a map,
                   \* or what locking the surface gave
  maps,            \* driver: who mapped which buffer
  locked,          \* driver: the threads whose surface is locked
  open,            \* trace file of events: those of the call that have
                   \* begun and not ended
  dropped,         \* whether one of the call did not get into it
  sent,            \* and the bytes of the current buffer it has
  hooks,           \* the hooks the driver set
  crashed          \* the process called a hook that is not there

vars == <<todo, context_mutex, ptr, maps, locked, open, dropped, sent, hooks, crashed>>

(* The trace functions that map buffers, and the surface.                  *)
Tracer == {"render", "filter", "execute", "event", "surface"}

Init ==
  /\ todo = [t \in Thread |-> << >>]
  /\ context_mutex = NULL
  /\ ptr = [t \in Thread |-> [by \in Tracer |-> NULL]]
  /\ maps = {}
  /\ locked = {}
  /\ open = [t \in Thread |-> << >>]
  /\ dropped = [t \in Thread |-> FALSE]
  /\ sent = [t \in Thread |-> 0]
  /\ hooks \in {CHECK_VTABLE \cup H : H \in DriverHooks}
  /\ crashed = FALSE

-----------------------------------------------------------------------------
(* The steps of these scripts.                                             *)
Reset(by)    == Do("reset", by)             \* pbuf = NULL
Reads(by)    == Do("read", by)             \* reads through the pointer
Iterated(by) == Do("iterated", by)          \* end of a turn of the loop
Map(by, b)   == <<[op |-> "map", arg |-> by, buf |-> b]>>
Unmap(by, b) == <<[op |-> "unmap", arg |-> by, buf |-> b]>>

(* Goes on with the script `of' has for what the pointer is.               *)
Switch(by, of) == <<[op |-> "switch", arg |-> by, of |-> of]>>
IfMapped(by, then, else) == Switch(by, [mapped |-> then, null |-> else])

(* A coded buffer's content is not traced for a buffer id alone: see       *)
(* DPY2TRACECTX in TraceBuffers.                                           *)
vaMapBuffer(by, b)   == Map(by, b) \o VA_TRACE_RET
vaUnmapBuffer(by, b) == Unmap(by, b) \o VA_TRACE_RET

\* Mutant: the buffer is not unmapped after it is printed.
FiltersStayMapped(filters) ==
  FoldRight(LAMBDA f, rest :
              vaBufferInfo \o Reset("filter") \o vaMapBuffer("filter", f)
              \o IfMapped("filter", Reads("filter") \o rest,
                          vaUnmapBuffer("filter", f)),
            filters, << >>)

(* The first buffer that is not a filter, or cannot be mapped, ends the    *)
(* loop.                                                                   *)
va_TraceProcFilterParameterBuffer(filters) ==
  FoldRight(LAMBDA f, rest :
              vaBufferInfo
              \o IF ~f.filter THEN << >>
                 ELSE Reset("filter") \o vaMapBuffer("filter", f)
                      \o IfMapped("filter",
                           Reads("filter") \o vaUnmapBuffer("filter", f) \o rest,
                           vaUnmapBuffer("filter", f)),
            filters, << >>)

\* Mutant: the pointer is set to NULL once, before the loop.
TraceBufferUnreset(b) ==
  vaBufferInfo \o vaMapBuffer("render", b)
  \o IfMapped("render",
       Reads("render") \o va_TraceProcFilterParameterBuffer(b.filters)
       \o Reads("render") \o vaUnmapBuffer("render", b), << >>)

(* One turn of the loop of va_TraceRenderPicture.  A pipeline buffer's     *)
(* filters are printed in the middle of it.                                *)
TraceBuffer(b) ==
  Reset("render") \o vaBufferInfo \o vaMapBuffer("render", b)
  \o IfMapped("render",
       Reads("render") \o va_TraceProcFilterParameterBuffer(b.filters)
       \o Reads("render") \o vaUnmapBuffer("render", b), << >>)

va_TraceRenderPicture(buffers) ==
  FlattenSeq([i \in 1 .. Len(buffers) |-> TraceBuffer(buffers[i])])

-----------------------------------------------------------------------------
VA_TRACE_HEADER_SIZE == 12
BufferHeader == 12           \* type, size and total of a buffer

\* Mutant: the count that goes before the data of a chunk is forgotten.
ChunkWithoutCount(total) == VA_TRACE_MAX_SIZE - VA_TRACE_HEADER_SIZE

(* Most bytes of a buffer in one of several events.                        *)
ChunkSize(total) == VA_TRACE_MAX_SIZE - VA_TRACE_HEADER_SIZE - 4

(* An event with `bytes' of the buffer and `extra' before them.            *)
Data(extra, bytes) ==
  <<[op |-> "data", arg |-> "BUFFER_DATA", extra |-> extra, bytes |-> bytes]>>

DataChunks(total) ==
  FlattenSeq([i \in 1 .. (total + ChunkSize(total) - 1) \div ChunkSize(total) |->
    Data(4, IF i * ChunkSize(total) <= total THEN ChunkSize(total)
            ELSE total % ChunkSize(total))])

BufferData(total) ==
  IF VA_TRACE_HEADER_SIZE + BufferHeader + total <= VA_TRACE_MAX_SIZE
  THEN Data(BufferHeader, total)
  ELSE TRACE_BEGIN_LIST("BUFFER_DATA", BufferHeader) \o DataChunks(total)
       \o TRACE_END("BUFFER_DATA")

(* It never unmaps.                                                        *)
va_TraceEventBuffers(buffers) ==
  FlattenSeq([i \in 1 .. Len(buffers) |->
    Reset("event") \o vaBufferInfo \o vaMapBuffer("event", buffers[i])
    \o IfMapped("event", BufferData(buffers[i].total) \o Iterated("event"),
                << >>)])

VA_TRACE_BUFFERS(buffers) ==
  IF FTRACE /\ BUFDATA THEN va_TraceEventBuffers(buffers) ELSE << >>

vaRenderPicture(buffers) ==
  TRACE_BEGIN_LIST("RENDER_PICTURE", 8 + 4 * Len(buffers))
  \o VA_TRACE_BUFFERS(buffers)
  \o VA_TRACE_LOG(va_TraceRenderPicture(buffers))
  \o Hook("RenderPicture") \o VA_TRACE_RET \o TRACE_END("RENDER_PICTURE")

-----------------------------------------------------------------------------
LockSurface == Hook("LockSurface") \o Do("lockSurface", "surface")
UnlockSurface == Hook("UnlockSurface") \o Do("unlockSurface", "surface")

\* Mutant: a surface that was locked without data is not unlocked.
NullStaysLocked(has_file) ==
  IF ~has_file THEN << >>
  ELSE LockSurface \o VA_TRACE_RET
       \o Switch("surface", [mapped |-> UnlockSurface \o VA_TRACE_RET,
                             null |-> << >>, failed |-> << >>])

va_TraceSurface(has_file) ==
  IF ~has_file THEN << >>
  ELSE LockSurface \o VA_TRACE_RET
       \o Switch("surface", [mapped |-> Reads("surface") \o UnlockSurface \o VA_TRACE_RET,
                             null |-> UnlockSurface \o VA_TRACE_RET,
                             failed |-> << >>])

(* Encoded pictures are read at once, decoded ones when they are done.     *)
va_TraceEndPictureExt(decode, has_file) ==
  (IF decode THEN vaSyncSurface ELSE << >>) \o va_TraceSurface(has_file)

vaEndPicture(decode, has_file) ==
  TRACE_BEGIN("END_PICTURE") \o Hook("EndPicture") \o VA_TRACE_RET
  \o VA_TRACE_ALL(va_TraceEndPictureExt(decode, has_file))
  \o TRACE_END("END_PICTURE")

-----------------------------------------------------------------------------
\* Mutant: the buffer is mapped after the mutex is taken.
ExecuteMapsLocked(b) ==
  Reset("execute") \o Do("lock", "") \o vaBufferInfo \o vaMapBuffer("execute", b)
  \o IfMapped("execute", Reads("execute"), << >>)
  \o Do("unlock", "") \o vaUnmapBuffer("execute", b)

(* Mapped only when it is an execute buffer, unmapped always.              *)
va_TraceProtectedSessionExecute(b) ==
  Reset("execute") \o vaBufferInfo
  \o (IF b.execute THEN vaMapBuffer("execute", b) ELSE << >>)
  \o Do("lock", "") \o IfMapped("execute", Reads("execute"), << >>)
  \o Do("unlock", "") \o vaUnmapBuffer("execute", b)

vaProtectedSessionExecute(b) ==
  Needs("ProtectedSessionExecute",
        VA_TRACE_LOG(va_TraceProtectedSessionExecute(b)) \o VA_TRACE_RET)

AllCalls ==
  PlainCalls \cup ListCalls
             \cup {vaRenderPicture(buffers) : buffers \in BufferLists}
             \cup {vaEndPicture(d, f) : d \in BOOLEAN, f \in BOOLEAN}
             \cup {vaProtectedSessionExecute(b) : b \in Buffer}

ASSUME CallsAssumption == \A t \in Thread : Calls(t) \subseteq AllCalls

-----------------------------------------------------------------------------
Current(t) == Head(todo[t])
At(t, op) == todo[t] # << >> /\ Current(t).op = op
Continue(t, script) == todo' = [todo EXCEPT ![t] = script \o Tail(@)]
Proceed(t) == Continue(t, << >>)

(* An application calls the library.                                       *)
Call(t) ==
  /\ todo[t] = << >>
  /\ \E script \in Calls(t) :
       todo' = [todo EXCEPT ![t] = script \o Do("return", "")]
  /\ UNCHANGED <<context_mutex, ptr, maps, locked, open, dropped, sent, hooks>>

(* The pointers are locals of the call; afterwards the application may     *)
(* destroy its buffers.  What is open is remembered for one call.          *)
Return(t) ==
  /\ At(t, "return") /\ Proceed(t)
  /\ ptr' = [ptr EXCEPT ![t] = [by \in Tracer |-> NULL]]
  /\ open' = [open EXCEPT ![t] = << >>]
  /\ dropped' = [dropped EXCEPT ![t] = FALSE]
  /\ sent' = [sent EXCEPT ![t] = 0]
  /\ maps' = {m \in maps : m.thread # t}
  /\ UNCHANGED <<context_mutex, locked, hooks>>

(* va_TraceEvent drops an event that carries too much.                     *)
Carries(bytes) == VA_TRACE_HEADER_SIZE + bytes <= VA_TRACE_MAX_SIZE

WriteEvent(t, events) ==
  IF Carries(Current(t).bytes)
  THEN open' = [open EXCEPT ![t] = events] /\ UNCHANGED dropped
  ELSE dropped' = [dropped EXCEPT ![t] = TRUE] /\ UNCHANGED open

Begin(t) == /\ At(t, "begin") /\ Proceed(t)
            /\ WriteEvent(t, Append(open[t], Current(t).arg))
            /\ UNCHANGED <<context_mutex, ptr, maps, locked, sent, hooks>>

End(t) == /\ At(t, "end") /\ Proceed(t)
          /\ WriteEvent(t, IF open[t] # << >> /\ Last(open[t]) = Current(t).arg
                           THEN Front(open[t]) ELSE Append(open[t], "unmatched"))
          /\ UNCHANGED <<context_mutex, ptr, maps, locked, sent, hooks>>

(* An event with bytes of a buffer.                                        *)
va_TraceEvent(t) ==
  /\ At(t, "data") /\ Proceed(t)
  /\ sent' = [sent EXCEPT ![t] =
       IF Carries(Current(t).extra + Current(t).bytes)
       THEN @ + Current(t).bytes ELSE @]
  /\ UNCHANGED <<context_mutex, ptr, maps, locked, open, dropped, hooks>>

Driver(t) ==
  /\ At(t, "driver") /\ Current(t).arg \in hooks /\ Proceed(t)
  /\ UNCHANGED <<context_mutex, ptr, maps, locked, open, dropped, sent, hooks>>

(* The pointer to the function is NULL.                                    *)
CallNull(t) ==
  /\ At(t, "driver") /\ Current(t).arg \notin hooks
  /\ crashed' = TRUE
  /\ UNCHANGED <<todo, context_mutex, ptr, maps, locked, open, dropped, sent, hooks>>

TestHook(t) ==
  /\ At(t, "if")
  /\ Continue(t, IF Current(t).arg \in hooks THEN Current(t).then ELSE Current(t).else)
  /\ UNCHANGED <<context_mutex, ptr, maps, locked, open, dropped, sent, hooks>>

Lock(t) == /\ At(t, "lock") /\ context_mutex = NULL /\ Proceed(t)
           /\ context_mutex' = t
           /\ UNCHANGED <<ptr, maps, locked, open, dropped, sent, hooks>>

Unlock(t) == /\ At(t, "unlock") /\ Proceed(t)
             /\ context_mutex' = NULL
             /\ UNCHANGED <<ptr, maps, locked, open, dropped, sent, hooks>>

(* A buffer the driver cannot map leaves the pointer as it is.             *)
MapBuffer(t) ==
  /\ At(t, "map") /\ Proceed(t)
  /\ LET by == Current(t).arg  b == Current(t).buf
     IN  \/ /\ ptr' = [ptr EXCEPT ![t][by] = b]
            /\ maps' = maps \cup {[thread |-> t, by |-> by, buf |-> b.id]}
         \/ UNCHANGED <<ptr, maps>>
  /\ UNCHANGED <<context_mutex, locked, open, dropped, sent, hooks>>

UnmapBuffer(t) ==
  /\ At(t, "unmap") /\ Proceed(t)
  /\ maps' = maps \ {[thread |-> t, by |-> Current(t).arg, buf |-> Current(t).buf.id]}
  /\ UNCHANGED <<context_mutex, ptr, locked, open, dropped, sent, hooks>>

ResetPointer(t) ==
  /\ At(t, "reset") /\ Proceed(t)
  /\ ptr' = [ptr EXCEPT ![t][Current(t).arg] = NULL]
  /\ sent' = [sent EXCEPT ![t] = IF Current(t).arg = "event" THEN 0 ELSE @]
  /\ UNCHANGED <<context_mutex, maps, locked, open, dropped, hooks>>

SwitchOn(t) ==
  /\ At(t, "switch")
  /\ LET p == ptr[t][Current(t).arg]
         is == CASE p = NULL   -> "null"
                 [] p = FAILED -> "failed"
                 [] OTHER      -> "mapped"
     IN  Continue(t, Current(t).of[is])
  /\ UNCHANGED <<context_mutex, ptr, maps, locked, open, dropped, sent, hooks>>

Read(t) == /\ todo[t] # << >> /\ Current(t).op \in {"read", "iterated"}
           /\ Proceed(t)
           /\ UNCHANGED <<context_mutex, ptr, maps, locked, open, dropped, sent, hooks>>

(* A surface may be locked without the driver giving its data.             *)
DriverLockSurface(t) ==
  /\ At(t, "lockSurface") /\ Proceed(t)
  /\ \/ /\ \E data \in {NULL, PIXELS} : ptr' = [ptr EXCEPT ![t]["surface"] = data]
        /\ locked' = locked \cup {t}
     \/ /\ ptr' = [ptr EXCEPT ![t]["surface"] = FAILED]
        /\ UNCHANGED locked
  /\ UNCHANGED <<context_mutex, maps, open, dropped, sent, hooks>>

DriverUnlockSurface(t) ==
  /\ At(t, "unlockSurface") /\ Proceed(t)
  /\ locked' = locked \ {t}
  /\ UNCHANGED <<context_mutex, ptr, maps, open, dropped, sent, hooks>>

Step(t) ==
  \/ Call(t) \/ Return(t) \/ Begin(t) \/ End(t) \/ va_TraceEvent(t) \/ Driver(t)
  \/ TestHook(t) \/ Lock(t) \/ Unlock(t) \/ MapBuffer(t) \/ UnmapBuffer(t)
  \/ ResetPointer(t) \/ SwitchOn(t) \/ Read(t)
  \/ DriverLockSurface(t) \/ DriverUnlockSurface(t)

(* Nothing more happens in a process that died.                            *)
Dead == crashed /\ UNCHANGED vars

Next ==
  \/ \E t \in Thread : ~crashed /\ Step(t) /\ UNCHANGED crashed
  \/ \E t \in Thread : ~crashed /\ CallNull(t)
  \/ Dead

Spec == Init /\ [][Next]_vars

-----------------------------------------------------------------------------

(* A trace function reads through a pointer only while the buffer it came  *)
(* from is mapped by that function, however many buffers the picture has   *)
(* and whichever of them the driver could not map.                         *)
ReadsMapped ==
  \A t \in Thread : At(t, "read") /\ Current(t).arg # "surface" =>
    LET by == Current(t).arg
    IN  /\ ptr[t][by] # NULL
        /\ [thread |-> t, by |-> by, buf |-> ptr[t][by].id] \in maps

(* When a call is over, the trace of its buffers has left none mapped; the *)
(* trace of events is another matter, see EventMapsReturned.               *)
MapsReturned ==
  \A m \in maps : m.by # "event" => ~At(m.thread, "return")

(* When a call is over, the surface that was dumped is not locked, whether *)
(* or not the driver gave its data.                                        *)
SurfaceReturned == \A t \in locked : ~At(t, "return")

(* Tools that read the events find an end for every beginning, properly    *)
(* nested, on every way out of a call, unless the call was given a list    *)
(* too long for an event: va_TraceEvent then leaves a beginning or an end  *)
(* out (va_trace.c:7685-7702), and the other one stands alone.             *)
EventsNest ==
  \A t \in Thread : ~dropped[t] =>
    /\ \A i \in 1 .. Len(open[t]) : open[t][i] # "unmatched"
    /\ At(t, "return") => open[t] = << >>

(* All the bytes of a mapped buffer are in the events, in one or in        *)
(* several: no chunk is too big for va_TraceEvent, none is left out.       *)
BufferDataWhole ==
  \A t \in Thread : At(t, "iterated") => sent[t] = ptr[t]["event"].total

(* No trace function takes context_mutex when it already holds it, through *)
(* a public function it calls: the mutex is not recursive, and the thread, *)
(* and with it every other, would wait forever.                            *)
NoSelfLock == \A t \in Thread : At(t, "lock") => context_mutex # t

(* The library calls no hook that the driver did not set: those it makes   *)
(* sure of when it opens the driver, the others it tests at every call.    *)
(* The five it does neither for are the only ones a process can die of.    *)
HookPresent ==
  \A t \in Thread :
    At(t, "driver") => Current(t).arg \in hooks \cup Unchecked

(* va.h:4004-4008 says that a mapped buffer has to be unmapped: the trace  *)
(* of events unmaps those it maps as the trace of pictures does.           *)
EventMapsReturned ==
  \A m \in maps : m.by = "event" => ~At(m.thread, "return")
=============================================================================
