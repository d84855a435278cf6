---------------------------- MODULE TraceBuffers ----------------------------
(***************************************************************************)
(* The buffer table of va/va_trace.c: which context a buffer was created   *)
(* on, for the trace functions that are given only a buffer id.  A hash    *)
(* table of a few levels; a level is allocated when one is first needed.   *)
(* The contexts that have a trace_context are fixed here (VATrace has the  *)
(* rest of their life); each section of resource_mutex is one step.        *)
(***************************************************************************)
EXTENDS Integers, FiniteSets, FiniteSetsExt

CONSTANTS
  Thread, VAContextID,
  Traced,               \* the contexts va_TraceCreateContext recorded
  VABufferID,
  VA_INVALID_ID, NULL,
  MAX_TRACE_BUF_INFO_HASH_SIZE, MAX_TRACE_BUF_INFO_HASH_LEVEL,
  CallocMayFail

ASSUME BufferAssumption ==
  /\ Traced \subseteq VAContextID
  /\ VA_INVALID_ID \notin VAContextID
  /\ VABufferID \subseteq Nat
  /\ NULL \notin VABufferID
  /\ MAX_TRACE_BUF_INFO_HASH_SIZE \in Nat \ {0}
  /\ MAX_TRACE_BUF_INFO_HASH_LEVEL \in Nat \ {0}
  /\ CallocMayFail \in BOOLEAN

VARIABLES
  pbuf_info,   \* by level: NULL, or an entry for each hash value
  buffer,      \* driver and application: the state of every buffer id
  pc, arg,     \* where each thread is and the buffer it works on
  dumped       \* history: coded buffers whose content went to the file

vars == <<pbuf_info, buffer, pc, arg, dumped>>

Level == 0 .. MAX_TRACE_BUF_INFO_HASH_LEVEL - 1
Hash  == 0 .. MAX_TRACE_BUF_INFO_HASH_SIZE - 1
hash(b) == b % MAX_TRACE_BUF_INFO_HASH_SIZE

BufInfo == [valid : BOOLEAN, buf_id : VABufferID \cup {NULL},
            ctx_id : VAContextID \cup {VA_INVALID_ID}]
NoInfo  == [valid |-> FALSE, buf_id |-> NULL, ctx_id |-> VA_INVALID_ID]
NewLevel == [h \in Hash |-> NoInfo]

ASSUME NullAssumption == NULL \notin [Hash -> BufInfo]

(* "free" is not live in the driver; "busy" has a call on it; a mapped     *)
(* buffer stays mapped until vaUnmapBuffer.                                *)
Buffer == [state : {"free", "busy", "idle", "mapped"},
           context : VAContextID \cup {VA_INVALID_ID}, coded : BOOLEAN]
NoBuffer == [state |-> "free", context |-> VA_INVALID_ID, coded |-> FALSE]

Init ==
  /\ pbuf_info = [i \in Level |-> NULL]
  /\ buffer = [b \in VABufferID |-> NoBuffer]
  /\ pc = [t \in Thread |-> "idle"]
  /\ arg = [t \in Thread |-> NULL]
  /\ dumped = {}

-----------------------------------------------------------------------------
(* The levels a search for b visits: those before the first one missing.   *)
Visited == {i \in Level : \A j \in 0 .. i : pbuf_info[j] # NULL}

Entry(i, b) == pbuf_info[i][hash(b)]
IsOf(info, b) == info.valid /\ info.buf_id = b

\* Mutant: any valid entry of the hash value.
AnyOfHash(b) ==
  LET found == {i \in Visited : Entry(i, b).valid}
  IN  IF found = {} THEN VA_INVALID_ID ELSE Entry(Min(found), b).ctx_id

get_ctx_by_buf(b) ==
  LET found == {i \in Visited : IsOf(Entry(i, b), b)}
  IN  IF found = {} THEN VA_INVALID_ID ELSE Entry(Min(found), b).ctx_id

\* Mutants: a slot of the same buffer is passed over; every slot is taken;
\* arguments swapped.
Unused(info, b)   == ~info.valid
AnySlot(info, b)  == TRUE
SwappedInfo(c, b) == [valid |-> TRUE, buf_id |-> c, ctx_id |-> b]

(* An entry that add_trace_buf_info does not pass over.                    *)
Usable(info, b) == ~info.valid \/ info.buf_id = b

Info(c, b) == [valid |-> TRUE, buf_id |-> b, ctx_id |-> c]

(* The table with buffer b recorded at the first level that has room, or   *)
(* that is missing and can be allocated; `ok' is what calloc answers.      *)
add_trace_buf_info(c, b, ok) ==
  LET level(i) == IF pbuf_info[i] = NULL THEN NewLevel ELSE pbuf_info[i]
      room == {i \in Level : Usable(level(i)[hash(b)], b)}
      i == Min(room)
  IN  IF room = {} \/ (~ok /\ pbuf_info[i] = NULL) THEN pbuf_info
      ELSE [pbuf_info EXCEPT ![i] = [level(i) EXCEPT ![hash(b)] = Info(c, b)]]

delete_trace_buf_info(b) ==
  LET found == {i \in Visited : IsOf(Entry(i, b), b)}
  IN  IF found = {} THEN pbuf_info
      ELSE [pbuf_info EXCEPT ![Min(found)][hash(b)].valid = FALSE]

(* DPY2TRACECTX: the id of the trace_context a trace function goes on      *)
(* with, or VA_INVALID_ID when it returns.  `context' is the argument of   *)
(* the macro, which is also what the trace_context's id is compared with.  *)
DPY2TRACECTX(context, b) ==
  LET ctx_id == IF context = VA_INVALID_ID THEN get_ctx_by_buf(b) ELSE context
  IN  IF ctx_id \in Traced /\ ctx_id = context THEN ctx_id ELSE VA_INVALID_ID

-----------------------------------------------------------------------------
Step(t, from, to) == pc[t] = from /\ pc' = [pc EXCEPT ![t] = to]

Call(t, b, to) == /\ Step(t, "idle", to)
                  /\ arg' = [arg EXCEPT ![t] = b]

Done(t, b, state) == /\ arg' = [arg EXCEPT ![t] = NULL]
                     /\ buffer' = [buffer EXCEPT ![b].state = state]

(* vaCreateBuffer and vaCreateBuffer2: the driver's part.                  *)
DriverCreateBuffer(t) ==
  \E b \in VABufferID, c \in VAContextID, coded \in BOOLEAN :
    /\ buffer[b].state = "free"
    /\ buffer' = [buffer EXCEPT ![b] = [state |-> "busy", context |-> c,
                                        coded |-> coded]]
    /\ Call(t, b, "add")
    /\ UNCHANGED <<pbuf_info, dumped>>

va_TraceCreateBuffer(t) ==
  LET b == arg[t] c == buffer[b].context
  IN  /\ Step(t, "add", "idle")
      /\ \E ok \in IF CallocMayFail THEN BOOLEAN ELSE {TRUE} :
           pbuf_info' = IF DPY2TRACECTX(c, VA_INVALID_ID) = VA_INVALID_ID
                        THEN pbuf_info ELSE add_trace_buf_info(c, b, ok)
      /\ Done(t, b, "idle")
      /\ UNCHANGED dumped

(* vaMapBuffer and vaMapBuffer2: the driver's part.                        *)
DriverMapBuffer(t) ==
  \E b \in VABufferID :
    /\ buffer[b].state = "idle"
    /\ buffer' = [buffer EXCEPT ![b].state = "busy"]
    /\ Call(t, b, "map")
    /\ UNCHANGED <<pbuf_info, dumped>>

(* LIBVA_TRACE_CODEDBUF: the segments of a coded buffer go to the file.    *)
va_TraceMapBuffer(t) ==
  LET b == arg[t]
  IN  /\ Step(t, "map", "idle")
      /\ dumped' = IF /\ DPY2TRACECTX(VA_INVALID_ID, b) # VA_INVALID_ID
                      /\ buffer[b].coded
                   THEN dumped \cup {b} ELSE dumped
      /\ Done(t, b, "mapped")
      /\ UNCHANGED pbuf_info

vaUnmapBuffer(t) ==
  \E b \in VABufferID :
    /\ pc[t] = "idle"
    /\ buffer[b].state = "mapped"
    /\ buffer' = [buffer EXCEPT ![b].state = "idle"]
    /\ UNCHANGED <<pbuf_info, pc, arg, dumped>>

(* vaDestroyBuffer traces before it calls the driver.                      *)
va_TraceDestroyBuffer(t) ==
  \E b \in VABufferID :
    /\ buffer[b].state = "idle"
    /\ buffer' = [buffer EXCEPT ![b].state = "busy"]
    /\ pbuf_info' = IF DPY2TRACECTX(VA_INVALID_ID, b) = VA_INVALID_ID
                    THEN pbuf_info ELSE delete_trace_buf_info(b)
    /\ Call(t, b, "destroy")
    /\ UNCHANGED dumped

DriverDestroyBuffer(t) ==
  /\ Step(t, "destroy", "idle")
  /\ arg' = [arg EXCEPT ![t] = NULL]
  /\ buffer' = [buffer EXCEPT ![arg[t]] = NoBuffer]
  /\ dumped' = dumped \ {arg[t]}
  /\ UNCHANGED pbuf_info

Next == \E t \in Thread :
  \/ DriverCreateBuffer(t)    \/ va_TraceCreateBuffer(t)
  \/ DriverMapBuffer(t)       \/ va_TraceMapBuffer(t)
  \/ vaUnmapBuffer(t)
  \/ va_TraceDestroyBuffer(t) \/ DriverDestroyBuffer(t)

Spec == Init /\ [][Next]_vars

-----------------------------------------------------------------------------
(* Every variable has its type.                                            *)
TypeOK ==
  /\ pbuf_info \in [Level -> {NULL} \cup [Hash -> BufInfo]]
  /\ buffer \in [VABufferID -> Buffer]
  /\ pc \in [Thread -> {"idle", "add", "map", "destroy"}]
  /\ arg \in [Thread -> VABufferID \cup {NULL}]
  /\ dumped \subseteq VABufferID

(* A buffer id has one entry at most, in the place its hash says, and no   *)
(* level below a missing one exists: a search that stops at the first hit  *)
(* or at the first missing level misses nothing.                           *)
OneEntry ==
  /\ \A i \in Level : pbuf_info[i] # NULL => i \in Visited
  /\ \A i \in Visited, h \in Hash : LET info == pbuf_info[i][h]
       IN  info.valid => /\ hash(info.buf_id) = h
                         /\ \A j \in Visited : IsOf(pbuf_info[j][h], info.buf_id) => i = j

(* A buffer of a traced context is never taken for a buffer of another     *)
(* context, although its id was used before, on other contexts, and other  *)
(* buffers with its hash value come and go: it is found or it is unknown.  *)
OwnContext ==
  \A b \in VABufferID :
    buffer[b].state \in {"idle", "mapped"} /\ buffer[b].context \in Traced
      => get_ctx_by_buf(b) \in {buffer[b].context, VA_INVALID_ID}

(* The table implements a registry of the buffers: recording one buffer    *)
(* changes no other's entry, at whatever level each is and whichever       *)
(* level could not be allocated.                                           *)
Registry == INSTANCE BufferRegistry
  WITH context <- [b \in VABufferID |-> get_ctx_by_buf(b)]
ImplementsRegistry == Registry!Spec
=============================================================================
