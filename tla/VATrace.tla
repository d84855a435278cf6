------------------------------ MODULE VATrace ------------------------------
(***************************************************************************)
(* The tables that libva's tracer keeps for one VADisplay (va/va_trace.c), *)
(* under concurrent API calls (va/va.c).  A thread makes one call at a     *)
(* time: it calls the driver, then the trace function of the call, then    *)
(* va_TraceStatus.  The driver owns the ids and may hand an id out again   *)
(* as soon as its own destroy function has returned, before the thread     *)
(* that destroyed the object has told the tracer.                          *)
(*                                                                         *)
(* A step is at most one critical section of resource_mutex, together with *)
(* accesses to data only the holder of context_mutex, or only this thread, *)
(* can touch.  Threads use one context at a time each, as va.h asks.       *)
(***************************************************************************)
EXTENDS TraceLogFiles

CONSTANTS
  VAContextID, VAConfigID,  \* ids the driver hands out
  VAProfile,                \* what a configuration is made for
  VA_INVALID_ID,
  MAX_TRACE_CTX_NUM,        \* slots for contexts, and for configurations
  Address,                  \* addresses calloc returns for a trace_context
  VirtualCtx,               \* the one va_TraceInit allocated
  LogOn,                    \* LIBVA_TRACE names a file: VA_TRACE_FLAG_LOG
  CallocMayFail, FopenMayFail,
  DriverMayFail,
  MaxUsed                   \* no call starts once a file is used this often

ASSUME TraceAssumption ==
  /\ MAX_TRACE_CTX_NUM \in Nat \ {0}
  /\ VirtualCtx \in Address
  /\ NULL \notin Address \cup Thread \cup VAContextID
  /\ VA_INVALID_ID \notin VAContextID \cup VAConfigID
  /\ NULL \notin VAProfile
  /\ {LogOn, CallocMayFail, FopenMayFail, DriverMayFail} \subseteq BOOLEAN
  /\ MaxUsed \in Nat

VARIABLES
  drv_config,     \* driver and application: state of every config id
  drv_context,    \* the same for every context id
  ptra_ctx,       \* va_trace: the context slots, the last is the virtual one
  context_num,
  config_info,
  log_file,
  context_mutex,  \* the thread that holds it, or NULL
  heap,           \* the trace_context structures, by address
  pc, loc,        \* where each thread is and its local variables
  entry           \* history: the trace_context of a live context id, from
                  \* va_TraceCreateContext to the driver's destroy

vars == <<drv_config, drv_context, ptra_ctx, context_num, config_info,
          log_file, context_mutex, heap, pc, loc, entry>>

tables  == <<ptra_ctx, context_num>>
handles == <<drv_config, drv_context, entry>>

CtxIdx  == 0 .. MAX_TRACE_CTX_NUM - 1
Virtual == MAX_TRACE_CTX_NUM

(* "free" is not live in the driver; "busy" is live and a call is using it *)
(* (or creating it); "idle" is live, known to the application, unused.     *)
HandleState == {"free", "busy", "idle"}

TraceContext ==
  [mem : {"allocated", "freed"}, trace_context : VAContextID \cup {VA_INVALID_ID, NULL},
   created_thd_id : Thread \cup {NoThread}, plog_file : LogIdx \cup {NULL},
   plog_file_list : [LogIdx -> LogIdx \cup {NULL}]]

NoList  == [i \in LogIdx |-> NULL]
(* calloc leaves created_thd_id 0; NULL stands for trace_context 0, an id  *)
(* that no driver in this model hands out.                                 *)
Zeroed  == [mem |-> "allocated", trace_context |-> NULL,
            created_thd_id |-> NoThread, plog_file |-> NULL, plog_file_list |-> NoList]
Freed   == [Zeroed EXCEPT !.mem = "freed"]

Local == [c : VAContextID \cup {NULL},
          g : VAConfigID \cup {VA_INVALID_ID}, p : VAProfile \cup {NULL},
          idx : CtxIdx \cup {Virtual}, obj : Address \cup {NULL},
          old : Address \cup {NULL}, file : LogIdx \cup {NULL},
          after : {"idle", "free"}]
NoLocal == [c |-> NULL, g |-> VA_INVALID_ID, p |-> NULL, idx |-> Virtual,
            obj |-> NULL, old |-> NULL, file |-> NULL, after |-> "free"]

(* The locals of a call on a config g or a context c; after is the state   *)
(* of the handle when the call returns, as far as this call is concerned.  *)
OnConfig(g, p, after)  == [NoLocal EXCEPT !.g = g, !.p = p, !.after = after]
OnContext(c, g, after) == [NoLocal EXCEPT !.c = c, !.g = g, !.after = after]

ConfigInfo == [valid : BOOLEAN, config_id : VAConfigID \cup {VA_INVALID_ID},
               trace_profile : VAProfile \cup {NULL}]
NoConfig == [valid |-> FALSE, config_id |-> VA_INVALID_ID, trace_profile |-> NULL]

-----------------------------------------------------------------------------
(* Table lookups; each is one section of resource_mutex.                   *)

Least(S) == IF S = {} THEN MAX_TRACE_CTX_NUM ELSE Min(S)

\* Mutant: the loop compares the index with <= and not <.
LoopsTooFar(c) ==
  LET found == {i \in CtxIdx \cup {Virtual} :
                  ptra_ctx[i] = NULL \/ heap[ptra_ctx[i]].trace_context = c}
  IN  IF found = {} THEN MAX_TRACE_CTX_NUM + 1 ELSE Min(found)

get_free_ctx_idx(c) ==
  Least({i \in CtxIdx : \/ ptra_ctx[i] = NULL
                        \/ heap[ptra_ctx[i]].trace_context = c})

get_valid_ctx_idx(c) ==
  Least({i \in CtxIdx : /\ ptra_ctx[i] # NULL
                        /\ heap[ptra_ctx[i]].trace_context = c})

get_valid_config_idx(g) ==
  Least({i \in CtxIdx : config_info[i].valid /\ config_info[i].config_id = g})

add_trace_config_info(g, p) ==
  LET i == Least({j \in CtxIdx : \/ ~config_info[j].valid
                                 \/ config_info[j].config_id = g})
  IN  IF i \notin CtxIdx THEN config_info
      ELSE [config_info EXCEPT ![i] = [valid |-> TRUE, config_id |-> g,
                                       trace_profile |-> p]]

delete_trace_config_info(g) ==
  LET i == get_valid_config_idx(g)
  IN  IF i \notin CtxIdx THEN config_info
      ELSE [config_info EXCEPT ![i].valid = FALSE,
                               ![i].config_id = VA_INVALID_ID]

(***************************************************************************)
(* refresh_log_file for a trace_context o of thread t, when start_tracing  *)
(* returned file f.  The loop leaves i at the thread's own entry or at the *)
(* length of the list; the code compares it with > and not >=.             *)
(***************************************************************************)
SwitchLogFile(o, t, f) ==
  LET list == o.plog_file_list
      own  == {k \in LogIdx : list[k] # NULL /\ log_file[list[k]].thread_id = t}
      i    == IF own # {} THEN Min(own) ELSE MAX_TRACE_THREAD_NUM
      none == {k \in LogIdx : list[k] = NULL /\ k < i}
  IN  IF f = NULL THEN o
      ELSE IF i > MAX_TRACE_THREAD_NUM /\ none # {}
      THEN [o EXCEPT !.plog_file = f, !.plog_file_list[Min(none)] = f]
      ELSE [o EXCEPT !.plog_file = f]

(* The unlocked test of refresh_log_file: another thread wrote last.       *)
OthersLogFile(o, t) == /\ o.plog_file # NULL
                       /\ log_file[o.plog_file].thread_id # t

Fopen == IF FopenMayFail THEN BOOLEAN ELSE {TRUE}

-----------------------------------------------------------------------------
(* va_TraceInit has run in some thread and left the LOG flag as LogOn.     *)
InitBy(t) ==
  /\ drv_config = [g \in VAConfigID |-> [state |-> "free", profile |-> NULL]]
  /\ drv_context = [c \in VAContextID |-> "free"]
  /\ ptra_ctx = [i \in CtxIdx \cup {Virtual} |->
                   IF i = Virtual THEN VirtualCtx ELSE NULL]
  /\ context_num = 0
  /\ config_info = [i \in CtxIdx |-> NoConfig]
  /\ log_file = [i \in LogIdx |-> IF LogOn /\ i = 0 THEN Opened(t)
                                  ELSE NoLogFile]
  /\ context_mutex = NULL
  /\ heap = [a \in Address |->
               IF a # VirtualCtx THEN Freed
               ELSE [Zeroed EXCEPT
                       !.trace_context = VA_INVALID_ID,
                       !.plog_file = IF LogOn THEN 0 ELSE NULL,
                       !.plog_file_list[0] = IF LogOn THEN 0 ELSE NULL]]
  /\ pc = [u \in Thread |-> "idle"]
  /\ loc = [u \in Thread |-> NoLocal]
  /\ entry = [c \in VAContextID |-> NULL]

Init == \E t \in Thread : InitBy(t)

Goto(t, label) == pc' = [pc EXCEPT ![t] = label]

(* A call starts: the thread is idle and no use count is at its bound.     *)
MayCall(t) == /\ pc[t] = "idle"
              /\ \A i \in LogIdx : log_file[i].used < MaxUsed

-----------------------------------------------------------------------------
(* Functions traced through the virtual context (DPY2TRACE_VIRCTX).        *)

(* LOCK_CONTEXT and refresh_log_file of the virtual context, whose fields  *)
(* only the holder of context_mutex reads or writes.                       *)
EnterVirtual(t, from, to) ==
  /\ pc[t] = from
  /\ context_mutex = NULL
  /\ context_mutex' = t
  /\ \E ok \in Fopen :
       LET o == heap[ptra_ctx[Virtual]]
           r == start_tracing2log_file(log_file, t, ok)
       IN  IF OthersLogFile(o, t)
           THEN /\ log_file' = r.table
                /\ heap' = [heap EXCEPT ![ptra_ctx[Virtual]] =
                              SwitchLogFile(o, t, r.plog_file)]
           ELSE UNCHANGED <<log_file, heap>>
  /\ Goto(t, to)
  /\ UNCHANGED <<tables, handles, config_info, loc>>

(* vaCreateConfig: the driver's part.  A driver that fails leaves the      *)
(* caller's VA_INVALID_ID, and the trace function runs all the same.       *)
DriverCreateConfig(t) ==
  /\ MayCall(t)
  /\ \E p \in VAProfile :
       \/ \E g \in VAConfigID :
            /\ drv_config[g].state = "free"
            /\ drv_config' = [drv_config EXCEPT ![g] =
                                [state |-> "busy", profile |-> p]]
            /\ loc' = [loc EXCEPT ![t] = OnConfig(g, p, "idle")]
       \/ /\ DriverMayFail
          /\ loc' = [loc EXCEPT ![t] = OnConfig(VA_INVALID_ID, p, "free")]
          /\ UNCHANGED drv_config
  /\ Goto(t, "add_config_lock")
  /\ UNCHANGED <<drv_context, entry, tables, config_info, log_file,
                 context_mutex, heap>>

va_TraceCreateConfig(t) ==
  /\ pc[t] = "add_config"
  /\ config_info' = add_trace_config_info(loc[t].g, loc[t].p)
  /\ context_mutex' = NULL
  /\ Goto(t, "status_lock")
  /\ UNCHANGED <<handles, tables, log_file, heap, loc>>

(* vaDestroyConfig, which the application calls when no thread is creating *)
(* a context from the config; if the driver fails the config stays live.   *)
DriverDestroyConfig(t) ==
  /\ MayCall(t)
  /\ \E g \in VAConfigID :
       /\ drv_config[g].state = "idle"
       /\ \A u \in Thread : loc[u].g = g => loc[u].c = NULL
       /\ \/ /\ drv_config' = [drv_config EXCEPT ![g] =
                                [state |-> "free", profile |-> NULL]]
             /\ loc' = [loc EXCEPT ![t] = OnConfig(g, NULL, "free")]
          \/ /\ DriverMayFail
             /\ drv_config' = [drv_config EXCEPT ![g].state = "busy"]
             /\ loc' = [loc EXCEPT ![t] = OnConfig(g, NULL, "idle")]
  /\ Goto(t, "delete_config_lock")
  /\ UNCHANGED <<drv_context, entry, tables, config_info, log_file,
                 context_mutex, heap>>

va_TraceDestroyConfig(t) ==
  /\ pc[t] = "delete_config"
  /\ config_info' = delete_trace_config_info(loc[t].g)
  /\ context_mutex' = NULL
  /\ Goto(t, "status_lock")
  /\ UNCHANGED <<handles, tables, log_file, heap, loc>>

(* va_TraceStatus ends every call; then the call returns to the            *)
(* application, which may use a handle that is live again.                 *)
va_TraceStatus(t) ==
  /\ pc[t] = "status"
  /\ context_mutex' = NULL
  /\ drv_config' = [g \in VAConfigID |->
                      IF loc[t].after = "idle" /\ loc[t].g = g
                      THEN [drv_config[g] EXCEPT !.state = "idle"]
                      ELSE drv_config[g]]
  /\ drv_context' = [c \in VAContextID |->
                       IF loc[t].after = "idle" /\ loc[t].c = c THEN "idle"
                       ELSE drv_context[c]]
  /\ loc' = [loc EXCEPT ![t] = NoLocal]
  /\ Goto(t, "idle")
  /\ UNCHANGED <<entry, tables, config_info, log_file, heap>>

-----------------------------------------------------------------------------
(* vaCreateContext and va_TraceCreateContext.                              *)

(* The driver's part.  va_TraceCreateContext returns at once for an        *)
(* invalid id, which is what a driver that fails leaves.                   *)
DriverCreateContext(t) ==
  /\ MayCall(t)
  /\ \E g \in VAConfigID :
       /\ drv_config[g].state = "idle"
       /\ \/ \E c \in VAContextID :
               /\ drv_context[c] = "free"
               /\ drv_context' = [drv_context EXCEPT ![c] = "busy"]
               /\ loc' = [loc EXCEPT ![t] = OnContext(c, g, "idle")]
               /\ Goto(t, "create_lock")
          \/ /\ DriverMayFail
             /\ Goto(t, "status_lock")
             /\ UNCHANGED <<drv_context, loc>>
  /\ UNCHANGED <<drv_config, entry, tables, config_info, log_file,
                 context_mutex, heap>>

(* LOCK_CONTEXT, the free slot, calloc and the lookup of the config: the   *)
(* tables read here change only under context_mutex.                       *)
CreateLock(t) ==
  /\ pc[t] = "create_lock"
  /\ context_mutex = NULL
  /\ context_mutex' = t
  /\ LET idx  == get_free_ctx_idx(loc[t].c)
         free == {a \in Address : /\ heap[a].mem = "freed"
                                  /\ \A u \in Thread : loc[u].obj # a}
     IN  \/ /\ \/ idx \notin CtxIdx
               \/ CallocMayFail \/ free = {}
            /\ loc' = [loc EXCEPT ![t] = [@ EXCEPT !.idx = idx]]
            /\ Goto(t, "create_fail")
            /\ UNCHANGED heap
         \/ \E a \in free :
              /\ idx \in CtxIdx
              /\ heap' = [heap EXCEPT ![a] = Zeroed]
              /\ loc' = [loc EXCEPT ![t] = [@ EXCEPT !.idx = idx, !.obj = a]]
              /\ Goto(t, IF get_valid_config_idx(loc[t].g) \notin CtxIdx
                         THEN "create_fail"
                         ELSE IF LogOn THEN "create_log" ELSE "create_update")
  /\ UNCHANGED <<handles, tables, config_info, log_file>>

(* start_tracing2log_file for the new trace_context.                       *)
CreateLog(t) ==
  /\ pc[t] = "create_log"
  /\ \E ok \in Fopen :
       LET r == start_tracing2log_file(log_file, t, ok)
           f == r.plog_file
           o == heap[loc[t].obj]
       IN  /\ log_file' = r.table
           /\ heap' = [heap EXCEPT ![loc[t].obj] =
                [o EXCEPT !.plog_file = f,
                          !.plog_file_list = [o.plog_file_list EXCEPT ![0] = f]]]
           /\ Goto(t, IF f = NULL THEN "create_fail" ELSE "create_update")
  /\ UNCHANGED <<handles, tables, config_info, context_mutex, loc>>

NeverOccupied(i) == 0   \* mutant: a trace_context taken out is not counted
Occupied(i) == IF ptra_ctx[i] = NULL THEN 0 ELSE 1

NotEmptied(i) == ptra_ctx   \* mutant: the slot keeps its pointer
Emptied(i) == [ptra_ctx EXCEPT ![i] = NULL]

(* internal_TraceUpdateContext with a new trace_context: it takes the slot *)
(* from any trace_context there, which is then freed.                      *)
CreateUpdate(t) ==
  /\ pc[t] = "create_update"
  /\ LET i == loc[t].idx  a == loc[t].obj
     IN  /\ ptra_ctx' = [ptra_ctx EXCEPT ![i] = a]
         /\ context_num' = context_num - Occupied(i) + 1
         /\ heap' = [heap EXCEPT ![a] = [@ EXCEPT !.trace_context = loc[t].c,
                                               !.created_thd_id = t]]
         /\ loc' = [loc EXCEPT ![t] = [@ EXCEPT !.old = ptra_ctx[i], !.obj = NULL,
                                              !.idx = Virtual]]
         /\ entry' = [entry EXCEPT ![loc[t].c] = a]
  /\ Goto(t, "reap")
  /\ UNCHANGED <<drv_config, drv_context, config_info, log_file, context_mutex>>

(* FAIL: internal_TraceUpdateContext with no new trace_context and         *)
(* destroy_flag set empties the slot, if there is one.                     *)
CreateFail(t) ==
  /\ pc[t] = "create_fail"
  /\ LET i == loc[t].idx
     IN  IF i \in CtxIdx
         THEN /\ ptra_ctx' = Emptied(i)
              /\ context_num' = context_num - Occupied(i)
              /\ loc' = [loc EXCEPT ![t] = [@ EXCEPT !.old = ptra_ctx[i],
                                                   !.idx = Virtual]]
         ELSE UNCHANGED <<ptra_ctx, context_num, loc>>
  /\ Goto(t, "reap")
  /\ UNCHANGED <<handles, config_info, log_file, context_mutex, heap>>

(* The rest of internal_TraceUpdateContext stops the log files listed by   *)
(* the trace_context it took out, one section of resource_mutex each (the  *)
(* entry is dropped here to mark it done), and frees it.                   *)
Listed(a) == {k \in LogIdx : heap[a].plog_file_list[k] # NULL}

Reap(t) ==
  /\ pc[t] = "reap"
  /\ LET a == loc[t].old
     IN  IF a # NULL /\ Listed(a) # {}
         THEN /\ LET k == Min(Listed(a))
                 IN  /\ log_file' = stop_tracing2log_file(log_file,
                                       heap[a].plog_file_list[k])
                     /\ heap' = [heap EXCEPT ![a].plog_file_list =
                                            [@ EXCEPT ![k] = NULL]]
              /\ UNCHANGED <<loc, pc>>
         ELSE /\ heap' = IF a = NULL THEN heap
                         ELSE [heap EXCEPT ![a] = Freed]
              /\ loc' = [loc EXCEPT ![t] = [@ EXCEPT !.old = NULL]]
              /\ Goto(t, "unlock")
              /\ UNCHANGED log_file
  /\ UNCHANGED <<handles, tables, config_info, context_mutex>>

\* Mutant: after FAIL the call returns without UNLOCK_CONTEXT.
FailKeepsMutex(t) ==
  /\ pc[t] = "unlock"
  /\ context_mutex' = IF loc[t].obj = NULL THEN NULL ELSE t
  /\ heap' = IF loc[t].obj = NULL THEN heap
             ELSE [heap EXCEPT ![loc[t].obj] = Freed]
  /\ loc' = [loc EXCEPT ![t] = [@ EXCEPT !.obj = NULL]]
  /\ Goto(t, "status_lock")
  /\ UNCHANGED <<handles, tables, config_info, log_file>>

(* UNLOCK_CONTEXT; after FAIL the new trace_context is freed as well.      *)
Unlock(t) ==
  /\ pc[t] = "unlock"
  /\ context_mutex' = NULL
  /\ heap' = IF loc[t].obj = NULL THEN heap
             ELSE [heap EXCEPT ![loc[t].obj] = Freed]
  /\ loc' = [loc EXCEPT ![t] = [@ EXCEPT !.obj = NULL]]
  /\ Goto(t, "status_lock")
  /\ UNCHANGED <<handles, tables, config_info, log_file>>

-----------------------------------------------------------------------------
(* vaDestroyContext and va_TraceDestroyContext.                            *)

DriverDestroyContext(t) ==
  /\ MayCall(t)
  /\ \E c \in VAContextID :
       /\ drv_context[c] = "idle"
       /\ entry' = [entry EXCEPT ![c] = NULL]
       /\ \/ /\ drv_context' = [drv_context EXCEPT ![c] = "free"]
             /\ loc' = [loc EXCEPT ![t] = OnContext(c, VA_INVALID_ID, "free")]
          \/ /\ DriverMayFail
             /\ drv_context' = [drv_context EXCEPT ![c] = "busy"]
             /\ loc' = [loc EXCEPT ![t] = OnContext(c, VA_INVALID_ID, "idle")]
  /\ Goto(t, "destroy_lock")
  /\ UNCHANGED <<drv_config, tables, config_info, log_file, context_mutex, heap>>

(* LOCK_CONTEXT, the lookup and the read of the slot.                      *)
DestroyLock(t) ==
  /\ pc[t] = "destroy_lock"
  /\ context_mutex = NULL
  /\ context_mutex' = t
  /\ LET idx == get_valid_ctx_idx(loc[t].c)
     IN  IF idx \in CtxIdx
         THEN /\ loc' = [loc EXCEPT ![t] = [@ EXCEPT !.idx = idx, !.obj = ptra_ctx[idx]]]
              /\ Goto(t, "destroy_refresh")
         ELSE /\ Goto(t, "unlock")
              /\ UNCHANGED loc
  /\ UNCHANGED <<handles, tables, config_info, log_file, heap>>

AnyTakesOut(t, a) == TRUE   \* mutant: no test of the creator
MayTakeOut(t, a) == heap[a].created_thd_id = t

(* internal_TraceUpdateContext with no new trace_context and destroy_flag  *)
(* clear: only the thread that created the trace_context takes it out.     *)
DestroyUpdate(t) ==
  /\ pc[t] = "destroy_update"
  /\ LET i == loc[t].idx  a == ptra_ctx[i]
     IN  IF MayTakeOut(t, a)
         THEN /\ ptra_ctx' = Emptied(i)
              /\ context_num' = context_num - Occupied(i)
              /\ loc' = [loc EXCEPT ![t] = [@ EXCEPT !.old = a, !.obj = NULL,
                                                   !.idx = Virtual]]
         ELSE /\ loc' = [loc EXCEPT ![t] = [@ EXCEPT !.obj = NULL, !.idx = Virtual]]
              /\ UNCHANGED tables
  /\ Goto(t, "reap")
  /\ UNCHANGED <<handles, config_info, log_file, context_mutex, heap>>

-----------------------------------------------------------------------------
(* A call on a context (DPY2TRACECTX), for instance vaBeginPicture.  It    *)
(* does not take context_mutex.                                            *)

CallOnContext(t) ==
  /\ MayCall(t)
  /\ \E c \in VAContextID :
       /\ drv_context[c] = "idle"
       /\ drv_context' = [drv_context EXCEPT ![c] = "busy"]
       /\ loc' = [loc EXCEPT ![t] = OnContext(c, VA_INVALID_ID, "idle")]
  /\ Goto(t, "lookup")
  /\ UNCHANGED <<drv_config, entry, tables, config_info, log_file,
                 context_mutex, heap>>

(* get_valid_ctx_idx.                                                      *)
Lookup(t) ==
  /\ pc[t] = "lookup"
  /\ LET idx == get_valid_ctx_idx(loc[t].c)
     IN  IF idx \in CtxIdx
         THEN /\ loc' = [loc EXCEPT ![t] = [@ EXCEPT !.idx = idx]]
              /\ Goto(t, "read_slot")
         ELSE /\ Goto(t, "status_lock")
              /\ UNCHANGED loc
  /\ UNCHANGED <<handles, tables, config_info, log_file, context_mutex, heap>>

(* The slot is read after resource_mutex was released.                     *)
ReadSlot(t) ==
  /\ pc[t] = "read_slot"
  /\ LET a == ptra_ctx[loc[t].idx]
     IN  IF a # NULL /\ heap[a].trace_context = loc[t].c
         THEN /\ loc' = [loc EXCEPT ![t] = [@ EXCEPT !.idx = Virtual, !.obj = a]]
              /\ Goto(t, "call_refresh")
         ELSE /\ loc' = [loc EXCEPT ![t] = [@ EXCEPT !.idx = Virtual]]
              /\ Goto(t, "status_lock")
  /\ UNCHANGED <<handles, tables, config_info, log_file, context_mutex, heap>>

(* refresh_log_file of the trace_context in loc.obj: the unlocked test and *)
(* start_tracing2log_file, then the unlocked writes.                       *)
RefreshStart(t, from, store) ==
  /\ pc[t] = from
  /\ \E ok \in Fopen :
       LET r == start_tracing2log_file(log_file, t, ok)
       IN  IF OthersLogFile(heap[loc[t].obj], t)
           THEN /\ log_file' = r.table
                /\ loc' = [loc EXCEPT ![t] = [@ EXCEPT !.file = r.plog_file]]
           ELSE UNCHANGED <<log_file, loc>>
  /\ Goto(t, store)
  /\ UNCHANGED <<handles, tables, config_info, context_mutex, heap>>

RefreshStore(t, store, to) ==
  /\ pc[t] = store
  /\ heap' = [heap EXCEPT ![loc[t].obj] = SwitchLogFile(@, t, loc[t].file)]
  /\ loc' = [loc EXCEPT ![t] = [@ EXCEPT !.file = NULL]]
  /\ Goto(t, to)
  /\ UNCHANGED <<handles, tables, config_info, log_file, context_mutex>>

(* The messages of the call go to the file of the trace_context; then the  *)
(* driver's function runs.                                                 *)
TraceCall(t) ==
  /\ pc[t] = "call_print"
  /\ loc' = [loc EXCEPT ![t] = [@ EXCEPT !.obj = NULL]]
  /\ Goto(t, "status_lock")
  /\ UNCHANGED <<handles, tables, config_info, log_file, context_mutex, heap>>

-----------------------------------------------------------------------------
Begin(t) == \/ DriverCreateConfig(t)
            \/ DriverDestroyConfig(t)
            \/ DriverCreateContext(t)
            \/ DriverDestroyContext(t)
            \/ CallOnContext(t)

Continue(t) == \/ EnterVirtual(t, "add_config_lock", "add_config")
               \/ va_TraceCreateConfig(t)
               \/ EnterVirtual(t, "delete_config_lock", "delete_config")
               \/ va_TraceDestroyConfig(t)
               \/ CreateLock(t)
               \/ CreateLog(t)
               \/ CreateUpdate(t)
               \/ CreateFail(t)
               \/ Reap(t)
               \/ Unlock(t)
               \/ DestroyLock(t)
               \/ RefreshStart(t, "destroy_refresh", "destroy_store")
               \/ RefreshStore(t, "destroy_store", "destroy_update")
               \/ DestroyUpdate(t)
               \/ Lookup(t)
               \/ ReadSlot(t)
               \/ RefreshStart(t, "call_refresh", "call_store")
               \/ RefreshStore(t, "call_store", "call_print")
               \/ TraceCall(t)
               \/ EnterVirtual(t, "status_lock", "status")
               \/ va_TraceStatus(t)

Next == \E t \in Thread : Begin(t) \/ Continue(t)

Spec == Init /\ [][Next]_vars

(* A thread inside a call is never stopped for good; no call has to start. *)
FairSpec == Spec /\ \A t \in Thread : WF_vars(Continue(t))

-----------------------------------------------------------------------------
(* Every variable has its type.                                            *)
Label == {"idle", "add_config_lock", "add_config", "delete_config_lock",
          "delete_config", "status_lock", "status", "create_lock",
          "create_log", "create_update", "create_fail", "reap", "unlock",
          "destroy_lock", "destroy_refresh", "destroy_store",
          "destroy_update", "lookup", "read_slot", "call_refresh",
          "call_store", "call_print"}

TypeOK ==
  /\ drv_config \in [VAConfigID -> [state : HandleState,
                                    profile : VAProfile \cup {NULL}]]
  /\ drv_context \in [VAContextID -> HandleState]
  /\ ptra_ctx \in [CtxIdx \cup {Virtual} -> Address \cup {NULL}]
  /\ context_num \in Int
  /\ config_info \in [CtxIdx -> ConfigInfo]
  /\ log_file \in [LogIdx -> LogFile]
  /\ context_mutex \in Thread \cup {NULL}
  /\ heap \in [Address -> TraceContext]
  /\ pc \in [Thread -> Label]
  /\ loc \in [Thread -> Local]
  /\ entry \in [VAContextID -> Address \cup {NULL}]

(* context_num is the number of occupied slots: va_TraceEnd walks the      *)
(* slots only until it has counted context_num of them down to 0, so a     *)
(* wrong count would leak trace_contexts or leave none to stop the walk.   *)
ContextNumIsOccupied ==
  context_num = Cardinality({i \in CtxIdx : ptra_ctx[i] # NULL})

(* A trace_context that va_TraceCreateContext put in the table for a       *)
(* context id that is still live is the one every lookup of that id finds, *)
(* and the one a call on the context goes on using, although another       *)
(* thread may still be telling the tracer of the destruction of an earlier *)
(* context with the same id, and older entries with that id may be around. *)
EntryIsFound ==
  /\ \A c \in VAContextID : entry[c] # NULL =>
       LET i == get_valid_ctx_idx(c)
       IN  i \in CtxIdx /\ ptra_ctx[i] = entry[c]
  /\ \A t \in Thread :
       (pc[t] \in {"call_refresh", "call_store", "call_print"}
          /\ entry[loc[t].c] # NULL) => loc[t].obj = entry[loc[t].c]

(* No trace_context is freed twice or freed while a slot points to it: the *)
(* slots point to distinct live trace_contexts, and the one a thread has   *)
(* taken out to free is live, in no slot and with no other thread.         *)
FreedOnce ==
  /\ \A i, j \in CtxIdx \cup {Virtual} : ptra_ctx[i] # NULL =>
       heap[ptra_ctx[i]].mem = "allocated" /\ (i # j => ptra_ctx[i] # ptra_ctx[j])
  /\ \A t, u \in Thread : loc[t].old # NULL =>
       /\ heap[loc[t].old].mem = "allocated"
       /\ \A i \in CtxIdx \cup {Virtual} : ptra_ctx[i] # loc[t].old
       /\ u # t => loc[u].old # loc[t].old

(* The trace_contexts of the table that write to log file s or list it.    *)
UsersOf(s) ==
  {a \in Address : /\ \E i \in CtxIdx \cup {Virtual} : ptra_ctx[i] = a
                   /\ \/ heap[a].plog_file = s
                      \/ \E k \in LogIdx : heap[a].plog_file_list[k] = s}

(* The use count of a log file is at least the number of trace_contexts in *)
(* the table that use it, and a file with users is open: stopping the      *)
(* files of a destroyed context never closes a file under another context. *)
LogFilesCounted ==
  \A s \in LogIdx : /\ Cardinality(UsersOf(s)) <= log_file[s].used
                     /\ log_file[s].fp_log <=> log_file[s].used > 0

(* A file pointer is open whenever va_TraceVPrint writes through it: for   *)
(* the virtual context, and for the trace_context of a live context.       *)
WritesToOpenFile ==
  LET Open(a) == heap[a].plog_file # NULL =>
                   log_file[heap[a].plog_file].fp_log
  IN  /\ Open(VirtualCtx)
      /\ \A t \in Thread :
           pc[t] = "call_print" /\ loc[t].obj = entry[loc[t].c]
             => Open(loc[t].obj)

(* A log file in use is not given to another thread: refresh_log_file      *)
(* reads thread_id of the file it writes to without resource_mutex.        *)
FileKeepsThread ==
  [][\A s \in LogIdx : log_file[s].used > 0 /\ log_file'[s].used > 0
       => log_file'[s].thread_id = log_file[s].thread_id]_vars

(* No two log files belong to the same thread.                             *)
OneFilePerThread ==
  \A s, r \in LogIdx :
    s # r /\ log_file[s].thread_id # NoThread
      => log_file[s].thread_id # log_file[r].thread_id

(* A thread that has taken context_mutex gives it up, whatever the other   *)
(* threads do and whichever early return or failure path it takes.         *)
MutexReleased ==
  \A t \in Thread : context_mutex = t ~> context_mutex # t

(* Every API call returns once the application stops making new ones (the  *)
(* mutex is not fair: calls that go on forever may starve a waiting one).  *)
CallsReturn == \/ []<><<\E t \in Thread : Begin(t)>>_vars
               \/ <>[](\A t \in Thread : pc[t] = "idle")

(* va.h:147-149 promises that concurrent calls do not corrupt VAAPI's      *)
(* data: a call on a context never uses a freed trace_context.             *)
CallUsesLiveTraceContext ==
  \A t \in Thread : pc[t] \in {"call_refresh", "call_store", "call_print"}
                       => heap[loc[t].obj].mem = "allocated"
=============================================================================
