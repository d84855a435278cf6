----------------------------- MODULE VATraceInv -----------------------------
(***************************************************************************)
(* The inductive invariant behind EntryIsFound and FreedOnce of VATrace:   *)
(* who may touch a slot of the context table, and why a thread that is     *)
(* late with the destruction of an old context cannot take out the entry   *)
(* of a new context that was given the same id.                            *)
(***************************************************************************)
EXTENDS VATrace

Slot == CtxIdx \cup {Virtual}

(* Where a thread is in which call.                                        *)
Creating  == {"create_log", "create_update", "create_fail"}
Removing  == {"destroy_refresh", "destroy_store", "destroy_update"}
Using     == {"call_refresh", "call_store", "call_print"}
Ending    == {"reap", "unlock"}
InMutex   == Creating \cup Removing \cup Ending
               \cup {"add_config", "delete_config", "status"}

(* A context slot holds a trace_context with id c.                         *)
Holds(i, c) == ptra_ctx[i] # NULL /\ heap[ptra_ctx[i]].trace_context = c

(* The slot i is the first that holds one with id c.                       *)
FirstHolds(i, c) == /\ Holds(i, c)
                    /\ \A j \in CtxIdx : j < i => ~Holds(j, c)

(* Between LOCK_CONTEXT and UNLOCK_CONTEXT a thread holds the mutex.       *)
MutexInv == \A t \in Thread : pc[t] \in InMutex <=> context_mutex = t

(* At most one thread uses a live context, or is creating it, and then the *)
(* driver's id is busy; all the others are late with a destroyed one.      *)
UsersInv ==
  \A t \in Thread : (loc[t].c # NULL /\ loc[t].after = "idle") =>
     /\ drv_context[loc[t].c] = "busy"
     /\ \A u \in Thread : u # t /\ loc[u].c = loc[t].c => loc[u].after = "free"

(* What the place of a thread says of the context it works on.             *)
Place(t) ==
  /\ pc[t] = "idle" => loc[t] = NoLocal
  /\ pc[t] \in Creating \cup {"create_lock"} =>
       loc[t].c # NULL /\ loc[t].after = "idle" /\ entry[loc[t].c] = NULL
  /\ pc[t] \in Using \cup {"lookup", "read_slot"} =>
       loc[t].c # NULL /\ loc[t].after = "idle"
  /\ pc[t] \in Removing \cup {"destroy_lock"} => loc[t].c # NULL

(* No entry is recorded for an id the driver may hand out.                 *)
FreeInv == \A c \in VAContextID : drv_context[c] = "free" => entry[c] = NULL

(* Which trace_context a thread owns: old is what it took out of the       *)
(* table, obj what it allocated; neither is in a slot, both are live.      *)
Live(a) == heap[a].mem = "allocated" /\ \A i \in Slot : ptra_ctx[i] # a

Own(t) ==
  /\ loc[t].old # NULL => pc[t] = "reap" /\ Live(loc[t].old)
  /\ loc[t].obj # NULL => pc[t] \in Creating \cup Ending \cup Removing \cup Using
  /\ loc[t].obj # NULL /\ pc[t] \in Creating \cup Ending =>
       Live(loc[t].obj) /\ loc[t].obj # loc[t].old
  /\ pc[t] \in {"create_log", "create_update"} =>
       loc[t].obj # NULL /\ loc[t].idx \in CtxIdx

(* Slots hold distinct live trace_contexts.                                *)
SlotsInv ==
  \A i \in Slot : ptra_ctx[i] # NULL =>
     /\ heap[ptra_ctx[i]].mem = "allocated"
     /\ \A j \in Slot : i # j => ptra_ctx[i] # ptra_ctx[j]

(* The slot found under the mutex stays what the lookup found.             *)
Idx(t) ==
  /\ pc[t] \in Creating =>
       /\ loc[t].idx \in CtxIdx =>
            ptra_ctx[loc[t].idx] = NULL \/ Holds(loc[t].idx, loc[t].c)
       /\ \A j \in CtxIdx : j < loc[t].idx => ~Holds(j, loc[t].c)
  /\ pc[t] \in Removing => loc[t].idx \in CtxIdx /\ FirstHolds(loc[t].idx, loc[t].c)

(* The entry of a live context is in the first slot with its id.           *)
EntrySlot(c) == \E i \in CtxIdx : ptra_ctx[i] = entry[c] /\ FirstHolds(i, c)

(* No thread that is late with a destruction of the id created the entry,  *)
(* and a call on the context that has found a slot or a trace_context has  *)
(* found this one.                                                         *)
EntryKept(c, t) ==
  loc[t].c = c =>
    /\ pc[t] \in Removing \cup {"destroy_lock"} => heap[entry[c]].created_thd_id # t
    /\ pc[t] = "read_slot" => ptra_ctx[loc[t].idx] = entry[c]
    /\ pc[t] \in Using => loc[t].obj = entry[c]

(* Together they are inductive.                                            *)
IInv == /\ TypeOK
        /\ MutexInv
        /\ UsersInv
        /\ FreeInv
        /\ SlotsInv
        /\ \A t \in Thread : Place(t) /\ Own(t) /\ Idx(t)
        /\ \A c \in VAContextID : entry[c] # NULL =>
             EntrySlot(c) /\ \A t \in Thread : EntryKept(c, t)

-----------------------------------------------------------------------------
(***************************************************************************)
(* The invariant behind LogFilesCounted and WritesToOpenFile.  A use of a  *)
(* file is counted from start_tracing2log_file on, so a use count stands   *)
(* for the trace_contexts that list the file, those in the table that      *)
(* write to it, and the threads that are about to store it in one.         *)
(***************************************************************************)

(* refresh_log_file never adds to a list, so at most entry 0 is not empty. *)
ListInv == \A a \in Address, k \in LogIdx :
             k # 0 => heap[a].plog_file_list[k] = NULL

Uses(s) == {a \in Address :
              \/ heap[a].plog_file_list[0] = s
              \/ heap[a].plog_file = s /\ \E i \in Slot : ptra_ctx[i] = a}

Pending(s) == {t \in Thread : loc[t].file = s}

CountInv(s) ==
  /\ IsFiniteSet(Uses(s)) /\ IsFiniteSet(Pending(s))
  /\ Cardinality(Uses(s)) + Cardinality(Pending(s)) <= log_file[s].used
  /\ log_file[s].fp_log <=> log_file[s].used > 0

(* A trace_context that is being created is known to its creator alone,    *)
(* and writes to the file it lists; a refresh has a trace_context to store *)
(* the file in.                                                            *)
FileLocal(t) ==
  /\ loc[t].file # NULL => pc[t] \in {"destroy_store", "call_store"}
  /\ pc[t] \in Using \cup Removing => loc[t].obj # NULL
  /\ pc[t] \in {"create_log", "create_update"} =>
       /\ heap[loc[t].obj].plog_file = heap[loc[t].obj].plog_file_list[0]
       /\ \A u \in Thread : u # t => loc[u].obj # loc[t].obj

LogInv == /\ ListInv
          /\ \A s \in LogIdx : CountInv(s)
          /\ \A t \in Thread : FileLocal(t)
          /\ ptra_ctx[Virtual] = VirtualCtx
=============================================================================
