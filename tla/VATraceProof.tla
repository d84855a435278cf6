---------------------------- MODULE VATraceProof ----------------------------
(***************************************************************************)
(* Proofs about VATrace for every number of threads, slots, ids and files: *)
(* its types; the inductive invariant IInv, and from it that the entry of  *)
(* a live context is found, that nothing is freed twice and that           *)
(* context_num counts the occupied slots; and the inductive invariant of   *)
(* the log files, LogInv, from which follow the users they count.          *)
(***************************************************************************)
EXTENDS VATraceInv, LeastElement, FiniteSetTheorems

(* Least returns a member of a set of slots that is not empty, at most     *)
(* every other member, and one past the slots for the empty set.           *)
LEMMA LeastSlot ==
  ASSUME NEW S \in SUBSET CtxIdx
  PROVE  /\ Least(S) \in CtxIdx \cup {Virtual}
         /\ Least(S) \in CtxIdx <=> S # {}
         /\ S # {} => Least(S) \in S
         /\ \A j \in CtxIdx : j < Least(S) \/ Least(S) \notin CtxIdx => j \notin S
<1>1. S \in SUBSET Nat /\ Virtual \in Nat /\ Virtual \notin CtxIdx
  BY TraceAssumption DEF CtxIdx, Virtual
<1>2. CASE S = {}
  BY <1>1, <1>2 DEF Least, Virtual
<1>3. CASE S # {}
  <2>1. Min(S) \in S /\ \A j \in S : ~ (j < Min(S))
    BY <1>1, <1>3, MinIsLeast
  <2>2. Least(S) = Min(S)
    BY <1>3 DEF Least
  <2> QED
    BY <1>1, <1>3, <2>1, <2>2
<1> QED
  BY <1>2, <1>3

(* The slot found for a thread's log file: its own if it has one, else an  *)
(* unused one, else none.                                                  *)
LEMMA LogFileIdx ==
  ASSUME NEW lf \in [LogIdx -> LogFile], NEW t \in Thread
  PROVE  LET i == get_log_file_idx_by_thd(lf, t)
         IN  /\ i \in LogIdx => \/ lf[i].thread_id = t
                               \/ /\ lf[i].used = 0
                                  /\ \A j \in LogIdx : lf[j].thread_id # t
             /\ i \in LogIdx \/ i = MAX_TRACE_THREAD_NUM
<1> DEFINE own  == {i \in LogIdx : lf[i].thread_id = t}
           free == {i \in LogIdx : lf[i].used = 0}
<1>1. own \in SUBSET Nat /\ free \in SUBSET Nat
  BY DEF LogIdx
<1>2. own # {} => Min(own) \in LogIdx /\ lf[Min(own)].thread_id = t
  BY <1>1, MinIsLeast
<1>3. free # {} => Min(free) \in LogIdx /\ lf[Min(free)].used = 0
  BY <1>1, MinIsLeast
<1>4. own = {} => \A j \in LogIdx : lf[j].thread_id # t
  OBVIOUS
<1>5. MAX_TRACE_THREAD_NUM \notin LogIdx
  BY LogAssumption DEF LogIdx
<1>6. get_log_file_idx_by_thd(lf, t) = IF own # {} THEN Min(own)
                                       ELSE IF free # {} THEN Min(free)
                                       ELSE MAX_TRACE_THREAD_NUM
  BY DEF get_log_file_idx_by_thd
<1> HIDE DEF own, free
<1> QED
  BY <1>2, <1>3, <1>4, <1>5, <1>6

LEMMA OpenType ==
  ASSUME NEW f \in LogFile, NEW t \in Thread, NEW ok \in BOOLEAN
  PROVE  open_tracing_log_file(f, t, ok).file \in LogFile
<1>1. open_tracing_log_file(f, t, ok).file \in {f, [f EXCEPT !.used = @ + 1], Opened(t),
                   [f EXCEPT !.fn_log = FALSE]}
  <2>1. CASE f.used # 0
    BY <2>1 DEF open_tracing_log_file
  <2>2. CASE f.used = 0
    BY <2>2 DEF open_tracing_log_file
  <2> QED
    BY <2>1, <2>2
<1>2. [f EXCEPT !.used = @ + 1] \in LogFile
  BY DEF LogFile
<1>3. Opened(t) \in LogFile
  BY DEF Opened, LogFile
<1>4. [f EXCEPT !.fn_log = FALSE] \in LogFile
  BY DEF LogFile
<1> QED
  BY <1>1, <1>2, <1>3, <1>4

LEMMA StartType ==
  ASSUME NEW lf \in [LogIdx -> LogFile], NEW t \in Thread, NEW ok \in BOOLEAN
  PROVE  LET r == start_tracing2log_file(lf, t, ok)
         IN  /\ r.plog_file \in LogIdx \cup {NULL}
             /\ r.table \in [LogIdx -> LogFile]
<1> DEFINE i == get_log_file_idx_by_thd(lf, t)
<1>1. CASE i \notin LogIdx
  BY <1>1 DEF start_tracing2log_file
<1>2. CASE i \in LogIdx
  <2> DEFINE o == open_tracing_log_file(lf[i], t, ok)
  <2> HIDE DEF i
  <2>1. lf[i] \in LogFile
    BY <1>2
  <2>2. o.file \in LogFile
    BY <2>1, OpenType
  <2>3. start_tracing2log_file(lf, t, ok) =
          [plog_file |-> IF o.ok THEN i ELSE NULL, table |-> [lf EXCEPT ![i] = o.file]]
    BY <1>2 DEF start_tracing2log_file, i
  <2> HIDE DEF o
  <2> QED
    BY <1>2, <2>2, <2>3
<1> QED
  BY <1>1, <1>2

LEMMA ReleasedType ==
  ASSUME NEW f \in LogFile
  PROVE  Released(f) \in LogFile
<1>1. [f EXCEPT !.used = @ - 1] \in LogFile
  BY DEF LogFile
<1> DEFINE g == [f EXCEPT !.used = @ - 1]
<1>2. [g EXCEPT !.fp_log = FALSE] \in LogFile
  BY <1>1 DEF LogFile
<1>3. [f EXCEPT !.used = @ - 1, !.fp_log = FALSE] = [g EXCEPT !.fp_log = FALSE]
  BY DEF LogFile
<1> QED
  BY <1>1, <1>2, <1>3 DEF Released

LEMMA StopType ==
  ASSUME NEW lf \in [LogIdx -> LogFile], NEW i \in LogIdx
  PROVE  stop_tracing2log_file(lf, i) \in [LogIdx -> LogFile]
<1>1. Released(lf[i]) \in LogFile
  BY ReleasedType
<1> QED
  BY <1>1 DEF stop_tracing2log_file

LEMMA SwitchType ==
  ASSUME NEW o \in TraceContext, NEW t \in Thread, NEW f \in LogIdx \cup {NULL}
  PROVE  /\ SwitchLogFile(o, t, f) \in TraceContext
         /\ SwitchLogFile(o, t, f).mem = o.mem
         /\ SwitchLogFile(o, t, f).trace_context = o.trace_context
         /\ SwitchLogFile(o, t, f).created_thd_id = o.created_thd_id
<1> DEFINE own  == {k \in LogIdx : /\ o.plog_file_list[k] # NULL
                                   /\ log_file[o.plog_file_list[k]].thread_id = t}
           i    == IF own # {} THEN Min(own) ELSE MAX_TRACE_THREAD_NUM
           none == {k \in LogIdx : o.plog_file_list[k] = NULL /\ k < i}
           m    == Min(none)
<1>1. own \in SUBSET Nat /\ none \in SUBSET Nat
  BY DEF LogIdx
<1>2. none # {} => m \in LogIdx
  BY <1>1, MinIsLeast
<1>3. SwitchLogFile(o, t, f) =
        IF f = NULL THEN o
        ELSE IF i > MAX_TRACE_THREAD_NUM /\ none # {}
        THEN [o EXCEPT !.plog_file = f, !.plog_file_list[m] = f]
        ELSE [o EXCEPT !.plog_file = f]
  BY DEF SwitchLogFile
<1> HIDE DEF own, i, none, m
<1>4. CASE f = NULL
  BY <1>3, <1>4
<1>5. CASE f # NULL /\ i > MAX_TRACE_THREAD_NUM /\ none # {}
  <2>1. SwitchLogFile(o, t, f) =
          [o EXCEPT !.plog_file = f, !.plog_file_list[m] = f]
    BY <1>3, <1>5
  <2> DEFINE L == [o.plog_file_list EXCEPT ![m] = f]
  <2>2. L \in [LogIdx -> LogIdx \cup {NULL}]
    BY <1>2, <1>5 DEF TraceContext
  <2>3. SwitchLogFile(o, t, f) = [o EXCEPT !.plog_file = f, !.plog_file_list = L]
    BY <2>1 DEF TraceContext
  <2> HIDE DEF L
  <2> QED
    BY <2>2, <2>3 DEF TraceContext
<1>6. CASE f # NULL /\ ~ (i > MAX_TRACE_THREAD_NUM /\ none # {})
  <2>1. SwitchLogFile(o, t, f) = [o EXCEPT !.plog_file = f]
    BY <1>3, <1>6
  <2> QED
    BY <1>6, <2>1 DEF TraceContext
<1> QED
  BY <1>4, <1>5, <1>6

-----------------------------------------------------------------------------
(* The lookups find the first slot with the id, or the first free one.     *)
LEMMA ValidCtxIdx ==
  ASSUME NEW c
  PROVE  LET i == get_valid_ctx_idx(c)
         IN  /\ i \in CtxIdx \cup {Virtual}
             /\ i \in CtxIdx => /\ ptra_ctx[i] # NULL
                               /\ heap[ptra_ctx[i]].trace_context = c
             /\ \A j \in CtxIdx : j < i \/ i \notin CtxIdx =>
                  \/ ptra_ctx[j] = NULL
                  \/ heap[ptra_ctx[j]].trace_context # c
<1> DEFINE S == {i \in CtxIdx : /\ ptra_ctx[i] # NULL
                               /\ heap[ptra_ctx[i]].trace_context = c}
<1>1. S \in SUBSET CtxIdx
  OBVIOUS
<1>2. get_valid_ctx_idx(c) = Least(S)
  BY DEF get_valid_ctx_idx
<1>3. /\ Least(S) \in CtxIdx \cup {Virtual}
      /\ Least(S) \in CtxIdx <=> S # {}
      /\ S # {} => Least(S) \in S
      /\ \A j \in CtxIdx : j < Least(S) \/ Least(S) \notin CtxIdx => j \notin S
  BY <1>1, LeastSlot
<1> QED
  BY <1>2, <1>3

LEMMA FreeCtxIdx ==
  ASSUME NEW c
  PROVE  LET i == get_free_ctx_idx(c)
         IN  /\ i \in CtxIdx \cup {Virtual}
             /\ i \in CtxIdx => \/ ptra_ctx[i] = NULL
                               \/ heap[ptra_ctx[i]].trace_context = c
             /\ \A j \in CtxIdx : j < i \/ i \notin CtxIdx =>
                  /\ ptra_ctx[j] # NULL
                  /\ heap[ptra_ctx[j]].trace_context # c
<1> DEFINE S == {i \in CtxIdx : \/ ptra_ctx[i] = NULL
                               \/ heap[ptra_ctx[i]].trace_context = c}
<1>1. S \in SUBSET CtxIdx
  OBVIOUS
<1>2. get_free_ctx_idx(c) = Least(S)
  BY DEF get_free_ctx_idx
<1>3. /\ Least(S) \in CtxIdx \cup {Virtual}
      /\ Least(S) \in CtxIdx <=> S # {}
      /\ S # {} => Least(S) \in S
      /\ \A j \in CtxIdx : j < Least(S) \/ Least(S) \notin CtxIdx => j \notin S
  BY <1>1, LeastSlot
<1> QED
  BY <1>2, <1>3

LEMMA ConfigTableType ==
  ASSUME TypeOK, NEW g \in VAConfigID \cup {VA_INVALID_ID},
         NEW p \in VAProfile \cup {NULL}
  PROVE  /\ add_trace_config_info(g, p) \in [CtxIdx -> ConfigInfo]
         /\ delete_trace_config_info(g) \in [CtxIdx -> ConfigInfo]
<1> DEFINE i == Least({j \in CtxIdx : \/ ~config_info[j].valid
                                     \/ config_info[j].config_id = g})
           k == get_valid_config_idx(g)
<1>1. config_info \in [CtxIdx -> ConfigInfo]
  BY DEF TypeOK
<1>2. [valid |-> TRUE, config_id |-> g, trace_profile |-> p] \in ConfigInfo
  BY DEF ConfigInfo
<1>3. ASSUME NEW f \in ConfigInfo
      PROVE  [f EXCEPT !.valid = FALSE, !.config_id = VA_INVALID_ID] \in ConfigInfo
  BY DEF ConfigInfo
<1> HIDE DEF i, k
<1>4. add_trace_config_info(g, p) =
        IF i \notin CtxIdx THEN config_info
        ELSE [config_info EXCEPT ![i] = [valid |-> TRUE, config_id |-> g,
                                         trace_profile |-> p]]
  BY DEF add_trace_config_info, i
<1>5. delete_trace_config_info(g) =
        IF k \notin CtxIdx THEN config_info
        ELSE [config_info EXCEPT ![k] =
                [config_info[k] EXCEPT !.valid = FALSE,
                                       !.config_id = VA_INVALID_ID]]
  BY <1>1 DEF delete_trace_config_info, k
<1>6. k \in CtxIdx => [config_info[k] EXCEPT !.valid = FALSE,
                       !.config_id = VA_INVALID_ID] \in ConfigInfo
  BY <1>1, <1>3
<1> QED
  BY <1>1, <1>2, <1>4, <1>5, <1>6

LEMMA LocalType ==
  /\ NoLocal \in Local
  /\ \A g \in VAConfigID \cup {VA_INVALID_ID}, p \in VAProfile \cup {NULL} :
       /\ OnConfig(g, p, "idle") \in Local
       /\ OnConfig(g, p, "free") \in Local
  /\ \A c \in VAContextID, g \in VAConfigID \cup {VA_INVALID_ID} :
       /\ OnContext(c, g, "idle") \in Local
       /\ OnContext(c, g, "free") \in Local
BY DEF NoLocal, Local, OnConfig, OnContext

LEMMA InitType == Init => TypeOK
<1> SUFFICES ASSUME NEW t \in Thread, InitBy(t)
             PROVE  TypeOK
  BY DEF Init
<1>1. NoConfig \in ConfigInfo /\ NoLocal \in Local
  BY LocalType DEF NoConfig, ConfigInfo
<1>2. NoLogFile \in LogFile /\ Opened(t) \in LogFile
  BY DEF NoLogFile, Opened, LogFile
<1>3. 0 \in LogIdx
  BY LogAssumption DEF LogIdx
<1>4. Zeroed \in TraceContext /\ Freed \in TraceContext
  BY DEF Zeroed, Freed, TraceContext, NoList
<1>5. ASSUME NEW f \in LogIdx \cup {NULL}
      PROVE  [Zeroed EXCEPT !.trace_context = VA_INVALID_ID, !.plog_file = f,
                            !.plog_file_list[0] = f] \in TraceContext
  BY <1>3, <1>4 DEF TraceContext
<1>6. heap \in [Address -> TraceContext]
  BY <1>3, <1>4, <1>5 DEF InitBy
<1>7. log_file \in [LogIdx -> LogFile]
  BY <1>2 DEF InitBy
<1> QED
  BY <1>1, <1>6, <1>7, TraceAssumption DEF InitBy, TypeOK, HandleState, Label

(* Assignments to local variables keep their types.                        *)
LEMMA LocalFields ==
  ASSUME NEW l \in Local, NEW i \in CtxIdx \cup {Virtual},
         NEW a \in Address \cup {NULL}, NEW b \in Address \cup {NULL},
         NEW f \in LogIdx \cup {NULL}
  PROVE  /\ [l EXCEPT !.idx = i] \in Local
         /\ [l EXCEPT !.idx = i, !.obj = a] \in Local
         /\ [l EXCEPT !.obj = a, !.idx = i] \in Local
         /\ [l EXCEPT !.old = a, !.obj = b, !.idx = i] \in Local
         /\ [l EXCEPT !.old = a, !.idx = i] \in Local
         /\ [l EXCEPT !.old = a] \in Local
         /\ [l EXCEPT !.obj = a] \in Local
         /\ [l EXCEPT !.file = f] \in Local
<1>1. /\ [l EXCEPT !.idx = i] \in Local
      /\ [l EXCEPT !.old = a] \in Local
      /\ [l EXCEPT !.obj = a] \in Local
      /\ [l EXCEPT !.file = f] \in Local
  BY DEF Local
<1>2. [l EXCEPT !.idx = i, !.obj = a] \in Local
  BY DEF Local
<1>4. [l EXCEPT !.obj = a, !.idx = i] \in Local
  BY DEF Local
<1>5. [l EXCEPT !.old = a, !.idx = i] \in Local
  BY DEF Local
<1>3. [l EXCEPT !.old = a, !.obj = b, !.idx = i] \in Local
  BY DEF Local
<1> QED
  BY <1>1, <1>2, <1>3, <1>4, <1>5

(* Assigning a typed record of local variables to one thread.              *)
LEMMA SetLocal ==
  ASSUME TypeOK, NEW t \in Thread, NEW l \in Local, loc' = [loc EXCEPT ![t] = l]
  PROVE  loc' \in [Thread -> Local]
BY DEF TypeOK

LEMMA GotoType ==
  ASSUME TypeOK, NEW t \in Thread, NEW l \in Label, Goto(t, l)
  PROVE  pc' \in [Thread -> Label]
BY DEF TypeOK, Goto

(* What TypeOK says of the values one thread works with.                   *)
LEMMA TypesAt ==
  ASSUME TypeOK, NEW t \in Thread
  PROVE  /\ loc[t] \in Local
         /\ loc[t].c \in VAContextID \cup {NULL}
         /\ loc[t].g \in VAConfigID \cup {VA_INVALID_ID}
         /\ loc[t].p \in VAProfile \cup {NULL}
         /\ loc[t].idx \in CtxIdx \cup {Virtual}
         /\ loc[t].obj \in Address \cup {NULL}
         /\ loc[t].old \in Address \cup {NULL}
         /\ loc[t].file \in LogIdx \cup {NULL}
         /\ ptra_ctx[loc[t].idx] \in Address \cup {NULL}
<1>1. loc[t] \in Local
  BY DEF TypeOK
<1> QED
  BY <1>1 DEF TypeOK, Local

-----------------------------------------------------------------------------
(* Type correctness, one lemma per action.                                 *)
LEMMA EnterVirtualType ==
  ASSUME TypeOK, NEW t \in Thread, NEW from \in Label, NEW to \in Label,
         EnterVirtual(t, from, to)
  PROVE  TypeOK'
<1>1. pc' \in [Thread -> Label]
  BY GotoType DEF EnterVirtual
<1> DEFINE v == ptra_ctx[Virtual]
<1>2. PICK ok \in BOOLEAN :
        LET r == start_tracing2log_file(log_file, t, ok)
        IN  \/ /\ log_file' = r.table
               /\ heap' = [heap EXCEPT ![v] =
                             SwitchLogFile(heap[v], t, r.plog_file)]
            \/ UNCHANGED <<log_file, heap>>
  BY DEF EnterVirtual, Fopen
<1> DEFINE r == start_tracing2log_file(log_file, t, ok)
<1>3. log_file \in [LogIdx -> LogFile] /\ heap \in [Address -> TraceContext]
  BY DEF TypeOK
<1>4. r.plog_file \in LogIdx \cup {NULL} /\ r.table \in [LogIdx -> LogFile]
  BY <1>3, StartType
<1> HIDE DEF r, v
<1>5. v \in Address => SwitchLogFile(heap[v], t, r.plog_file) \in TraceContext
  BY <1>3, <1>4, SwitchType
<1>6. log_file' \in [LogIdx -> LogFile] /\ heap' \in [Address -> TraceContext]
  BY <1>2, <1>3, <1>4, <1>5 DEF r
<1> QED
  BY <1>1, <1>6 DEF EnterVirtual, TypeOK, tables, handles

LEMMA va_TraceCreateConfigType ==
  ASSUME TypeOK, NEW t \in Thread, va_TraceCreateConfig(t)
  PROVE  TypeOK'
<1>1. pc' \in [Thread -> Label]
  BY GotoType DEF va_TraceCreateConfig, Label
<1>2. config_info' \in [CtxIdx -> ConfigInfo]
  BY TypesAt, ConfigTableType DEF va_TraceCreateConfig
<1> QED
  BY <1>1, <1>2 DEF va_TraceCreateConfig, TypeOK, tables, handles


LEMMA va_TraceDestroyConfigType ==
  ASSUME TypeOK, NEW t \in Thread, va_TraceDestroyConfig(t)
  PROVE  TypeOK'
<1>1. pc' \in [Thread -> Label]
  BY GotoType DEF va_TraceDestroyConfig, Label
<1>2. config_info' \in [CtxIdx -> ConfigInfo]
  BY TypesAt, ConfigTableType DEF va_TraceDestroyConfig
<1> QED
  BY <1>1, <1>2 DEF va_TraceDestroyConfig, TypeOK, tables, handles


LEMMA CreateLockType ==
  ASSUME TypeOK, NEW t \in Thread, CreateLock(t)
  PROVE  TypeOK'
<1>1. pc' \in [Thread -> Label]
  BY GotoType DEF CreateLock, Label
<1> DEFINE i == get_free_ctx_idx(loc[t].c)
<1>2. i \in CtxIdx \cup {Virtual}
  BY FreeCtxIdx
<1>3. Zeroed \in TraceContext
  BY DEF Zeroed, TraceContext, NoList
<1>4. \/ loc' = [loc EXCEPT ![t] = [loc[t] EXCEPT !.idx = i]] /\ heap' = heap
      \/ \E a \in Address :
           /\ loc' = [loc EXCEPT ![t] = [loc[t] EXCEPT !.idx = i, !.obj = a]]
           /\ heap' = [heap EXCEPT ![a] = Zeroed]
  BY DEF CreateLock, TypeOK
<1> HIDE DEF i
<1>5. loc' \in [Thread -> Local]
  BY <1>2, <1>4, TypesAt, LocalFields, SetLocal
<1>6. heap' \in [Address -> TraceContext]
  BY <1>3, <1>4 DEF TypeOK
<1> QED
  BY <1>1, <1>5, <1>6 DEF CreateLock, TypeOK, tables, handles


(* An object of TraceContext given another log file is one still.          *)
LEMMA ReopenedType ==
  ASSUME NEW x \in TraceContext, NEW f \in LogIdx \cup {NULL},
         NEW k \in [LogIdx -> LogIdx \cup {NULL}]
  PROVE  [x EXCEPT !.plog_file = f, !.plog_file_list = k] \in TraceContext
<1> DEFINE F == LogIdx \cup {NULL}
           K == [LogIdx -> F]
           M == {"allocated", "freed"}
           C == VAContextID \cup {VA_INVALID_ID, NULL}
           T == Thread \cup {NoThread}
<1>1. TraceContext = [mem : M, trace_context : C, created_thd_id : T,
                      plog_file : F, plog_file_list : K]
  BY DEF TraceContext
<1>2. f \in F /\ k \in K
  OBVIOUS
<1> HIDE DEF F, K, M, C, T
<1> QED
  BY <1>1, <1>2


LEMMA CreateLogType ==
  ASSUME TypeOK, NEW t \in Thread, CreateLog(t)
  PROVE  TypeOK'
<1>1. pc' \in [Thread -> Label]
  BY GotoType DEF CreateLog, Label
<1> DEFINE a == loc[t].obj
<1>2. PICK ok \in BOOLEAN :
        LET r == start_tracing2log_file(log_file, t, ok)
        IN  /\ log_file' = r.table
            /\ heap' = [heap EXCEPT ![a] =
                 [heap[a] EXCEPT
                    !.plog_file = r.plog_file,
                    !.plog_file_list =
                       [heap[a].plog_file_list EXCEPT ![0] = r.plog_file]]]
  BY DEF CreateLog, Fopen
<1> DEFINE r == start_tracing2log_file(log_file, t, ok)
           f == r.plog_file
<1>3. log_file \in [LogIdx -> LogFile] /\ heap \in [Address -> TraceContext]
  BY DEF TypeOK
<1>4. f \in LogIdx \cup {NULL} /\ r.table \in [LogIdx -> LogFile]
  BY <1>3, StartType
<1>5. log_file' = r.table /\ heap' = [heap EXCEPT ![a] =
                 [heap[a] EXCEPT !.plog_file = f,
                           !.plog_file_list = [heap[a].plog_file_list EXCEPT ![0] = f]]]
  BY <1>2
<1> HIDE DEF r, a, f
<1>6. ASSUME a \in Address
      PROVE  [heap[a] EXCEPT !.plog_file = f,
                 !.plog_file_list = [heap[a].plog_file_list EXCEPT ![0] = f]]
               \in TraceContext
  <2> DEFINE k == [heap[a].plog_file_list EXCEPT ![0] = f]
  <2>1. k \in [LogIdx -> LogIdx \cup {NULL}]
    BY <1>3, <1>4, <1>6 DEF TraceContext
  <2> HIDE DEF k
  <2>2. [heap[a] EXCEPT !.plog_file = f, !.plog_file_list = k] \in TraceContext
    BY <1>3, <1>4, <1>6, <2>1, ReopenedType
  <2> QED
    BY <2>2 DEF k
<1>7. log_file' \in [LogIdx -> LogFile] /\ heap' \in [Address -> TraceContext]
  BY <1>3, <1>4, <1>5, <1>6
<1> QED
  BY <1>1, <1>7 DEF CreateLog, TypeOK, tables, handles


LEMMA CreateUpdateType ==
  ASSUME TypeOK, NEW t \in Thread, CreateUpdate(t)
  PROVE  TypeOK'
<1>1. pc' \in [Thread -> Label]
  BY GotoType DEF CreateUpdate, Label
<1> DEFINE a == loc[t].obj
           i == loc[t].idx
<1>2. /\ a \in Address \cup {NULL} /\ loc[t].c \in VAContextID \cup {NULL}
      /\ ptra_ctx[i] \in Address \cup {NULL} /\ Virtual \in CtxIdx \cup {Virtual}
  BY TypesAt
<1>3. loc' = [loc EXCEPT ![t] = [loc[t] EXCEPT !.old = ptra_ctx[i], !.obj = NULL,
                                               !.idx = Virtual]]
  BY DEF CreateUpdate, TypeOK
<1>4. loc' \in [Thread -> Local]
  BY <1>2, <1>3, TypesAt, LocalFields, SetLocal
<1>5. heap' = [heap EXCEPT ![a] = [heap[a] EXCEPT !.trace_context = loc[t].c,
                                                  !.created_thd_id = t]]
  BY DEF CreateUpdate
<1>6. a \in Address => [heap[a] EXCEPT !.trace_context = loc[t].c,
                                       !.created_thd_id = t] \in TraceContext
  <2>1. a \in Address => heap[a] \in TraceContext
    BY DEF TypeOK
  <2> HIDE DEF a
  <2> QED
    BY <1>2, <2>1 DEF TraceContext
<1>7. heap' \in [Address -> TraceContext]
  BY <1>5, <1>6 DEF TypeOK
<1>8. /\ ptra_ctx' \in [CtxIdx \cup {Virtual} -> Address \cup {NULL}]
      /\ entry' \in [VAContextID -> Address \cup {NULL}]
  BY <1>2 DEF CreateUpdate, TypeOK
<1>9. context_num' \in Int
  BY DEF CreateUpdate, TypeOK, Occupied
<1> QED
  BY <1>1, <1>4, <1>7, <1>8, <1>9 DEF CreateUpdate, TypeOK


LEMMA CreateFailType ==
  ASSUME TypeOK, NEW t \in Thread, CreateFail(t)
  PROVE  TypeOK'
<1>1. pc' \in [Thread -> Label]
  BY GotoType DEF CreateFail, Emptied, Label
<1> DEFINE i == loc[t].idx
<1>2. ptra_ctx[i] \in Address \cup {NULL} /\ Virtual \in CtxIdx \cup {Virtual}
  BY TypesAt
<1>3. \/ loc' = [loc EXCEPT ![t] = [loc[t] EXCEPT !.old = ptra_ctx[i], !.idx = Virtual]]
      \/ loc' = loc
  BY DEF CreateFail, Emptied, TypeOK
<1>4. loc' \in [Thread -> Local]
  BY <1>2, <1>3, TypesAt, LocalFields, SetLocal DEF TypeOK
<1>5. ptra_ctx' \in [CtxIdx \cup {Virtual} -> Address \cup {NULL}] /\ context_num' \in Int
  BY DEF CreateFail, Emptied, TypeOK, Occupied
<1> QED
  BY <1>1, <1>4, <1>5 DEF CreateFail, Emptied, TypeOK, handles


LEMMA ReapType ==
  ASSUME TypeOK, NEW t \in Thread, Reap(t)
  PROVE  TypeOK'
<1> DEFINE a == loc[t].old
           k == Min(Listed(a))
<1>1. a \in Address \cup {NULL} /\ heap \in [Address -> TraceContext]
  BY TypesAt DEF TypeOK
<1>2. CASE a # NULL /\ Listed(a) # {}
  <2>1. Listed(a) \in SUBSET Nat
    BY DEF Listed, LogIdx
  <2>2. k \in Listed(a)
    BY <1>2, <2>1, MinIsLeast
  <2>3. /\ log_file' = stop_tracing2log_file(log_file, heap[a].plog_file_list[k])
        /\ heap' = [heap EXCEPT ![a].plog_file_list = [@ EXCEPT ![k] = NULL]]
        /\ UNCHANGED <<loc, pc>>
    BY <1>2 DEF Reap
  <2> HIDE DEF k, a
  <2>4. heap[a].plog_file_list[k] \in LogIdx /\ heap[a] \in TraceContext
    BY <1>1, <1>2, <2>2 DEF Listed, TraceContext
  <2>5. log_file' \in [LogIdx -> LogFile]
    BY <2>3, <2>4, StopType DEF TypeOK
  <2> DEFINE L == [heap[a].plog_file_list EXCEPT ![k] = NULL]
  <2>6. L \in [LogIdx -> LogIdx \cup {NULL}]
    BY <2>4 DEF TraceContext
  <2>7. heap' = [heap EXCEPT ![a] = [heap[a] EXCEPT !.plog_file_list = L]]
    BY <1>1, <2>3
  <2> HIDE DEF L
  <2>8. [heap[a] EXCEPT !.plog_file_list = L] \in TraceContext
    BY <2>4, <2>6 DEF TraceContext
  <2>9. heap' \in [Address -> TraceContext]
    BY <1>1, <2>7, <2>8
  <2> QED
    BY <2>3, <2>5, <2>9 DEF Reap, TypeOK, tables, handles
<1>3. CASE ~ (a # NULL /\ Listed(a) # {})
  <2>1. /\ heap' = IF a = NULL THEN heap ELSE [heap EXCEPT ![a] = Freed]
        /\ loc' = [loc EXCEPT ![t] = [loc[t] EXCEPT !.old = NULL]]
        /\ Goto(t, "unlock")
        /\ UNCHANGED log_file
    BY <1>3 DEF Reap, TypeOK
  <2>2. Freed \in TraceContext
    BY DEF Freed, Zeroed, TraceContext, NoList
  <2>3. heap' \in [Address -> TraceContext]
    BY <1>1, <2>1, <2>2
  <2>4. loc' \in [Thread -> Local]
    BY <2>1, TypesAt, LocalFields, SetLocal
  <2>5. pc' \in [Thread -> Label]
    BY <2>1, GotoType DEF Label
  <2> QED
    BY <2>1, <2>3, <2>4, <2>5 DEF Reap, TypeOK, tables, handles
<1> QED
  BY <1>2, <1>3


LEMMA UnlockType ==
  ASSUME TypeOK, NEW t \in Thread, Unlock(t)
  PROVE  TypeOK'
<1>1. pc' \in [Thread -> Label]
  BY GotoType DEF Unlock, Label
<1>2. loc' = [loc EXCEPT ![t] = [loc[t] EXCEPT !.obj = NULL]]
  BY DEF Unlock, TypeOK
<1>3. loc' \in [Thread -> Local]
  BY <1>2, TypesAt, LocalFields, SetLocal
<1>4. Freed \in TraceContext
  BY DEF Freed, Zeroed, TraceContext, NoList
<1>5. heap' \in [Address -> TraceContext]
  BY <1>4 DEF Unlock, TypeOK
<1> QED
  BY <1>1, <1>3, <1>5 DEF Unlock, TypeOK, tables, handles


LEMMA DestroyLockType ==
  ASSUME TypeOK, NEW t \in Thread, DestroyLock(t)
  PROVE  TypeOK'
<1>1. pc' \in [Thread -> Label]
  BY GotoType DEF DestroyLock, Label
<1> DEFINE i == get_valid_ctx_idx(loc[t].c)
<1>2. i \in CtxIdx \cup {Virtual}
  BY ValidCtxIdx
<1>3. \/ loc' = [loc EXCEPT ![t] = [loc[t] EXCEPT !.idx = i, !.obj = ptra_ctx[i]]]
      \/ loc' = loc
  BY DEF DestroyLock, TypeOK
<1> HIDE DEF i
<1>4. ptra_ctx[i] \in Address \cup {NULL}
  BY <1>2 DEF TypeOK
<1>5. loc' \in [Thread -> Local]
  <2>1. loc[t] \in Local
    BY TypesAt
  <2>2. [loc[t] EXCEPT !.idx = i, !.obj = ptra_ctx[i]] \in Local
    BY <1>2, <1>4, <2>1, LocalFields
  <2> QED
    BY <1>3, <2>2, SetLocal DEF TypeOK
<1> QED
  BY <1>1, <1>5 DEF DestroyLock, TypeOK, tables, handles


LEMMA DestroyUpdateType ==
  ASSUME TypeOK, NEW t \in Thread, DestroyUpdate(t)
  PROVE  TypeOK'
<1>1. pc' \in [Thread -> Label]
  BY GotoType DEF DestroyUpdate, Emptied, MayTakeOut, Label
<1> DEFINE a == ptra_ctx[loc[t].idx]
<1>2. a \in Address \cup {NULL} /\ Virtual \in CtxIdx \cup {Virtual}
  BY TypesAt
<1>3. \/ loc' = [loc EXCEPT ![t] = [loc[t] EXCEPT !.old = a, !.obj = NULL, !.idx = Virtual]]
      \/ loc' = [loc EXCEPT ![t] = [loc[t] EXCEPT !.obj = NULL, !.idx = Virtual]]
  BY DEF DestroyUpdate, Emptied, MayTakeOut, TypeOK
<1> HIDE DEF a
<1>4. loc' \in [Thread -> Local]
  <2>1. loc[t] \in Local /\ NULL \in Address \cup {NULL}
    BY TypesAt
  <2>2. [loc[t] EXCEPT !.old = a, !.obj = NULL, !.idx = Virtual] \in Local
    BY <1>2, <2>1, LocalFields
  <2>3. [loc[t] EXCEPT !.obj = NULL, !.idx = Virtual] \in Local
    BY <1>2, <2>1, LocalFields
  <2> QED
    BY <1>3, <2>2, <2>3, SetLocal
<1>5. ptra_ctx' \in [CtxIdx \cup {Virtual} -> Address \cup {NULL}] /\ context_num' \in Int
  BY DEF DestroyUpdate, Emptied, MayTakeOut, TypeOK, Occupied, tables
<1> QED
  BY <1>1, <1>4, <1>5 DEF DestroyUpdate, Emptied, MayTakeOut, TypeOK, handles


LEMMA LookupType ==
  ASSUME TypeOK, NEW t \in Thread, Lookup(t)
  PROVE  TypeOK'
<1>1. pc' \in [Thread -> Label]
  BY GotoType DEF Lookup, Label
<1> DEFINE i == get_valid_ctx_idx(loc[t].c)
<1>2. i \in CtxIdx \cup {Virtual}
  BY ValidCtxIdx
<1>3. loc' = [loc EXCEPT ![t] = [loc[t] EXCEPT !.idx = i]] \/ loc' = loc
  BY DEF Lookup, TypeOK
<1> HIDE DEF i
<1>4. loc' \in [Thread -> Local]
  BY <1>2, <1>3, TypesAt, LocalFields, SetLocal DEF TypeOK
<1> QED
  BY <1>1, <1>4 DEF Lookup, TypeOK, tables, handles


LEMMA ReadSlotType ==
  ASSUME TypeOK, NEW t \in Thread, ReadSlot(t)
  PROVE  TypeOK'
<1>1. pc' \in [Thread -> Label]
  BY GotoType DEF ReadSlot, Label
<1> DEFINE a == ptra_ctx[loc[t].idx]
<1>2. a \in Address \cup {NULL} /\ Virtual \in CtxIdx \cup {Virtual}
  BY TypesAt
<1>3. \/ loc' = [loc EXCEPT ![t] = [loc[t] EXCEPT !.idx = Virtual, !.obj = a]]
      \/ loc' = [loc EXCEPT ![t] = [loc[t] EXCEPT !.idx = Virtual]]
  BY DEF ReadSlot, TypeOK
<1> HIDE DEF a
<1>4. loc' \in [Thread -> Local]
  <2>1. loc[t] \in Local
    BY TypesAt
  <2>2. [loc[t] EXCEPT !.idx = Virtual, !.obj = a] \in Local
    BY <1>2, <2>1, LocalFields
  <2>3. [loc[t] EXCEPT !.idx = Virtual] \in Local
    BY <1>2, <2>1, LocalFields
  <2> QED
    BY <1>3, <2>2, <2>3, SetLocal
<1> QED
  BY <1>1, <1>4 DEF ReadSlot, TypeOK, tables, handles


LEMMA RefreshStartType ==
  ASSUME TypeOK, NEW t \in Thread, NEW from \in Label, NEW store \in Label,
         RefreshStart(t, from, store)
  PROVE  TypeOK'
<1>1. pc' \in [Thread -> Label]
  BY GotoType DEF RefreshStart
<1>2. PICK ok \in BOOLEAN :
        LET r == start_tracing2log_file(log_file, t, ok)
        IN  \/ /\ log_file' = r.table
               /\ loc' = [loc EXCEPT ![t] = [loc[t] EXCEPT !.file = r.plog_file]]
            \/ UNCHANGED <<log_file, loc>>
  BY DEF RefreshStart, Fopen, TypeOK
<1> DEFINE r == start_tracing2log_file(log_file, t, ok)
<1>3. log_file \in [LogIdx -> LogFile] /\ loc \in [Thread -> Local]
  BY DEF TypeOK
<1>4. r.plog_file \in LogIdx \cup {NULL} /\ r.table \in [LogIdx -> LogFile]
  BY <1>3, StartType
<1>5. \/ /\ log_file' = r.table
         /\ loc' = [loc EXCEPT ![t] = [loc[t] EXCEPT !.file = r.plog_file]]
      \/ UNCHANGED <<log_file, loc>>
  BY <1>2
<1> HIDE DEF r
<1>6. log_file' \in [LogIdx -> LogFile]
  BY <1>3, <1>4, <1>5
<1>7. loc' \in [Thread -> Local]
  BY <1>3, <1>4, <1>5, TypesAt, LocalFields, SetLocal
<1> QED
  BY <1>1, <1>6, <1>7 DEF RefreshStart, TypeOK, tables, handles

LEMMA RefreshStoreType ==
  ASSUME TypeOK, NEW t \in Thread, NEW store \in Label, NEW to \in Label,
         RefreshStore(t, store, to)
  PROVE  TypeOK'
<1>1. pc' \in [Thread -> Label]
  BY GotoType DEF RefreshStore
<1>2. loc' = [loc EXCEPT ![t] = [loc[t] EXCEPT !.file = NULL]]
  BY DEF RefreshStore, TypeOK
<1>3. loc' \in [Thread -> Local]
  BY <1>2, TypesAt, LocalFields, SetLocal
<1> DEFINE a == loc[t].obj
<1>4. a \in Address => SwitchLogFile(heap[a], t, loc[t].file) \in TraceContext
  BY TypesAt, SwitchType DEF TypeOK
<1>5. heap' = [heap EXCEPT ![a] = SwitchLogFile(heap[a], t, loc[t].file)]
  BY DEF RefreshStore
<1>6. heap' \in [Address -> TraceContext]
  BY <1>4, <1>5 DEF TypeOK
<1> QED
  BY <1>1, <1>3, <1>6 DEF RefreshStore, TypeOK, tables, handles

LEMMA TraceCallType ==
  ASSUME TypeOK, NEW t \in Thread, TraceCall(t)
  PROVE  TypeOK'
<1>1. pc' \in [Thread -> Label]
  BY GotoType DEF TraceCall, Label
<1>2. loc' = [loc EXCEPT ![t] = [loc[t] EXCEPT !.obj = NULL]]
  BY DEF TraceCall, TypeOK
<1>3. loc' \in [Thread -> Local]
  BY <1>2, TypesAt, LocalFields, SetLocal
<1> QED
  BY <1>1, <1>3 DEF TraceCall, TypeOK, tables, handles


LEMMA va_TraceStatusType ==
  ASSUME TypeOK, NEW t \in Thread, va_TraceStatus(t)
  PROVE  TypeOK'
<1>1. pc' \in [Thread -> Label]
  BY GotoType DEF va_TraceStatus, Label
<1>2. loc' \in [Thread -> Local]
  BY LocalType DEF va_TraceStatus, TypeOK
<1>3. drv_config' \in [VAConfigID -> [state : HandleState, profile : VAProfile \cup {NULL}]]
  BY DEF va_TraceStatus, TypeOK, HandleState
<1>4. drv_context' \in [VAContextID -> HandleState]
  BY DEF va_TraceStatus, TypeOK, HandleState
<1> QED
  BY <1>1, <1>2, <1>3, <1>4 DEF va_TraceStatus, TypeOK, tables, handles


LEMMA DriverCreateConfigType ==
  ASSUME TypeOK, NEW t \in Thread, DriverCreateConfig(t)
  PROVE  TypeOK'
<1>1. pc' \in [Thread -> Label]
  BY GotoType DEF DriverCreateConfig, Label
<1>2. loc' \in [Thread -> Local]
  <2>1. PICK p \in VAProfile, g \in VAConfigID \cup {VA_INVALID_ID} :
          loc' \in {[loc EXCEPT ![t] = OnConfig(g, p, "idle")],
                   [loc EXCEPT ![t] = OnConfig(g, p, "free")]}
    BY DEF DriverCreateConfig
  <2>2. OnConfig(g, p, "idle") \in Local /\ OnConfig(g, p, "free") \in Local
    BY LocalType
  <2> QED
    BY <2>1, <2>2 DEF TypeOK
<1>3. drv_config' \in [VAConfigID -> [state : HandleState,
                                  profile : VAProfile \cup {NULL}]]
  BY DEF DriverCreateConfig, TypeOK, HandleState
<1> QED
  BY <1>1, <1>2, <1>3 DEF DriverCreateConfig, TypeOK, tables


LEMMA DriverDestroyConfigType ==
  ASSUME TypeOK, NEW t \in Thread, DriverDestroyConfig(t)
  PROVE  TypeOK'
<1>1. pc' \in [Thread -> Label]
  BY GotoType DEF DriverDestroyConfig, Label
<1>2. loc' \in [Thread -> Local]
  BY LocalType DEF DriverDestroyConfig, TypeOK
<1>3. drv_config' \in [VAConfigID -> [state : HandleState,
                                  profile : VAProfile \cup {NULL}]]
  BY DEF DriverDestroyConfig, TypeOK, HandleState
<1> QED
  BY <1>1, <1>2, <1>3 DEF DriverDestroyConfig, TypeOK, tables


LEMMA DriverCreateContextType ==
  ASSUME TypeOK, NEW t \in Thread, DriverCreateContext(t)
  PROVE  TypeOK'
<1>1. pc' \in [Thread -> Label]
  BY GotoType DEF DriverCreateContext, Label
<1>2. loc' \in [Thread -> Local]
  BY LocalType DEF DriverCreateContext, TypeOK
<1>3. drv_context' \in [VAContextID -> HandleState]
  BY DEF DriverCreateContext, TypeOK, HandleState
<1> QED
  BY <1>1, <1>2, <1>3 DEF DriverCreateContext, TypeOK, tables


LEMMA DriverDestroyContextType ==
  ASSUME TypeOK, NEW t \in Thread, DriverDestroyContext(t)
  PROVE  TypeOK'
<1>1. pc' \in [Thread -> Label]
  BY GotoType DEF DriverDestroyContext, Label
<1>2. loc' \in [Thread -> Local]
  BY LocalType DEF DriverDestroyContext, TypeOK
<1>3. /\ drv_context' \in [VAContextID -> HandleState]
      /\ entry' \in [VAContextID -> Address \cup {NULL}]
  BY DEF DriverDestroyContext, TypeOK, HandleState
<1> QED
  BY <1>1, <1>2, <1>3 DEF DriverDestroyContext, TypeOK, tables


LEMMA CallOnContextType ==
  ASSUME TypeOK, NEW t \in Thread, CallOnContext(t)
  PROVE  TypeOK'
<1>1. pc' \in [Thread -> Label]
  BY GotoType DEF CallOnContext, Label
<1>2. loc' \in [Thread -> Local]
  BY LocalType DEF CallOnContext, TypeOK
<1>3. drv_context' \in [VAContextID -> HandleState]
  BY DEF CallOnContext, TypeOK, HandleState
<1> QED
  BY <1>1, <1>2, <1>3 DEF CallOnContext, TypeOK, tables


(* The initial states and every step keep the types of all the variables.  *)
THEOREM TypeCorrect == Spec => []TypeOK
<1>1. ASSUME TypeOK, [Next]_vars
      PROVE  TypeOK'
  <2>1. CASE UNCHANGED vars
    BY <1>1, <2>1 DEF TypeOK, vars
  <2>2. ASSUME NEW t \in Thread, Begin(t)
        PROVE  TypeOK'
    BY <1>1, <2>2, DriverCreateConfigType, DriverDestroyConfigType,
       DriverCreateContextType, DriverDestroyContextType, CallOnContextType
       DEF Begin
  <2>3. ASSUME NEW t \in Thread, Continue(t)
        PROVE  TypeOK'
    <3>1. ASSUME NEW from \in Label, NEW to \in Label,
                 \/ EnterVirtual(t, from, to)
                 \/ RefreshStart(t, from, to)
                 \/ RefreshStore(t, from, to)
          PROVE  TypeOK'
      BY <1>1, <3>1, EnterVirtualType, RefreshStartType, RefreshStoreType
    <3>2. CASE \/ EnterVirtual(t, "add_config_lock", "add_config")
               \/ EnterVirtual(t, "delete_config_lock", "delete_config")
               \/ EnterVirtual(t, "status_lock", "status")
               \/ RefreshStart(t, "destroy_refresh", "destroy_store")
               \/ RefreshStart(t, "call_refresh", "call_store")
               \/ RefreshStore(t, "destroy_store", "destroy_update")
               \/ RefreshStore(t, "call_store", "call_print")
      BY <3>1, <3>2 DEF Label
    <3>3. CASE \/ va_TraceCreateConfig(t) \/ va_TraceDestroyConfig(t)
               \/ CreateLock(t) \/ CreateLog(t) \/ CreateUpdate(t)
               \/ CreateFail(t) \/ Reap(t) \/ Unlock(t)
      BY <1>1, <3>3, va_TraceCreateConfigType, va_TraceDestroyConfigType,
         CreateLockType, CreateLogType, CreateUpdateType, CreateFailType,
         ReapType, UnlockType
    <3>4. CASE \/ DestroyLock(t) \/ DestroyUpdate(t) \/ Lookup(t)
               \/ ReadSlot(t) \/ TraceCall(t) \/ va_TraceStatus(t)
      BY <1>1, <3>4, DestroyLockType, DestroyUpdateType, LookupType,
         ReadSlotType, TraceCallType, va_TraceStatusType
    <3> QED
      BY <2>3, <3>2, <3>3, <3>4 DEF Continue
  <2> QED
    BY <1>1, <2>1, <2>2, <2>3 DEF Next
<1> QED
  BY <1>1, InitType, PTL DEF Spec

-----------------------------------------------------------------------------
(***************************************************************************)
(* IInv is inductive, and with it EntryIsFound and FreedOnce.              *)
(***************************************************************************)

(* The locals and the place of every thread but t are unchanged.           *)
Others(t) == \A u \in Thread : u # t => pc'[u] = pc[u] /\ loc'[u] = loc[u]

(* The slots keep their trace_contexts, and these what the tables read.    *)
SlotsKept ==
  /\ ptra_ctx' = ptra_ctx
  /\ \A i \in Slot : ptra_ctx[i] # NULL =>
       /\ heap'[ptra_ctx[i]].mem = heap[ptra_ctx[i]].mem
       /\ heap'[ptra_ctx[i]].trace_context = heap[ptra_ctx[i]].trace_context
       /\ heap'[ptra_ctx[i]].created_thd_id = heap[ptra_ctx[i]].created_thd_id

(* What a thread owns stays allocated.                                     *)
OwnKept(u) ==
  /\ loc[u].old # NULL => heap'[loc[u].old].mem = heap[loc[u].old].mem
  /\ loc[u].obj # NULL /\ pc[u] \in Creating \cup Ending =>
       heap'[loc[u].obj].mem = heap[loc[u].obj].mem

LEMMA SlotsStay ==
  ASSUME SlotsInv, SlotsKept
  PROVE  /\ SlotsInv'
         /\ \A i \in CtxIdx, c \in VAContextID : Holds(i, c)' <=> Holds(i, c)
         /\ \A i \in CtxIdx, c \in VAContextID : FirstHolds(i, c)' <=> FirstHolds(i, c)
<1>1. SlotsInv'
  BY DEF SlotsInv, SlotsKept, Slot
<1>2. \A i \in CtxIdx, c \in VAContextID : Holds(i, c)' <=> Holds(i, c)
  BY DEF SlotsKept, Holds, Slot
<1> QED
  BY <1>1, <1>2 DEF FirstHolds

(* A step of t that keeps the slots, and the entries or clears one, keeps  *)
(* IInv if it keeps the parts that speak of t and leaves what other        *)
(* threads own allocated.                                                  *)
LEMMA QuietStep ==
  ASSUME IInv, TypeOK', NEW t \in Thread, Others(t), SlotsKept,
         \A c \in VAContextID : entry'[c] = entry[c] \/ entry'[c] = NULL,
         MutexInv', UsersInv', FreeInv', Place(t)', Own(t)', Idx(t)',
         \A u \in Thread : u # t => OwnKept(u),
         \A c \in VAContextID : entry'[c] # NULL => EntryKept(c, t)'
  PROVE  IInv'
<1>1. /\ SlotsInv'
      /\ \A i \in CtxIdx, c \in VAContextID : Holds(i, c)' <=> Holds(i, c)
      /\ \A i \in CtxIdx, c \in VAContextID : FirstHolds(i, c)' <=> FirstHolds(i, c)
  BY SlotsStay DEF IInv
<1>2. ASSUME NEW u \in Thread, u # t
      PROVE  Place(u)' /\ Own(u)' /\ Idx(u)'
  <2>1. pc'[u] = pc[u] /\ loc'[u] = loc[u] /\ Place(u) /\ Own(u) /\ Idx(u) /\ OwnKept(u)
    BY <1>2 DEF Others, IInv
  <2>2. loc[u].c \in VAContextID \cup {NULL} /\ loc[u].idx \in CtxIdx \cup {Virtual}
    BY TypesAt DEF IInv
  <2>3. Place(u)'
    BY <2>1, <2>2 DEF Place
  <2>4. Own(u)'
    BY <2>1 DEF Own, OwnKept, Live, SlotsKept
  <2>5. Idx(u)'
    <3>1. loc[u].c # NULL \/ pc[u] \notin Creating \cup Removing
      BY <2>1 DEF Place
    <3> QED
      BY <1>1, <2>1, <2>2, <3>1 DEF Idx, SlotsKept
  <2> QED
    BY <2>3, <2>4, <2>5
<1>3. ASSUME NEW c \in VAContextID, entry'[c] # NULL
      PROVE  EntrySlot(c)' /\ \A u \in Thread : EntryKept(c, u)'
  <2>0. entry'[c] = entry[c] /\ entry[c] # NULL
    BY <1>3
  <2>1. EntrySlot(c) /\ \A u \in Thread : EntryKept(c, u)
    BY <2>0 DEF IInv
  <2>2. PICK i \in CtxIdx : ptra_ctx[i] = entry[c] /\ FirstHolds(i, c)
    BY <2>1 DEF EntrySlot
  <2>3. EntrySlot(c)'
    BY <1>1, <2>0, <2>2 DEF EntrySlot, SlotsKept
  <2>4. heap'[entry[c]].created_thd_id = heap[entry[c]].created_thd_id
    BY <2>0, <2>2 DEF SlotsKept, Slot
  <2>5. ASSUME NEW u \in Thread, u # t
        PROVE  EntryKept(c, u)'
    BY <2>0, <2>1, <2>4, <2>5 DEF EntryKept, Others, SlotsKept
  <2> QED
    BY <1>3, <2>3, <2>5
<1> QED
  BY <1>1, <1>2, <1>3 DEF IInv

-----------------------------------------------------------------------------
(* The mutex: taken, given back or left alone.                             *)
LEMMA MutexStep ==
  ASSUME TypeOK, MutexInv, NEW t \in Thread, Others(t),
         \/ /\ context_mutex' = context_mutex
            /\ pc[t] \in InMutex <=> pc'[t] \in InMutex
         \/ /\ context_mutex = NULL /\ context_mutex' = t
            /\ pc'[t] \in InMutex
         \/ /\ pc[t] \in InMutex /\ context_mutex' = NULL
            /\ pc'[t] \notin InMutex
  PROVE  MutexInv'
<1>1. NULL \notin Thread
  BY TraceAssumption
<1> HIDE DEF InMutex
<1> QED
  BY <1>1 DEF MutexInv, Others

(* A thread in the mutex owns things; no other thread owns any.            *)
LEMMA OnlyOwner ==
  ASSUME IInv, NEW t \in Thread, pc[t] \in InMutex, NEW u \in Thread, u # t
  PROVE  /\ loc[u].old = NULL
         /\ loc[u].obj # NULL => pc[u] \in Using
         /\ pc[u] \notin Creating \cup Ending \cup Removing
<1>1. pc[u] \notin InMutex
  BY DEF IInv, MutexInv
<1>2. Own(u)
  BY DEF IInv
<1> QED
  BY <1>1, <1>2 DEF Own, InMutex, Ending

(* The users of contexts stay the same when t goes on with its context.    *)
LEMMA UsersStep ==
  ASSUME UsersInv, NEW t \in Thread, Others(t), drv_context' = drv_context,
         loc'[t].c = NULL \/ (loc'[t].c = loc[t].c /\ loc'[t].after = loc[t].after)
  PROVE  UsersInv'
BY DEF UsersInv, Others

(* The slots keep their trace_contexts when a file is switched in one.     *)
LEMMA SwitchKeeps ==
  ASSUME TypeOK, NEW t \in Thread, NEW f \in LogIdx \cup {NULL}, NEW a,
         heap' = [heap EXCEPT ![a] = SwitchLogFile(heap[a], t, f)],
         ptra_ctx' = ptra_ctx
  PROVE  SlotsKept /\ \A u \in Thread : OwnKept(u)
<1>1. heap \in [Address -> TraceContext]
  BY DEF TypeOK
<1>2. ASSUME NEW b \in Address
      PROVE  /\ heap'[b].mem = heap[b].mem
             /\ heap'[b].trace_context = heap[b].trace_context
             /\ heap'[b].created_thd_id = heap[b].created_thd_id
  <2>1. CASE b = a
    BY <1>1, <2>1, SwitchType
  <2>2. CASE b # a
    BY <1>1, <2>2
  <2> QED
    BY <2>1, <2>2
<1>3. \A i \in Slot : ptra_ctx[i] # NULL => ptra_ctx[i] \in Address
  BY DEF TypeOK, Slot
<1>4. ASSUME NEW u \in Thread
      PROVE  OwnKept(u)
  BY <1>2, TypesAt DEF OwnKept
<1> QED
  BY <1>2, <1>3, <1>4 DEF SlotsKept

LEMMA SameHeap ==
  ASSUME heap' = heap, ptra_ctx' = ptra_ctx
  PROVE  SlotsKept /\ \A u \in Thread : OwnKept(u)
BY DEF SlotsKept, OwnKept

LEMMA EnterVirtualInv ==
  ASSUME IInv, NEW t \in Thread, NEW from \in Label, NEW to \in InMutex,
         to \in {"add_config", "delete_config", "status"},
         from \notin InMutex \cup Using, EnterVirtual(t, from, to)
  PROVE  IInv'
<1>0. TypeOK /\ MutexInv /\ UsersInv /\ FreeInv /\ SlotsInv /\ Place(t) /\ Own(t)
  BY DEF IInv
<1>1. TypeOK'
  <2>1. to \in Label
    BY DEF Label
  <2> QED
    BY <1>0, <2>1, EnterVirtualType
<1>2. /\ pc[t] = from /\ pc'[t] = to /\ loc' = loc /\ Others(t)
      /\ drv_context' = drv_context /\ entry' = entry /\ ptra_ctx' = ptra_ctx
      /\ context_mutex = NULL /\ context_mutex' = t
  BY <1>0 DEF EnterVirtual, Goto, Others, handles, tables, TypeOK
<1>3. SlotsKept /\ \A u \in Thread : OwnKept(u)
  <2> DEFINE v == ptra_ctx[Virtual]
  <2>1. PICK ok \in BOOLEAN :
          LET r == start_tracing2log_file(log_file, t, ok)
          IN  heap' \in {heap, [heap EXCEPT ![v] =
                                  SwitchLogFile(heap[v], t, r.plog_file)]}
    BY DEF EnterVirtual, Fopen
  <2> DEFINE r == start_tracing2log_file(log_file, t, ok)
  <2>2. r.plog_file \in LogIdx \cup {NULL}
    BY <1>0, StartType DEF TypeOK
  <2> HIDE DEF r, v
  <2>3. CASE heap' = heap
    BY <1>2, <2>3, SameHeap
  <2>4. CASE heap' = [heap EXCEPT ![v] = SwitchLogFile(heap[v], t, r.plog_file)]
    BY <1>0, <1>2, <2>2, <2>4, SwitchKeeps
  <2> QED
    BY <2>1, <2>3, <2>4 DEF r
<1>4. MutexInv'
  BY <1>0, <1>2, MutexStep
<1>5. UsersInv' /\ FreeInv'
  BY <1>0, <1>2, UsersStep DEF FreeInv
<1>6. Place(t)' /\ Own(t)' /\ Idx(t)'
  BY <1>0, <1>2 DEF Place, Own, Idx, Creating, Using, Removing, Ending, InMutex
<1>7. \A c \in VAContextID : EntryKept(c, t)'
  BY <1>2 DEF EntryKept, Using, Removing
<1> QED
  BY <1>1, <1>2, <1>3, <1>4, <1>5, <1>6, <1>7, QuietStep

LEMMA va_TraceCreateConfigInv ==
  ASSUME IInv, NEW t \in Thread, va_TraceCreateConfig(t)
  PROVE  IInv'
<1>0. TypeOK /\ MutexInv /\ UsersInv /\ FreeInv /\ SlotsInv /\ Place(t) /\ Own(t) /\ Idx(t)
  BY DEF IInv
<1>1. TypeOK'
  BY <1>0, va_TraceCreateConfigType
<1>2. /\ pc[t] = "add_config" /\ pc'[t] = "status_lock" /\ loc' = loc /\ Others(t)
      /\ drv_context' = drv_context /\ entry' = entry /\ ptra_ctx' = ptra_ctx
      /\ heap' = heap /\ context_mutex' = NULL
  BY <1>0 DEF va_TraceCreateConfig, Goto, Others, handles, tables, TypeOK
<1>3. SlotsKept /\ \A u \in Thread : u # t => OwnKept(u)
  BY <1>2, SameHeap
<1>4. MutexInv'
  BY <1>0, <1>2, MutexStep DEF InMutex, Creating, Removing, Ending
<1>5. UsersInv' /\ FreeInv'
  BY <1>0, <1>2, UsersStep DEF FreeInv
<1>6. Place(t)' /\ Own(t)' /\ Idx(t)'
  BY <1>0, <1>2 DEF Place, Own, Idx, Creating, Using, Removing, Ending
<1>7. \A c \in VAContextID : entry'[c] # NULL => EntryKept(c, t)'
  BY <1>2 DEF EntryKept, Using, Removing
<1> QED
  BY <1>1, <1>2, <1>3, <1>4, <1>5, <1>6, <1>7, QuietStep

LEMMA va_TraceDestroyConfigInv ==
  ASSUME IInv, NEW t \in Thread, va_TraceDestroyConfig(t)
  PROVE  IInv'
<1>0. TypeOK /\ MutexInv /\ UsersInv /\ FreeInv /\ SlotsInv /\ Place(t) /\ Own(t) /\ Idx(t)
  BY DEF IInv
<1>1. TypeOK'
  BY <1>0, va_TraceDestroyConfigType
<1>2. /\ pc[t] = "delete_config" /\ pc'[t] = "status_lock" /\ loc' = loc /\ Others(t)
      /\ drv_context' = drv_context /\ entry' = entry /\ ptra_ctx' = ptra_ctx
      /\ heap' = heap /\ context_mutex' = NULL
  BY <1>0 DEF va_TraceDestroyConfig, Goto, Others, handles, tables, TypeOK
<1>3. SlotsKept /\ \A u \in Thread : u # t => OwnKept(u)
  BY <1>2, SameHeap
<1>4. MutexInv'
  BY <1>0, <1>2, MutexStep DEF InMutex, Creating, Removing, Ending
<1>5. UsersInv' /\ FreeInv'
  BY <1>0, <1>2, UsersStep DEF FreeInv
<1>6. Place(t)' /\ Own(t)' /\ Idx(t)'
  BY <1>0, <1>2 DEF Place, Own, Idx, Creating, Using, Removing, Ending
<1>7. \A c \in VAContextID : entry'[c] # NULL => EntryKept(c, t)'
  BY <1>2 DEF EntryKept, Using, Removing
<1> QED
  BY <1>1, <1>2, <1>3, <1>4, <1>5, <1>6, <1>7, QuietStep

LEMMA LookupInv ==
  ASSUME IInv, NEW t \in Thread, Lookup(t)
  PROVE  IInv'
<1>0. TypeOK /\ MutexInv /\ UsersInv /\ FreeInv /\ SlotsInv /\ Place(t) /\ Own(t) /\ Idx(t)
  BY DEF IInv
<1>1. TypeOK'
  BY <1>0, LookupType
<1>2. /\ pc[t] = "lookup" /\ Others(t)
      /\ loc'[t].c = loc[t].c /\ loc'[t].after = loc[t].after
      /\ loc'[t].obj = loc[t].obj /\ loc'[t].old = loc[t].old
      /\ \/ pc'[t] = "read_slot" /\ loc'[t].idx = get_valid_ctx_idx(loc[t].c)
                                 /\ get_valid_ctx_idx(loc[t].c) \in CtxIdx
         \/ pc'[t] = "status_lock"
      /\ drv_context' = drv_context /\ entry' = entry /\ ptra_ctx' = ptra_ctx /\ heap' = heap /\ context_mutex' = context_mutex
  BY <1>0 DEF Lookup, Goto, Others, handles, tables, TypeOK, Local
<1>3. SlotsKept /\ \A u \in Thread : u # t => OwnKept(u)
  BY <1>2, SameHeap
<1>4. MutexInv'
  BY <1>0, <1>2, MutexStep DEF InMutex, Creating, Removing, Ending
<1>5. UsersInv' /\ FreeInv'
  BY <1>0, <1>2, UsersStep DEF FreeInv
<1>6. Place(t)' /\ Own(t)' /\ Idx(t)'
  BY <1>0, <1>2 DEF Place, Own, Idx, Creating, Using, Removing, Ending
<1>7. \A c \in VAContextID : entry'[c] # NULL => EntryKept(c, t)'
  <2> SUFFICES ASSUME NEW c \in VAContextID, entry[c] # NULL, loc[t].c = c,
                      pc'[t] = "read_slot"
               PROVE  ptra_ctx[loc'[t].idx] = entry[c]
    BY <1>2 DEF EntryKept, Using, Removing
  <2>1. PICK i \in CtxIdx : ptra_ctx[i] = entry[c] /\ FirstHolds(i, c)
    BY DEF IInv, EntrySlot
  <2> DEFINE k == get_valid_ctx_idx(c)
  <2>2. k \in CtxIdx /\ Holds(k, c) /\ \A j \in CtxIdx : j < k => ~Holds(j, c)
    BY <1>2, ValidCtxIdx DEF Holds
  <2>3. k \in Int /\ i \in Int
    BY <2>1, <2>2, TraceAssumption DEF CtxIdx
  <2> HIDE DEF k
  <2>4. k = i
    BY <2>1, <2>2, <2>3 DEF FirstHolds
  <2> QED
    BY <1>2, <2>1, <2>4 DEF k
<1> QED
  BY <1>1, <1>2, <1>3, <1>4, <1>5, <1>6, <1>7, QuietStep

LEMMA ReadSlotInv ==
  ASSUME IInv, NEW t \in Thread, ReadSlot(t)
  PROVE  IInv'
<1>0. TypeOK /\ MutexInv /\ UsersInv /\ FreeInv /\ SlotsInv /\ Place(t) /\ Own(t) /\ Idx(t)
  BY DEF IInv
<1>1. TypeOK'
  BY <1>0, ReadSlotType
<1>2. /\ pc[t] = "read_slot" /\ Others(t)
      /\ loc'[t].c = loc[t].c /\ loc'[t].after = loc[t].after /\ loc'[t].old = loc[t].old
      /\ \/ pc'[t] = "call_refresh" /\ loc'[t].obj = ptra_ctx[loc[t].idx]
         \/ pc'[t] = "status_lock" /\ loc'[t].obj = loc[t].obj
      /\ drv_context' = drv_context /\ entry' = entry /\ ptra_ctx' = ptra_ctx /\ heap' = heap /\ context_mutex' = context_mutex
  <2> DEFINE a == ptra_ctx[loc[t].idx]
  <2>1. /\ pc[t] = "read_slot" /\ UNCHANGED <<handles, tables, context_mutex, heap>>
        /\ \/ /\ loc' = [loc EXCEPT ![t] = [loc[t] EXCEPT !.idx = Virtual, !.obj = a]]
              /\ Goto(t, "call_refresh")
           \/ /\ loc' = [loc EXCEPT ![t] = [loc[t] EXCEPT !.idx = Virtual]]
              /\ Goto(t, "status_lock")
    BY DEF ReadSlot
  <2>2. pc \in [Thread -> Label] /\ loc \in [Thread -> Local] /\ loc[t] \in Local
    BY <1>0 DEF TypeOK
  <2> HIDE DEF a
  <2>3. CASE /\ loc' = [loc EXCEPT ![t] = [loc[t] EXCEPT !.idx = Virtual, !.obj = a]]
             /\ Goto(t, "call_refresh")
    BY <2>1, <2>2, <2>3 DEF Goto, Others, handles, tables, Local, a
  <2>4. CASE /\ loc' = [loc EXCEPT ![t] = [loc[t] EXCEPT !.idx = Virtual]]
             /\ Goto(t, "status_lock")
    BY <2>1, <2>2, <2>4 DEF Goto, Others, handles, tables, Local
  <2> QED
    BY <2>1, <2>3, <2>4
<1>3. SlotsKept /\ \A u \in Thread : u # t => OwnKept(u)
  BY <1>2, SameHeap
<1>4. MutexInv'
  BY <1>0, <1>2, MutexStep DEF InMutex, Creating, Removing, Ending
<1>5. UsersInv' /\ FreeInv'
  BY <1>0, <1>2, UsersStep DEF FreeInv
<1>6. Place(t)' /\ Own(t)' /\ Idx(t)'
  BY <1>0, <1>2 DEF Place, Own, Idx, Creating, Using, Removing, Ending
<1>7. \A c \in VAContextID : entry'[c] # NULL => EntryKept(c, t)'
  <2>1. \A c \in VAContextID : entry[c] # NULL => EntryKept(c, t)
    BY DEF IInv
  <2> QED
    BY <1>2, <2>1 DEF EntryKept, Using, Removing
<1> QED
  BY <1>1, <1>2, <1>3, <1>4, <1>5, <1>6, <1>7, QuietStep

LEMMA TraceCallInv ==
  ASSUME IInv, NEW t \in Thread, TraceCall(t)
  PROVE  IInv'
<1>0. TypeOK /\ MutexInv /\ UsersInv /\ FreeInv /\ SlotsInv /\ Place(t) /\ Own(t) /\ Idx(t)
  BY DEF IInv
<1>1. TypeOK'
  BY <1>0, TraceCallType
<1>2. /\ pc[t] = "call_print" /\ Others(t)
      /\ loc'[t].c = loc[t].c /\ loc'[t].after = loc[t].after /\ loc'[t].old = loc[t].old
      /\ pc'[t] = "status_lock" /\ loc'[t].obj = NULL
      /\ drv_context' = drv_context /\ entry' = entry /\ ptra_ctx' = ptra_ctx /\ heap' = heap /\ context_mutex' = context_mutex
  BY <1>0 DEF TraceCall, Goto, Others, handles, tables, TypeOK, Local
<1>3. SlotsKept /\ \A u \in Thread : u # t => OwnKept(u)
  BY <1>2, SameHeap
<1>4. MutexInv'
  BY <1>0, <1>2, MutexStep DEF InMutex, Creating, Removing, Ending
<1>5. UsersInv' /\ FreeInv'
  BY <1>0, <1>2, UsersStep DEF FreeInv
<1>6. Place(t)' /\ Own(t)' /\ Idx(t)'
  BY <1>0, <1>2 DEF Place, Own, Idx, Creating, Using, Removing, Ending
<1>7. \A c \in VAContextID : entry'[c] # NULL => EntryKept(c, t)'
  BY <1>2 DEF EntryKept, Using, Removing
<1> QED
  BY <1>1, <1>2, <1>3, <1>4, <1>5, <1>6, <1>7, QuietStep

LEMMA DestroyLockInv ==
  ASSUME IInv, NEW t \in Thread, DestroyLock(t)
  PROVE  IInv'
<1>0. TypeOK /\ MutexInv /\ UsersInv /\ FreeInv /\ SlotsInv /\ Place(t) /\ Own(t) /\ Idx(t)
  BY DEF IInv
<1>1. TypeOK'
  BY <1>0, DestroyLockType
<1>2. /\ pc[t] = "destroy_lock" /\ Others(t)
      /\ loc'[t].c = loc[t].c /\ loc'[t].after = loc[t].after /\ loc'[t].old = loc[t].old
      /\ \/ /\ pc'[t] = "destroy_refresh" /\ loc'[t].idx = get_valid_ctx_idx(loc[t].c)
            /\ get_valid_ctx_idx(loc[t].c) \in CtxIdx
         \/ pc'[t] = "unlock" /\ loc'[t].obj = loc[t].obj
      /\ drv_context' = drv_context /\ entry' = entry /\ ptra_ctx' = ptra_ctx /\ heap' = heap /\ context_mutex = NULL /\ context_mutex' = t
  <2> DEFINE k == get_valid_ctx_idx(loc[t].c)
  <2>1. /\ pc[t] = "destroy_lock" /\ UNCHANGED <<handles, tables, heap>>
        /\ context_mutex = NULL /\ context_mutex' = t
        /\ \/ /\ loc' = [loc EXCEPT ![t] = [loc[t] EXCEPT !.idx = k, !.obj = ptra_ctx[k]]]
              /\ Goto(t, "destroy_refresh") /\ k \in CtxIdx
           \/ loc' = loc /\ Goto(t, "unlock")
    BY DEF DestroyLock
  <2>2. pc \in [Thread -> Label] /\ loc \in [Thread -> Local] /\ loc[t] \in Local
    BY <1>0 DEF TypeOK
  <2> HIDE DEF k
  <2>3. CASE /\ loc' = [loc EXCEPT ![t] = [loc[t] EXCEPT !.idx = k, !.obj = ptra_ctx[k]]]
             /\ Goto(t, "destroy_refresh") /\ k \in CtxIdx
    <3>1. loc'[t] = [loc[t] EXCEPT !.idx = k, !.obj = ptra_ctx[k]] /\ Others(t)
      BY <2>2, <2>3 DEF Others, Goto
    <3>2. /\ loc'[t].c = loc[t].c /\ loc'[t].after = loc[t].after
          /\ loc'[t].old = loc[t].old /\ loc'[t].idx = k
      BY <2>2, <3>1 DEF Local
    <3> QED
      BY <2>1, <2>2, <2>3, <3>1, <3>2 DEF Goto, handles, tables, k
  <2>4. CASE loc' = loc /\ Goto(t, "unlock")
    BY <2>1, <2>2, <2>4 DEF Goto, Others, handles, tables
  <2> QED
    BY <2>1, <2>3, <2>4
<1>3. SlotsKept /\ \A u \in Thread : u # t => OwnKept(u)
  BY <1>2, SameHeap
<1>4. MutexInv'
  BY <1>0, <1>2, MutexStep DEF InMutex, Creating, Removing, Ending
<1>5. UsersInv' /\ FreeInv'
  BY <1>0, <1>2, UsersStep DEF FreeInv
<1>6. Place(t)' /\ Own(t)' /\ Idx(t)'
  <2> DEFINE k == get_valid_ctx_idx(loc[t].c)
  <2>1. k \in CtxIdx => Holds(k, loc[t].c) /\ \A j \in CtxIdx : j < k => ~Holds(j, loc[t].c)
    BY ValidCtxIdx DEF Holds
  <2>3. Place(t)' /\ Own(t)'
    BY <1>0, <1>2 DEF Place, Own, Creating, Using, Removing, Ending
  <2> HIDE DEF k
  <2>4. ASSUME pc'[t] = "destroy_refresh"
        PROVE  Idx(t)'
    <3>1. PICK i \in CtxIdx : i = k
      BY <1>2, <2>4 DEF k
    <3>2. loc'[t].idx = i /\ loc'[t].c = loc[t].c
      BY <1>2, <2>4, <3>1 DEF k
    <3>3. Holds(i, loc[t].c) /\ \A j \in CtxIdx : j < i => ~Holds(j, loc[t].c)
      BY <2>1, <3>1
    <3>4. /\ ptra_ctx'[i] # NULL /\ heap'[ptra_ctx'[i]].trace_context = loc'[t].c
          /\ \A j \in CtxIdx : j < i =>
               ~ (ptra_ctx'[j] # NULL /\ heap'[ptra_ctx'[j]].trace_context = loc'[t].c)
      BY <1>2, <3>2, <3>3 DEF Holds
    <3> QED
      BY <2>4, <3>2, <3>4 DEF Idx, FirstHolds, Holds, Creating, Removing
  <2>6. ASSUME pc'[t] = "unlock"
        PROVE  Idx(t)'
    BY <2>6 DEF Idx, Creating, Removing
  <2>5. Idx(t)'
    BY <1>2, <2>4, <2>6
  <2> QED
    BY <2>3, <2>5
<1>7. \A c \in VAContextID : entry'[c] # NULL => EntryKept(c, t)'
  <2>1. \A c \in VAContextID : entry[c] # NULL => EntryKept(c, t)
    BY DEF IInv
  <2> QED
    BY <1>2, <2>1 DEF EntryKept, Using, Removing
<1> QED
  BY <1>1, <1>2, <1>3, <1>4, <1>5, <1>6, <1>7, QuietStep

LEMMA UnlockInv ==
  ASSUME IInv, NEW t \in Thread, Unlock(t)
  PROVE  IInv'
<1>0. TypeOK /\ MutexInv /\ UsersInv /\ FreeInv /\ SlotsInv /\ Place(t) /\ Own(t) /\ Idx(t)
  BY DEF IInv
<1>1. TypeOK'
  BY <1>0, UnlockType
<1>2. /\ pc[t] = "unlock" /\ Others(t)
      /\ loc'[t].c = loc[t].c /\ loc'[t].after = loc[t].after /\ loc'[t].old = loc[t].old
      /\ pc'[t] = "status_lock" /\ loc'[t].obj = NULL
      /\ drv_context' = drv_context /\ entry' = entry /\ ptra_ctx' = ptra_ctx
      /\ heap' = IF loc[t].obj = NULL THEN heap ELSE [heap EXCEPT ![loc[t].obj] = Freed]
      /\ context_mutex' = NULL
  BY <1>0 DEF Unlock, Goto, Others, handles, tables, TypeOK, Local
<1>3. SlotsKept /\ \A u \in Thread : u # t => OwnKept(u)
  <2>1. \A i \in Slot : loc[t].obj # NULL => ptra_ctx[i] # loc[t].obj
    BY <1>0, <1>2 DEF Own, Ending, Live
  <2>2. SlotsKept
    BY <1>2, <2>1 DEF SlotsKept
  <2>3. ASSUME NEW u \in Thread, u # t
        PROVE  OwnKept(u)
    BY <1>2, <2>3, OnlyOwner DEF OwnKept, InMutex, Ending
  <2> QED
    BY <2>2, <2>3
<1>4. MutexInv'
  BY <1>0, <1>2, MutexStep DEF InMutex, Creating, Removing, Ending
<1>5. UsersInv' /\ FreeInv'
  BY <1>0, <1>2, UsersStep DEF FreeInv
<1>6. Place(t)' /\ Own(t)' /\ Idx(t)'
  BY <1>0, <1>2 DEF Place, Own, Idx, Creating, Using, Removing, Ending
<1>7. \A c \in VAContextID : entry'[c] # NULL => EntryKept(c, t)'
  BY <1>2 DEF EntryKept, Using, Removing
<1> QED
  BY <1>1, <1>2, <1>3, <1>4, <1>5, <1>6, <1>7, QuietStep

LEMMA DestroyRefreshStartInv ==
  ASSUME IInv, NEW t \in Thread, RefreshStart(t, "destroy_refresh", "destroy_store")
  PROVE  IInv'
<1>0. TypeOK /\ MutexInv /\ UsersInv /\ FreeInv /\ SlotsInv /\ Place(t) /\ Own(t) /\ Idx(t)
  BY DEF IInv
<1>1. TypeOK'
  BY <1>0, RefreshStartType DEF Label
<1>2. /\ pc[t] = "destroy_refresh" /\ pc'[t] = "destroy_store" /\ Others(t)
      /\ loc'[t].c = loc[t].c /\ loc'[t].after = loc[t].after /\ loc'[t].old = loc[t].old
      /\ loc'[t].obj = loc[t].obj /\ loc'[t].idx = loc[t].idx
      /\ drv_context' = drv_context /\ entry' = entry /\ ptra_ctx' = ptra_ctx /\ heap' = heap /\ context_mutex' = context_mutex
  <2>1. /\ pc[t] = "destroy_refresh" /\ UNCHANGED <<handles, tables, context_mutex, heap>>
        /\ Goto(t, "destroy_store")
        /\ \/ loc' = loc
           \/ \E f : loc' = [loc EXCEPT ![t] = [loc[t] EXCEPT !.file = f]]
    BY DEF RefreshStart
  <2>2. pc \in [Thread -> Label] /\ loc \in [Thread -> Local] /\ loc[t] \in Local
    BY <1>0 DEF TypeOK
  <2>3. /\ \A u \in Thread : u # t => loc'[u] = loc[u]
        /\ loc'[t].c = loc[t].c /\ loc'[t].after = loc[t].after /\ loc'[t].old = loc[t].old
        /\ loc'[t].obj = loc[t].obj /\ loc'[t].idx = loc[t].idx
    BY <2>1, <2>2 DEF Local
  <2> QED
    BY <2>1, <2>2, <2>3 DEF Goto, Others, handles, tables
<1>3. SlotsKept /\ \A u \in Thread : u # t => OwnKept(u)
  BY <1>2, SameHeap
<1>4. MutexInv'
  BY <1>0, <1>2, MutexStep DEF InMutex, Creating, Removing, Ending
<1>5. UsersInv' /\ FreeInv'
  BY <1>0, <1>2, UsersStep DEF FreeInv
<1>6. Place(t)' /\ Own(t)' /\ Idx(t)'
  BY <1>0, <1>2 DEF Place, Own, Idx, Creating, Using, Removing, Ending, FirstHolds, Holds
<1>7. \A c \in VAContextID : entry'[c] # NULL => EntryKept(c, t)'
  <2>1. \A c \in VAContextID : entry[c] # NULL => EntryKept(c, t)
    BY DEF IInv
  <2> QED
    BY <1>2, <2>1 DEF EntryKept, Using, Removing
<1> QED
  BY <1>1, <1>2, <1>3, <1>4, <1>5, <1>6, <1>7, QuietStep

LEMMA CallRefreshStartInv ==
  ASSUME IInv, NEW t \in Thread, RefreshStart(t, "call_refresh", "call_store")
  PROVE  IInv'
<1>0. TypeOK /\ MutexInv /\ UsersInv /\ FreeInv /\ SlotsInv /\ Place(t) /\ Own(t) /\ Idx(t)
  BY DEF IInv
<1>1. TypeOK'
  BY <1>0, RefreshStartType DEF Label
<1>2. /\ pc[t] = "call_refresh" /\ pc'[t] = "call_store" /\ Others(t)
      /\ loc'[t].c = loc[t].c /\ loc'[t].after = loc[t].after /\ loc'[t].old = loc[t].old
      /\ loc'[t].obj = loc[t].obj /\ loc'[t].idx = loc[t].idx
      /\ drv_context' = drv_context /\ entry' = entry /\ ptra_ctx' = ptra_ctx /\ heap' = heap /\ context_mutex' = context_mutex
  <2>1. /\ pc[t] = "call_refresh" /\ UNCHANGED <<handles, tables, context_mutex, heap>>
        /\ Goto(t, "call_store")
        /\ \/ loc' = loc
           \/ \E f : loc' = [loc EXCEPT ![t] = [loc[t] EXCEPT !.file = f]]
    BY DEF RefreshStart
  <2>2. pc \in [Thread -> Label] /\ loc \in [Thread -> Local] /\ loc[t] \in Local
    BY <1>0 DEF TypeOK
  <2>3. /\ \A u \in Thread : u # t => loc'[u] = loc[u]
        /\ loc'[t].c = loc[t].c /\ loc'[t].after = loc[t].after /\ loc'[t].old = loc[t].old
        /\ loc'[t].obj = loc[t].obj /\ loc'[t].idx = loc[t].idx
    BY <2>1, <2>2 DEF Local
  <2> QED
    BY <2>1, <2>2, <2>3 DEF Goto, Others, handles, tables
<1>3. SlotsKept /\ \A u \in Thread : u # t => OwnKept(u)
  BY <1>2, SameHeap
<1>4. MutexInv'
  BY <1>0, <1>2, MutexStep DEF InMutex, Creating, Removing, Ending
<1>5. UsersInv' /\ FreeInv'
  BY <1>0, <1>2, UsersStep DEF FreeInv
<1>6. Place(t)' /\ Own(t)' /\ Idx(t)'
  BY <1>0, <1>2 DEF Place, Own, Idx, Creating, Using, Removing, Ending, FirstHolds, Holds
<1>7. \A c \in VAContextID : entry'[c] # NULL => EntryKept(c, t)'
  <2>1. \A c \in VAContextID : entry[c] # NULL => EntryKept(c, t)
    BY DEF IInv
  <2> QED
    BY <1>2, <2>1 DEF EntryKept, Using, Removing
<1> QED
  BY <1>1, <1>2, <1>3, <1>4, <1>5, <1>6, <1>7, QuietStep

LEMMA DestroyRefreshStoreInv ==
  ASSUME IInv, NEW t \in Thread, RefreshStore(t, "destroy_store", "destroy_update")
  PROVE  IInv'
<1>0. TypeOK /\ MutexInv /\ UsersInv /\ FreeInv /\ SlotsInv /\ Place(t) /\ Own(t) /\ Idx(t)
  BY DEF IInv
<1>1. TypeOK'
  BY <1>0, RefreshStoreType DEF Label
<1>2. /\ pc[t] = "destroy_store" /\ pc'[t] = "destroy_update" /\ Others(t)
      /\ loc'[t].c = loc[t].c /\ loc'[t].after = loc[t].after /\ loc'[t].old = loc[t].old
      /\ loc'[t].obj = loc[t].obj /\ loc'[t].idx = loc[t].idx
      /\ heap' = [heap EXCEPT ![loc[t].obj] = SwitchLogFile(heap[loc[t].obj], t, loc[t].file)]
      /\ drv_context' = drv_context /\ entry' = entry /\ ptra_ctx' = ptra_ctx /\ context_mutex' = context_mutex
  <2>1. /\ pc[t] = "destroy_store" /\ UNCHANGED <<handles, tables, context_mutex>>
        /\ Goto(t, "destroy_update")
        /\ loc' = [loc EXCEPT ![t] = [loc[t] EXCEPT !.file = NULL]]
    BY DEF RefreshStore
  <2>2. pc \in [Thread -> Label] /\ loc \in [Thread -> Local] /\ loc[t] \in Local
    BY <1>0 DEF TypeOK
  <2>3. /\ \A u \in Thread : u # t => loc'[u] = loc[u]
        /\ loc'[t].c = loc[t].c /\ loc'[t].after = loc[t].after /\ loc'[t].old = loc[t].old
        /\ loc'[t].obj = loc[t].obj /\ loc'[t].idx = loc[t].idx
    BY <2>1, <2>2 DEF Local
  <2>4. heap' = [heap EXCEPT ![loc[t].obj] = SwitchLogFile(heap[loc[t].obj], t, loc[t].file)]
    BY DEF RefreshStore
  <2> QED
    BY <2>1, <2>2, <2>3, <2>4 DEF Goto, Others, handles, tables
<1>3. SlotsKept /\ \A u \in Thread : u # t => OwnKept(u)
  <2>1. loc[t].file \in LogIdx \cup {NULL}
    BY <1>0, TypesAt
  <2> QED
    BY <1>0, <1>2, <2>1, SwitchKeeps
<1>4. MutexInv'
  BY <1>0, <1>2, MutexStep DEF InMutex, Creating, Removing, Ending
<1>5. UsersInv' /\ FreeInv'
  BY <1>0, <1>2, UsersStep DEF FreeInv
<1>6. Place(t)' /\ Own(t)' /\ Idx(t)'
  <2>1. loc[t].c \in VAContextID
    BY <1>0, <1>2, TypesAt DEF Place, Removing, Using
  <2>2. \A i \in CtxIdx : FirstHolds(i, loc[t].c) => FirstHolds(i, loc[t].c)'
    <3> DEFINE c == loc[t].c
    <3>1. \A d \in VAContextID, i \in CtxIdx : FirstHolds(i, d)' <=> FirstHolds(i, d)
      BY <1>0, <1>3, SlotsStay
    <3> QED
      BY <1>2, <2>1, <3>1 DEF FirstHolds, Holds
  <2>3. Place(t)' /\ Own(t)'
    BY <1>0, <1>2 DEF Place, Own, Creating, Using, Removing, Ending
  <2>4. Idx(t)'
    BY <1>0, <1>2, <2>2 DEF Idx, Creating, Removing, FirstHolds, Holds
  <2> QED
    BY <2>3, <2>4
<1>7. \A c \in VAContextID : entry'[c] # NULL => EntryKept(c, t)'
  <2>1. ASSUME NEW c \in VAContextID, entry'[c] # NULL
        PROVE  EntryKept(c, t)'
    <3>1. EntryKept(c, t) /\ EntrySlot(c)
      BY <1>2, <2>1 DEF IInv
    <3>2. heap'[entry[c]].created_thd_id = heap[entry[c]].created_thd_id
      BY <1>2, <1>3, <2>1, <3>1 DEF EntrySlot, SlotsKept, Slot
    <3> QED
      BY <1>2, <3>1, <3>2 DEF EntryKept, Using, Removing
  <2> QED
    BY <2>1
<1> QED
  BY <1>1, <1>2, <1>3, <1>4, <1>5, <1>6, <1>7, QuietStep

LEMMA CallRefreshStoreInv ==
  ASSUME IInv, NEW t \in Thread, RefreshStore(t, "call_store", "call_print")
  PROVE  IInv'
<1>0. TypeOK /\ MutexInv /\ UsersInv /\ FreeInv /\ SlotsInv /\ Place(t) /\ Own(t) /\ Idx(t)
  BY DEF IInv
<1>1. TypeOK'
  BY <1>0, RefreshStoreType DEF Label
<1>2. /\ pc[t] = "call_store" /\ pc'[t] = "call_print" /\ Others(t)
      /\ loc'[t].c = loc[t].c /\ loc'[t].after = loc[t].after /\ loc'[t].old = loc[t].old
      /\ loc'[t].obj = loc[t].obj /\ loc'[t].idx = loc[t].idx
      /\ heap' = [heap EXCEPT ![loc[t].obj] = SwitchLogFile(heap[loc[t].obj], t, loc[t].file)]
      /\ drv_context' = drv_context /\ entry' = entry /\ ptra_ctx' = ptra_ctx /\ context_mutex' = context_mutex
  <2>1. /\ pc[t] = "call_store" /\ UNCHANGED <<handles, tables, context_mutex>>
        /\ Goto(t, "call_print")
        /\ loc' = [loc EXCEPT ![t] = [loc[t] EXCEPT !.file = NULL]]
    BY DEF RefreshStore
  <2>2. pc \in [Thread -> Label] /\ loc \in [Thread -> Local] /\ loc[t] \in Local
    BY <1>0 DEF TypeOK
  <2>3. /\ \A u \in Thread : u # t => loc'[u] = loc[u]
        /\ loc'[t].c = loc[t].c /\ loc'[t].after = loc[t].after /\ loc'[t].old = loc[t].old
        /\ loc'[t].obj = loc[t].obj /\ loc'[t].idx = loc[t].idx
    BY <2>1, <2>2 DEF Local
  <2>4. heap' = [heap EXCEPT ![loc[t].obj] = SwitchLogFile(heap[loc[t].obj], t, loc[t].file)]
    BY DEF RefreshStore
  <2> QED
    BY <2>1, <2>2, <2>3, <2>4 DEF Goto, Others, handles, tables
<1>3. SlotsKept /\ \A u \in Thread : u # t => OwnKept(u)
  <2>1. loc[t].file \in LogIdx \cup {NULL}
    BY <1>0, TypesAt
  <2> QED
    BY <1>0, <1>2, <2>1, SwitchKeeps
<1>4. MutexInv'
  BY <1>0, <1>2, MutexStep DEF InMutex, Creating, Removing, Ending
<1>5. UsersInv' /\ FreeInv'
  BY <1>0, <1>2, UsersStep DEF FreeInv
<1>6. Place(t)' /\ Own(t)' /\ Idx(t)'
  <2>1. loc[t].c \in VAContextID
    BY <1>0, <1>2, TypesAt DEF Place, Removing, Using
  <2>2. \A i \in CtxIdx : FirstHolds(i, loc[t].c) => FirstHolds(i, loc[t].c)'
    <3> DEFINE c == loc[t].c
    <3>1. \A d \in VAContextID, i \in CtxIdx : FirstHolds(i, d)' <=> FirstHolds(i, d)
      BY <1>0, <1>3, SlotsStay
    <3> QED
      BY <1>2, <2>1, <3>1 DEF FirstHolds, Holds
  <2>3. Place(t)' /\ Own(t)'
    BY <1>0, <1>2 DEF Place, Own, Creating, Using, Removing, Ending
  <2>4. Idx(t)'
    BY <1>0, <1>2, <2>2 DEF Idx, Creating, Removing, FirstHolds, Holds
  <2> QED
    BY <2>3, <2>4
<1>7. \A c \in VAContextID : entry'[c] # NULL => EntryKept(c, t)'
  <2>1. ASSUME NEW c \in VAContextID, entry'[c] # NULL
        PROVE  EntryKept(c, t)'
    <3>1. EntryKept(c, t) /\ EntrySlot(c)
      BY <1>2, <2>1 DEF IInv
    <3>2. heap'[entry[c]].created_thd_id = heap[entry[c]].created_thd_id
      BY <1>2, <1>3, <2>1, <3>1 DEF EntrySlot, SlotsKept, Slot
    <3> QED
      BY <1>2, <3>1, <3>2 DEF EntryKept, Using, Removing
  <2> QED
    BY <2>1
<1> QED
  BY <1>1, <1>2, <1>3, <1>4, <1>5, <1>6, <1>7, QuietStep

LEMMA CreateLockInv ==
  ASSUME IInv, NEW t \in Thread, CreateLock(t)
  PROVE  IInv'
<1>0. TypeOK /\ MutexInv /\ UsersInv /\ FreeInv /\ SlotsInv /\ Place(t) /\ Own(t) /\ Idx(t)
  BY DEF IInv
<1>1. TypeOK'
  BY <1>0, CreateLockType
<1>2. /\ pc[t] = "create_lock" /\ Others(t) /\ pc'[t] \in Creating
      /\ loc'[t].c = loc[t].c /\ loc'[t].after = loc[t].after /\ loc'[t].old = loc[t].old
      /\ loc'[t].idx = get_free_ctx_idx(loc[t].c)
      /\ \/ heap' = heap /\ loc'[t].obj = loc[t].obj /\ pc'[t] = "create_fail"
         \/ /\ loc'[t].obj \in Address /\ heap[loc'[t].obj].mem = "freed"
            /\ heap' = [heap EXCEPT ![loc'[t].obj] = Zeroed]
            /\ get_free_ctx_idx(loc[t].c) \in CtxIdx
      /\ drv_context' = drv_context /\ entry' = entry /\ ptra_ctx' = ptra_ctx /\ context_mutex = NULL /\ context_mutex' = t
  <2> DEFINE k == get_free_ctx_idx(loc[t].c)
  <2>1. /\ pc[t] = "create_lock" /\ UNCHANGED <<handles, tables>>
        /\ context_mutex = NULL /\ context_mutex' = t
        /\ \/ /\ loc' = [loc EXCEPT ![t] = [loc[t] EXCEPT !.idx = k]]
              /\ Goto(t, "create_fail") /\ heap' = heap
           \/ \E a \in Address :
                /\ heap[a].mem = "freed" /\ k \in CtxIdx
                /\ heap' = [heap EXCEPT ![a] = Zeroed]
                /\ loc' = [loc EXCEPT ![t] = [loc[t] EXCEPT !.idx = k, !.obj = a]]
                /\ \E l \in Creating : Goto(t, l)
    BY DEF CreateLock, Creating
  <2>2. pc \in [Thread -> Label] /\ loc \in [Thread -> Local] /\ loc[t] \in Local
    BY <1>0 DEF TypeOK
  <2> HIDE DEF k
  <2>3. CASE /\ loc' = [loc EXCEPT ![t] = [loc[t] EXCEPT !.idx = k]]
             /\ Goto(t, "create_fail") /\ heap' = heap
    BY <2>1, <2>2, <2>3 DEF Goto, Others, handles, tables, Local, k, Creating
  <2>4. CASE \E a \in Address :
                /\ heap[a].mem = "freed" /\ k \in CtxIdx
                /\ heap' = [heap EXCEPT ![a] = Zeroed]
                /\ loc' = [loc EXCEPT ![t] = [loc[t] EXCEPT !.idx = k, !.obj = a]]
                /\ \E l \in Creating : Goto(t, l)
    <3>0. PICK a \in Address, l \in Creating :
                /\ heap[a].mem = "freed" /\ k \in CtxIdx
                /\ heap' = [heap EXCEPT ![a] = Zeroed]
                /\ loc' = [loc EXCEPT ![t] = [loc[t] EXCEPT !.idx = k, !.obj = a]]
                /\ Goto(t, l)
      BY <2>4
    <3>1. loc'[t] = [loc[t] EXCEPT !.idx = k, !.obj = a] /\ pc'[t] = l
      BY <2>2, <3>0 DEF Goto
    <3>2. /\ loc'[t].c = loc[t].c /\ loc'[t].after = loc[t].after
          /\ loc'[t].old = loc[t].old /\ loc'[t].idx = k /\ loc'[t].obj = a
      BY <2>2, <3>1 DEF Local
    <3>3. Others(t)
      BY <2>2, <3>0 DEF Goto, Others
    <3> QED
      BY <2>1, <3>0, <3>1, <3>2, <3>3 DEF handles, tables, k
  <2> QED
    BY <2>1, <2>3, <2>4
<1>3. SlotsKept /\ \A u \in Thread : u # t => OwnKept(u)
  <2>1. CASE heap' = heap
    BY <1>2, <2>1, SameHeap
  <2>2. ASSUME NEW a \in Address, heap[a].mem = "freed", heap' = [heap EXCEPT ![a] = Zeroed]
        PROVE  SlotsKept
    <3>1. \A i \in Slot : ptra_ctx[i] # NULL => ptra_ctx[i] # a /\ ptra_ctx[i] \in Address
      BY <1>0, <2>2 DEF SlotsInv, Slot, TypeOK
    <3> QED
      BY <1>0, <1>2, <2>2, <3>1 DEF SlotsKept, TypeOK
  <2>3. ASSUME NEW u \in Thread, u # t
        PROVE  OwnKept(u)
    <3>1. pc[u] \notin InMutex /\ Own(u)
      BY <1>2, TraceAssumption DEF IInv, MutexInv
    <3> QED
      BY <3>1 DEF OwnKept, Own, InMutex, Ending
  <2> QED
    BY <1>2, <2>1, <2>2, <2>3
<1>4. MutexInv'
  BY <1>0, <1>2, MutexStep DEF InMutex, Creating, Removing, Ending
<1>5. UsersInv' /\ FreeInv'
  BY <1>0, <1>2, UsersStep DEF FreeInv
<1>6. Place(t)' /\ Own(t)' /\ Idx(t)'
  <2>1. Place(t)'
    BY <1>0, <1>2 DEF Place, Creating, Using, Removing
  <2>2. loc[t].old = NULL /\ loc[t].obj = NULL
    BY <1>0, <1>2 DEF Own, Creating, Using, Removing, Ending
  <2>3. Own(t)'
    <3>1. CASE heap' = heap /\ loc'[t].obj = loc[t].obj /\ pc'[t] = "create_fail"
      BY <1>2, <2>2, <3>1 DEF Own
    <3>2. ASSUME NEW a \in Address, loc'[t].obj = a, heap[a].mem = "freed",
                 heap' = [heap EXCEPT ![a] = Zeroed], get_free_ctx_idx(loc[t].c) \in CtxIdx
          PROVE  Own(t)'
      <4>1. heap'[a].mem = "allocated"
        BY <1>0, <3>2 DEF TypeOK, Zeroed
      <4>2. \A i \in Slot : ptra_ctx'[i] # a
        BY <1>0, <1>2, <3>2, TraceAssumption DEF SlotsInv
      <4>3. a # NULL
        BY TraceAssumption
      <4> QED
        BY <1>2, <2>2, <3>2, <4>1, <4>2, <4>3 DEF Own, Live
    <3> QED
      BY <1>2, <3>1, <3>2
  <2>4. Idx(t)'
    <3> DEFINE k == get_free_ctx_idx(loc[t].c)
    <3>1. PICK i \in CtxIdx \cup {Virtual} : i = k
      BY FreeCtxIdx
    <3>2. /\ i \in CtxIdx => ptra_ctx[i] = NULL \/ Holds(i, loc[t].c)
          /\ \A j \in CtxIdx : j < i => ~Holds(j, loc[t].c)
      <4>1. Virtual \notin CtxIdx
        BY TraceAssumption DEF Virtual, CtxIdx
      <4> QED
        BY <3>1, <4>1, FreeCtxIdx DEF Holds
    <3> HIDE DEF k
    <3>3. loc[t].c \in VAContextID
      BY <1>0, <1>2, TypesAt DEF Place
    <3>4. \A j \in CtxIdx, c \in VAContextID : Holds(j, c)' <=> Holds(j, c)
      BY <1>0, <1>3, SlotsStay
    <3>5. \A j \in CtxIdx : Holds(j, loc[t].c)' <=> Holds(j, loc[t].c)
      BY <1>2, <3>3, <3>4 DEF Holds
    <3>6. loc'[t].idx = i
      BY <1>2, <3>1 DEF k
    <3> QED
      BY <1>2, <3>2, <3>5, <3>6 DEF Idx, Creating, Removing, Holds
  <2> QED
    BY <2>1, <2>3, <2>4
<1>7. \A c \in VAContextID : entry'[c] # NULL => EntryKept(c, t)'
  BY <1>2 DEF EntryKept, Creating, Using, Removing
<1> QED
  BY <1>1, <1>2, <1>3, <1>4, <1>5, <1>6, <1>7, QuietStep

LEMMA CreateLogInv ==
  ASSUME IInv, NEW t \in Thread, CreateLog(t)
  PROVE  IInv'
<1>0. TypeOK /\ MutexInv /\ UsersInv /\ FreeInv /\ SlotsInv /\ Place(t) /\ Own(t) /\ Idx(t)
  BY DEF IInv
<1>1. TypeOK'
  BY <1>0, CreateLogType
<1>2. /\ pc[t] = "create_log" /\ Others(t) /\ pc'[t] \in {"create_fail", "create_update"}
      /\ loc' = loc
      /\ \E o \in TraceContext : heap' = [heap EXCEPT ![loc[t].obj] = o] /\ o.mem = heap[loc[t].obj].mem
      /\ drv_context' = drv_context /\ entry' = entry /\ ptra_ctx' = ptra_ctx /\ context_mutex' = context_mutex
  <2>1. /\ pc[t] = "create_log" /\ UNCHANGED <<handles, tables, context_mutex, loc>>
        /\ Goto(t, "create_fail") \/ Goto(t, "create_update")
    BY DEF CreateLog
  <2>2. pc \in [Thread -> Label] /\ loc \in [Thread -> Local] /\ loc[t] \in Local
    BY <1>0 DEF TypeOK
  <2>3. PICK f, L : heap' = [heap EXCEPT ![loc[t].obj] =
                      [heap[loc[t].obj] EXCEPT !.plog_file = f, !.plog_file_list = L]]
    BY DEF CreateLog
  <2> DEFINE o == [heap[loc[t].obj] EXCEPT !.plog_file = f, !.plog_file_list = L]
  <2>4. loc[t].obj \in Address
    BY <1>0, <2>1, TypesAt DEF Own
  <2>5. heap[loc[t].obj] \in TraceContext /\ heap'[loc[t].obj] = o
    BY <1>0, <2>3, <2>4 DEF TypeOK
  <2>6. o \in TraceContext
    BY <1>1, <2>4, <2>5 DEF TypeOK
  <2>7. o.mem = heap[loc[t].obj].mem
    BY <2>5 DEF TraceContext
  <2> HIDE DEF o
  <2>8. heap' = [heap EXCEPT ![loc[t].obj] = o]
    BY <2>3 DEF o
  <2> QED
    BY <2>1, <2>2, <2>6, <2>7, <2>8 DEF Goto, Others, handles, tables
<1>3. SlotsKept /\ \A u \in Thread : u # t => OwnKept(u)
  <2>1. \A i \in Slot : ptra_ctx[i] # loc[t].obj
    BY <1>0, <1>2 DEF Own, Creating, Live
  <2>2. SlotsKept
    BY <1>2, <2>1 DEF SlotsKept
  <2>3. ASSUME NEW u \in Thread, u # t
        PROVE  OwnKept(u)
    BY <1>2, <2>3, OnlyOwner DEF OwnKept, InMutex, Creating
  <2> QED
    BY <2>2, <2>3
<1>4. MutexInv'
  BY <1>0, <1>2, MutexStep DEF InMutex, Creating, Removing, Ending
<1>5. UsersInv' /\ FreeInv'
  BY <1>0, <1>2, UsersStep DEF FreeInv
<1>6. Place(t)' /\ Own(t)' /\ Idx(t)'
  <2>1. Place(t)'
    BY <1>0, <1>2 DEF Place, Creating, Using, Removing
  <2>2. loc[t].obj \in Address /\ loc[t].old = NULL
    BY <1>0, <1>2, TypesAt DEF Own
  <2>3. heap'[loc[t].obj].mem = heap[loc[t].obj].mem
    BY <1>0, <1>2, <2>2 DEF TypeOK
  <2>4. Own(t)'
    BY <1>0, <1>2, <2>2, <2>3 DEF Own, Live, Creating
  <2>5. loc[t].c \in VAContextID
    BY <1>0, <1>2, TypesAt DEF Place, Creating
  <2>6. \A j \in CtxIdx, c \in VAContextID : Holds(j, c)' <=> Holds(j, c)
    BY <1>0, <1>3, SlotsStay
  <2>7. \A j \in CtxIdx : Holds(j, loc[t].c)' <=> Holds(j, loc[t].c)
    BY <1>2, <2>5, <2>6 DEF Holds
  <2>8. Idx(t)'
    BY <1>0, <1>2, <2>7 DEF Idx, Creating, Removing, Holds
  <2> QED
    BY <2>1, <2>4, <2>8
<1>7. \A c \in VAContextID : entry'[c] # NULL => EntryKept(c, t)'
  BY <1>2 DEF EntryKept, Using, Removing
<1> QED
  BY <1>1, <1>2, <1>3, <1>4, <1>5, <1>6, <1>7, QuietStep

LEMMA ReapInv ==
  ASSUME IInv, NEW t \in Thread, Reap(t)
  PROVE  IInv'
<1>0. TypeOK /\ MutexInv /\ UsersInv /\ FreeInv /\ SlotsInv /\ Place(t) /\ Own(t) /\ Idx(t)
  BY DEF IInv
<1>1. TypeOK'
  BY <1>0, ReapType
<1>2. /\ pc[t] = "reap" /\ Others(t) /\ pc'[t] \in {"reap", "unlock"}
      /\ loc'[t].c = loc[t].c /\ loc'[t].after = loc[t].after /\ loc'[t].obj = loc[t].obj
      /\ \/ /\ pc'[t] = "reap" /\ loc'[t].old = loc[t].old /\ loc[t].old # NULL
            /\ heap'[loc[t].old].mem = heap[loc[t].old].mem
         \/ pc'[t] = "unlock" /\ loc'[t].old = NULL
      /\ \A a \in Address : a # loc[t].old => heap'[a] = heap[a]
      /\ drv_context' = drv_context /\ entry' = entry /\ ptra_ctx' = ptra_ctx /\ context_mutex' = context_mutex
  <2> DEFINE a == loc[t].old
             k == Min(Listed(a))
  <2>1. pc \in [Thread -> Label] /\ loc \in [Thread -> Local] /\ loc[t] \in Local
    BY <1>0 DEF TypeOK
  <2>2. pc[t] = "reap" /\ UNCHANGED <<handles, tables, context_mutex>>
    BY DEF Reap
  <2>3. CASE a # NULL /\ Listed(a) # {}
    <3>1. /\ heap' = [heap EXCEPT ![a].plog_file_list = [@ EXCEPT ![k] = NULL]]
          /\ UNCHANGED <<loc, pc>>
      BY <2>3 DEF Reap
    <3>2. a \in Address
      BY <1>0, <2>3, TypesAt
    <3> HIDE DEF k
    <3>3. heap'[a].mem = heap[a].mem /\ \A b \in Address : b # a => heap'[b] = heap[b]
      BY <1>0, <3>1, <3>2 DEF TypeOK, TraceContext
    <3> QED
      BY <2>1, <2>2, <2>3, <3>1, <3>3 DEF Others, handles, tables
  <2>4. CASE ~ (a # NULL /\ Listed(a) # {})
    <3>1. /\ heap' = IF a = NULL THEN heap ELSE [heap EXCEPT ![a] = Freed]
          /\ loc' = [loc EXCEPT ![t] = [loc[t] EXCEPT !.old = NULL]]
          /\ Goto(t, "unlock")
      BY <2>4 DEF Reap
    <3>2. \A b \in Address : b # a => heap'[b] = heap[b]
      BY <1>0, <3>1 DEF TypeOK
    <3>3. /\ loc'[t].c = loc[t].c /\ loc'[t].after = loc[t].after
          /\ loc'[t].obj = loc[t].obj /\ loc'[t].old = NULL
      BY <2>1, <3>1 DEF Local
    <3>4. Others(t) /\ pc'[t] = "unlock"
      BY <2>1, <3>1 DEF Others, Goto
    <3> QED
      BY <2>2, <3>2, <3>3, <3>4 DEF handles, tables
  <2> QED
    BY <2>3, <2>4
<1>3. SlotsKept /\ \A u \in Thread : u # t => OwnKept(u)
  <2>1. \A i \in Slot : loc[t].old # NULL => ptra_ctx[i] # loc[t].old
    BY <1>0, <1>2 DEF Own, Live
  <2>2. \A i \in Slot : ptra_ctx[i] # NULL => ptra_ctx[i] \in Address
    BY <1>0 DEF TypeOK, Slot
  <2>3. SlotsKept
    BY <1>2, <2>1, <2>2 DEF SlotsKept
  <2>4. ASSUME NEW u \in Thread, u # t
        PROVE  OwnKept(u)
    BY <1>2, <2>4, OnlyOwner DEF OwnKept, InMutex, Ending
  <2> QED
    BY <2>3, <2>4
<1>4. MutexInv'
  BY <1>0, <1>2, MutexStep DEF InMutex, Creating, Removing, Ending
<1>5. UsersInv' /\ FreeInv'
  BY <1>0, <1>2, UsersStep DEF FreeInv
<1>6. Place(t)' /\ Own(t)' /\ Idx(t)'
  <2>1. Place(t)' /\ Idx(t)'
    BY <1>0, <1>2 DEF Place, Idx, Creating, Using, Removing
  <2>2. loc[t].obj # NULL => heap'[loc[t].obj] = heap[loc[t].obj]
    BY <1>0, <1>2, TypesAt DEF Own, Ending
  <2>3. Own(t)'
    BY <1>0, <1>2, <2>2 DEF Own, Live, Ending
  <2> QED
    BY <2>1, <2>3
<1>7. \A c \in VAContextID : entry'[c] # NULL => EntryKept(c, t)'
  BY <1>2 DEF EntryKept, Using, Removing
<1> QED
  BY <1>1, <1>2, <1>3, <1>4, <1>5, <1>6, <1>7, QuietStep

(* An idle thread has no locals; one that works on a context has its id.   *)
LEMMA CallRecord ==
  ASSUME NEW g, NEW p, NEW c, NEW after
  PROVE  /\ OnConfig(g, p, after).c = NULL /\ OnConfig(g, p, after).obj = NULL
         /\ OnConfig(g, p, after).old = NULL
         /\ OnContext(c, g, after).c = c /\ OnContext(c, g, after).after = after
         /\ OnContext(c, g, after).obj = NULL /\ OnContext(c, g, after).old = NULL
         /\ NoLocal.c = NULL /\ NoLocal.obj = NULL /\ NoLocal.old = NULL
BY DEF OnConfig, OnContext, NoLocal

LEMMA DriverCreateConfigInv ==
  ASSUME IInv, NEW t \in Thread, DriverCreateConfig(t)
  PROVE  IInv'
<1>0. TypeOK /\ MutexInv /\ UsersInv /\ FreeInv /\ SlotsInv /\ Place(t) /\ Own(t) /\ Idx(t)
  BY DEF IInv
<1>1. TypeOK'
  BY <1>0, DriverCreateConfigType
<1>2. /\ pc[t] = "idle" /\ Others(t) /\ pc'[t] = "add_config_lock"
      /\ loc'[t].c = NULL /\ loc'[t].obj = NULL /\ loc'[t].old = NULL
      /\ drv_context' = drv_context /\ entry' = entry /\ ptra_ctx' = ptra_ctx /\ heap' = heap /\ context_mutex' = context_mutex
  <2>1. /\ pc[t] = "idle" /\ Goto(t, "add_config_lock")
        /\ UNCHANGED <<drv_context, entry, tables, context_mutex, heap>>
        /\ \E g, p, after : loc' = [loc EXCEPT ![t] = OnConfig(g, p, after)]
    BY DEF DriverCreateConfig, MayCall
  <2>2. pc \in [Thread -> Label] /\ loc \in [Thread -> Local]
    BY <1>0 DEF TypeOK
  <2> QED
    BY <2>1, <2>2, CallRecord DEF Goto, Others, tables
<1>3. SlotsKept /\ \A u \in Thread : u # t => OwnKept(u)
  BY <1>2, SameHeap
<1>4. MutexInv'
  BY <1>0, <1>2, MutexStep DEF InMutex, Creating, Removing, Ending
<1>5. UsersInv' /\ FreeInv'
  BY <1>0, <1>2, UsersStep DEF FreeInv
<1>6. Place(t)' /\ Own(t)' /\ Idx(t)'
  BY <1>0, <1>2 DEF Place, Own, Idx, Creating, Using, Removing, Ending
<1>7. \A c \in VAContextID : entry'[c] # NULL => EntryKept(c, t)'
  BY <1>2 DEF EntryKept, Using, Removing
<1> QED
  BY <1>1, <1>2, <1>3, <1>4, <1>5, <1>6, <1>7, QuietStep

LEMMA DriverDestroyConfigInv ==
  ASSUME IInv, NEW t \in Thread, DriverDestroyConfig(t)
  PROVE  IInv'
<1>0. TypeOK /\ MutexInv /\ UsersInv /\ FreeInv /\ SlotsInv /\ Place(t) /\ Own(t) /\ Idx(t)
  BY DEF IInv
<1>1. TypeOK'
  BY <1>0, DriverDestroyConfigType
<1>2. /\ pc[t] = "idle" /\ Others(t) /\ pc'[t] = "delete_config_lock"
      /\ loc'[t].c = NULL /\ loc'[t].obj = NULL /\ loc'[t].old = NULL
      /\ drv_context' = drv_context /\ entry' = entry /\ ptra_ctx' = ptra_ctx /\ heap' = heap /\ context_mutex' = context_mutex
  <2>1. /\ pc[t] = "idle" /\ Goto(t, "delete_config_lock")
        /\ UNCHANGED <<drv_context, entry, tables, context_mutex, heap>>
        /\ \E g, p, after : loc' = [loc EXCEPT ![t] = OnConfig(g, p, after)]
    BY DEF DriverDestroyConfig, MayCall
  <2>2. pc \in [Thread -> Label] /\ loc \in [Thread -> Local]
    BY <1>0 DEF TypeOK
  <2> QED
    BY <2>1, <2>2, CallRecord DEF Goto, Others, tables
<1>3. SlotsKept /\ \A u \in Thread : u # t => OwnKept(u)
  BY <1>2, SameHeap
<1>4. MutexInv'
  BY <1>0, <1>2, MutexStep DEF InMutex, Creating, Removing, Ending
<1>5. UsersInv' /\ FreeInv'
  BY <1>0, <1>2, UsersStep DEF FreeInv
<1>6. Place(t)' /\ Own(t)' /\ Idx(t)'
  BY <1>0, <1>2 DEF Place, Own, Idx, Creating, Using, Removing, Ending
<1>7. \A c \in VAContextID : entry'[c] # NULL => EntryKept(c, t)'
  BY <1>2 DEF EntryKept, Using, Removing
<1> QED
  BY <1>1, <1>2, <1>3, <1>4, <1>5, <1>6, <1>7, QuietStep

LEMMA DriverCreateContextInv ==
  ASSUME IInv, NEW t \in Thread, DriverCreateContext(t)
  PROVE  IInv'
<1>0. TypeOK /\ MutexInv /\ UsersInv /\ FreeInv /\ SlotsInv /\ Place(t) /\ Own(t) /\ Idx(t)
  BY DEF IInv
<1>1. TypeOK'
  BY <1>0, DriverCreateContextType
<1>2. /\ pc[t] = "idle" /\ Others(t) /\ loc'[t].obj = NULL /\ loc'[t].old = NULL
      /\ \/ /\ pc'[t] = "create_lock" /\ loc'[t].after = "idle"
            /\ loc'[t].c \in VAContextID /\ drv_context[loc'[t].c] = "free"
            /\ drv_context' = [drv_context EXCEPT ![loc'[t].c] = "busy"]
         \/ pc'[t] = "status_lock" /\ loc'[t].c = NULL /\ drv_context' = drv_context
      /\ entry' = entry /\ ptra_ctx' = ptra_ctx /\ heap' = heap /\ context_mutex' = context_mutex
  <2>1. /\ pc[t] = "idle" /\ UNCHANGED <<entry, tables, context_mutex, heap>>
        /\ \/ \E c \in VAContextID, g \in VAConfigID :
                /\ drv_context[c] = "free"
                /\ drv_context' = [drv_context EXCEPT ![c] = "busy"]
                /\ loc' = [loc EXCEPT ![t] = OnContext(c, g, "idle")]
                /\ Goto(t, "create_lock")
           \/ Goto(t, "status_lock") /\ UNCHANGED <<drv_context, loc>>
    BY DEF DriverCreateContext, MayCall
  <2>2. pc \in [Thread -> Label] /\ loc \in [Thread -> Local] /\ loc[t] = NoLocal
    BY <1>0, <2>1 DEF TypeOK, Place
  <2>3. CASE Goto(t, "status_lock") /\ UNCHANGED <<drv_context, loc>>
    BY <2>1, <2>2, <2>3, CallRecord DEF Goto, Others, tables
  <2>4. CASE \E c \in VAContextID, g \in VAConfigID :
                /\ drv_context[c] = "free"
                /\ drv_context' = [drv_context EXCEPT ![c] = "busy"]
                /\ loc' = [loc EXCEPT ![t] = OnContext(c, g, "idle")]
                /\ Goto(t, "create_lock")
    <3>1. PICK c \in VAContextID, g \in VAConfigID :
                /\ drv_context[c] = "free"
                /\ drv_context' = [drv_context EXCEPT ![c] = "busy"]
                /\ loc' = [loc EXCEPT ![t] = OnContext(c, g, "idle")]
                /\ Goto(t, "create_lock")
      BY <2>4
    <3>2. loc'[t] = OnContext(c, g, "idle") /\ Others(t) /\ pc'[t] = "create_lock"
      BY <2>2, <3>1 DEF Goto, Others
    <3>3. /\ loc'[t].c = c /\ loc'[t].after = "idle"
          /\ loc'[t].obj = NULL /\ loc'[t].old = NULL
      BY <3>2, CallRecord
    <3> QED
      BY <2>1, <3>1, <3>2, <3>3 DEF tables
  <2> QED
    BY <2>1, <2>3, <2>4
<1>3. SlotsKept /\ \A u \in Thread : u # t => OwnKept(u)
  BY <1>2, SameHeap
<1>4. MutexInv'
  BY <1>0, <1>2, MutexStep DEF InMutex, Creating, Removing, Ending
<1>5. UsersInv' /\ FreeInv'
  <2>1. CASE pc'[t] = "status_lock"
    BY <1>0, <1>2, <2>1, UsersStep DEF FreeInv
  <2>2. CASE pc'[t] = "create_lock"
    <3>1. ASSUME NEW u \in Thread, u # t, loc[u].c = loc'[t].c
          PROVE  loc[u].after = "free"
      <4>1. loc[u].after \in {"idle", "free"} /\ loc[u].c # NULL
        BY <1>0, <1>2, <2>2, <3>1, TypesAt, TraceAssumption DEF Local
      <4> QED
        BY <1>0, <1>2, <2>2, <3>1, <4>1 DEF UsersInv
    <3>2. UsersInv'
      BY <1>0, <1>2, <2>2, <3>1, TypesAt DEF UsersInv, Others, TypeOK
    <3> QED
      BY <1>0, <1>2, <2>2, <3>2 DEF FreeInv, TypeOK
  <2> QED
    BY <1>2, <2>1, <2>2
<1>6. Place(t)' /\ Own(t)' /\ Idx(t)'
  BY <1>0, <1>2, TraceAssumption DEF Place, Own, Idx, Creating, Using, Removing, Ending, FreeInv
<1>7. \A c \in VAContextID : entry'[c] # NULL => EntryKept(c, t)'
  BY <1>2 DEF EntryKept, Using, Removing
<1> QED
  BY <1>1, <1>2, <1>3, <1>4, <1>5, <1>6, <1>7, QuietStep

LEMMA CallOnContextInv ==
  ASSUME IInv, NEW t \in Thread, CallOnContext(t)
  PROVE  IInv'
<1>0. TypeOK /\ MutexInv /\ UsersInv /\ FreeInv /\ SlotsInv /\ Place(t) /\ Own(t) /\ Idx(t)
  BY DEF IInv
<1>1. TypeOK'
  BY <1>0, CallOnContextType
<1>2. /\ pc[t] = "idle" /\ Others(t) /\ loc'[t].obj = NULL /\ loc'[t].old = NULL
      /\ pc'[t] = "lookup" /\ loc'[t].after = "idle"
      /\ loc'[t].c \in VAContextID /\ drv_context[loc'[t].c] = "idle"
      /\ drv_context' = [drv_context EXCEPT ![loc'[t].c] = "busy"]
      /\ entry' = entry /\ ptra_ctx' = ptra_ctx /\ heap' = heap /\ context_mutex' = context_mutex
  <2>1. /\ pc[t] = "idle" /\ UNCHANGED <<entry, tables, context_mutex, heap>>
        /\ Goto(t, "lookup")
        /\ \E c \in VAContextID :
                /\ drv_context[c] = "idle"
                /\ drv_context' = [drv_context EXCEPT ![c] = "busy"]
                /\ loc' = [loc EXCEPT ![t] = OnContext(c, VA_INVALID_ID, "idle")]
    BY DEF CallOnContext, MayCall
  <2>2. pc \in [Thread -> Label] /\ loc \in [Thread -> Local]
    BY <1>0 DEF TypeOK
  <2>3. PICK c \in VAContextID :
                /\ drv_context[c] = "idle"
                /\ drv_context' = [drv_context EXCEPT ![c] = "busy"]
                /\ loc' = [loc EXCEPT ![t] = OnContext(c, VA_INVALID_ID, "idle")]
    BY <2>1
  <2>4. /\ loc'[t] = OnContext(c, VA_INVALID_ID, "idle") /\ Others(t)
        /\ pc'[t] = "lookup"
    BY <2>1, <2>2, <2>3 DEF Goto, Others
  <2>5. /\ loc'[t].c = c /\ loc'[t].after = "idle"
        /\ loc'[t].obj = NULL /\ loc'[t].old = NULL
    BY <2>4, CallRecord
  <2> QED
    BY <2>1, <2>3, <2>4, <2>5 DEF tables
<1>3. SlotsKept /\ \A u \in Thread : u # t => OwnKept(u)
  BY <1>2, SameHeap
<1>4. MutexInv'
  BY <1>0, <1>2, MutexStep DEF InMutex, Creating, Removing, Ending
<1>5. UsersInv' /\ FreeInv'
  <2>1. ASSUME NEW u \in Thread, u # t, loc[u].c = loc'[t].c
        PROVE  loc[u].after = "free"
    <3>1. loc[u].after \in {"idle", "free"} /\ loc[u].c # NULL
      BY <1>0, <1>2, <2>1, TypesAt, TraceAssumption DEF Local
    <3> QED
      BY <1>0, <1>2, <2>1, <3>1 DEF UsersInv
  <2>2. UsersInv'
    BY <1>0, <1>2, <2>1, TypesAt DEF UsersInv, Others, TypeOK
  <2> QED
    BY <1>0, <1>2, <2>2 DEF FreeInv, TypeOK
<1>6. Place(t)' /\ Own(t)' /\ Idx(t)'
  BY <1>0, <1>2, TraceAssumption DEF Place, Own, Idx, Creating, Using, Removing, Ending
<1>7. \A c \in VAContextID : entry'[c] # NULL => EntryKept(c, t)'
  BY <1>2 DEF EntryKept, Using, Removing
<1> QED
  BY <1>1, <1>2, <1>3, <1>4, <1>5, <1>6, <1>7, QuietStep

LEMMA DriverDestroyContextInv ==
  ASSUME IInv, NEW t \in Thread, DriverDestroyContext(t)
  PROVE  IInv'
<1>0. TypeOK /\ MutexInv /\ UsersInv /\ FreeInv /\ SlotsInv /\ Place(t) /\ Own(t) /\ Idx(t)
  BY DEF IInv
<1>1. TypeOK'
  BY <1>0, DriverDestroyContextType
<1>2. /\ pc[t] = "idle" /\ Others(t) /\ loc'[t].obj = NULL /\ loc'[t].old = NULL
      /\ pc'[t] = "destroy_lock" /\ loc'[t].c \in VAContextID
      /\ drv_context[loc'[t].c] = "idle" /\ entry' = [entry EXCEPT ![loc'[t].c] = NULL]
      /\ \/ /\ loc'[t].after = "free"
            /\ drv_context' = [drv_context EXCEPT ![loc'[t].c] = "free"]
         \/ /\ loc'[t].after = "idle"
            /\ drv_context' = [drv_context EXCEPT ![loc'[t].c] = "busy"]
      /\ ptra_ctx' = ptra_ctx /\ heap' = heap /\ context_mutex' = context_mutex
  <2>1. /\ pc[t] = "idle" /\ UNCHANGED <<tables, context_mutex, heap>>
        /\ Goto(t, "destroy_lock")
        /\ \E c \in VAContextID, l \in HandleState, a \in {"free", "idle"} :
             /\ drv_context[c] = "idle"
             /\ entry' = [entry EXCEPT ![c] = NULL]
             /\ drv_context' = [drv_context EXCEPT ![c] = l]
             /\ loc' = [loc EXCEPT ![t] = OnContext(c, VA_INVALID_ID, a)]
             /\ \/ l = "free" /\ a = "free"
                \/ l = "busy" /\ a = "idle"
    BY DEF DriverDestroyContext, MayCall, HandleState
  <2>2. pc \in [Thread -> Label] /\ loc \in [Thread -> Local]
    BY <1>0 DEF TypeOK
  <2>3. PICK c \in VAContextID, l \in HandleState, a \in {"free", "idle"} :
             /\ drv_context[c] = "idle"
             /\ entry' = [entry EXCEPT ![c] = NULL]
             /\ drv_context' = [drv_context EXCEPT ![c] = l]
             /\ loc' = [loc EXCEPT ![t] = OnContext(c, VA_INVALID_ID, a)]
             /\ \/ l = "free" /\ a = "free"
                \/ l = "busy" /\ a = "idle"
    BY <2>1
  <2>4. /\ loc'[t] = OnContext(c, VA_INVALID_ID, a) /\ Others(t)
        /\ pc'[t] = "destroy_lock"
    BY <2>1, <2>2, <2>3 DEF Goto, Others
  <2>5. /\ loc'[t].c = c /\ loc'[t].after = a
        /\ loc'[t].obj = NULL /\ loc'[t].old = NULL
    BY <2>4, CallRecord
  <2> QED
    BY <2>1, <2>3, <2>4, <2>5 DEF tables
<1>3. SlotsKept /\ \A u \in Thread : u # t => OwnKept(u)
  BY <1>2, SameHeap
<1>4. MutexInv'
  BY <1>0, <1>2, MutexStep DEF InMutex, Creating, Removing, Ending
<1>5. UsersInv' /\ FreeInv'
  <2>1. ASSUME NEW u \in Thread, u # t, loc[u].c = loc'[t].c
        PROVE  loc[u].after = "free"
    <3>1. loc[u].after \in {"idle", "free"} /\ loc[u].c # NULL
      BY <1>0, <1>2, <2>1, TypesAt, TraceAssumption DEF Local
    <3> QED
      BY <1>0, <1>2, <2>1, <3>1 DEF UsersInv
  <2>2. UsersInv'
    BY <1>0, <1>2, <2>1, TypesAt DEF UsersInv, Others, TypeOK
  <2>3. FreeInv'
    BY <1>0, <1>2 DEF FreeInv, TypeOK
  <2> QED
    BY <2>2, <2>3
<1>6. Place(t)' /\ Own(t)' /\ Idx(t)'
  BY <1>0, <1>2, TraceAssumption DEF Place, Own, Idx, Creating, Using, Removing, Ending
<1>7. \A c \in VAContextID : entry'[c] # NULL => EntryKept(c, t)'
  <2>1. loc'[t].c \in VAContextID /\ entry'[loc'[t].c] = NULL
    BY <1>0, <1>2 DEF TypeOK
  <2> QED
    BY <2>1 DEF EntryKept
<1>8. \A c \in VAContextID : entry'[c] = entry[c] \/ entry'[c] = NULL
  BY <1>0, <1>2 DEF TypeOK
<1> QED
  BY <1>1, <1>2, <1>3, <1>4, <1>5, <1>6, <1>7, <1>8, QuietStep

LEMMA va_TraceStatusInv ==
  ASSUME IInv, NEW t \in Thread, va_TraceStatus(t)
  PROVE  IInv'
<1>0. TypeOK /\ MutexInv /\ UsersInv /\ FreeInv /\ SlotsInv /\ Place(t) /\ Own(t) /\ Idx(t)
  BY DEF IInv
<1>1. TypeOK'
  BY <1>0, va_TraceStatusType
<1>2. /\ pc[t] = "status" /\ Others(t) /\ loc'[t] = NoLocal /\ pc'[t] = "idle"
      /\ loc'[t].obj = NULL /\ loc'[t].old = NULL /\ loc'[t].c = NULL
      /\ drv_context' = [c \in VAContextID |->
                            IF loc[t].after = "idle" /\ loc[t].c = c THEN "idle"
                            ELSE drv_context[c]]
      /\ entry' = entry /\ ptra_ctx' = ptra_ctx /\ heap' = heap /\ context_mutex' = NULL
  BY <1>0, CallRecord DEF va_TraceStatus, Goto, Others, tables, TypeOK
<1>3. SlotsKept /\ \A u \in Thread : u # t => OwnKept(u)
  BY <1>2, SameHeap
<1>4. MutexInv'
  BY <1>0, <1>2, MutexStep DEF InMutex, Creating, Removing, Ending
<1>5. UsersInv' /\ FreeInv'
  <2>1. ASSUME NEW u \in Thread, loc'[u].c # NULL, loc'[u].after = "idle"
        PROVE  /\ drv_context'[loc'[u].c] = "busy"
               /\ \A v \in Thread : v # u /\ loc'[v].c = loc'[u].c => loc'[v].after = "free"
    <3>1. u # t /\ loc'[u] = loc[u]
      BY <1>2, <2>1 DEF Others
    <3>2. /\ drv_context[loc[u].c] = "busy" /\ loc[u].c \in VAContextID
          /\ \A v \in Thread : v # u /\ loc[v].c = loc[u].c => loc[v].after = "free"
      BY <1>0, <2>1, <3>1, TypesAt DEF UsersInv
    <3>3. ~ (loc[t].after = "idle" /\ loc[t].c = loc[u].c)
      BY <3>1, <3>2
    <3> QED
      BY <1>2, <2>1, <3>1, <3>2, <3>3 DEF Others
  <2>2. FreeInv'
    BY <1>0, <1>2 DEF FreeInv
  <2> QED
    BY <2>1, <2>2 DEF UsersInv
<1>6. Place(t)' /\ Own(t)' /\ Idx(t)'
  BY <1>0, <1>2 DEF Place, Own, Idx, Creating, Using, Removing, Ending
<1>7. \A c \in VAContextID : entry'[c] # NULL => EntryKept(c, t)'
  BY <1>2, TraceAssumption DEF EntryKept
<1> QED
  BY <1>1, <1>2, <1>3, <1>4, <1>5, <1>6, <1>7, QuietStep

-----------------------------------------------------------------------------
(* The steps that change a slot.                                           *)

(* A thread that reaps keeps IInv as far as it is concerned, when what it  *)
(* took out and what it allocated are live and in no slot.                 *)
LEMMA ReapingInv ==
  ASSUME IInv, NEW t \in Thread, pc'[t] = "reap",
         loc'[t].c = loc[t].c,
         loc'[t].old # NULL => Live(loc[t].old)',
         loc'[t].obj # NULL => Live(loc[t].obj)' /\ loc'[t].obj # loc'[t].old
  PROVE  /\ Place(t)' /\ Own(t)' /\ Idx(t)'
         /\ \A c \in VAContextID : EntryKept(c, t)'
BY DEF Place, Own, Idx, EntryKept, Creating, Using, Removing, Ending

(* Other threads, which are not in the mutex, have no stake in the slots   *)
(* but in those of the entries of live contexts.                           *)
LEMMA OutsideInv ==
  ASSUME IInv, NEW t \in Thread, pc[t] \in InMutex, Others(t),
         NEW u \in Thread, u # t, \A c \in VAContextID : entry'[c] = entry[c]
  PROVE  Place(u)' /\ Own(u)' /\ Idx(u)'
<1>1. /\ loc[u].old = NULL
      /\ loc[u].obj # NULL => pc[u] \in Using
      /\ pc[u] \notin Creating \cup Ending \cup Removing
  BY OnlyOwner
<1>2. pc'[u] = pc[u] /\ loc'[u] = loc[u] /\ Place(u) /\ Own(u)
  BY DEF Others, IInv
<1>3. loc[u].c \in VAContextID \cup {NULL}
  BY TypesAt DEF IInv
<1>4. Place(u)'
  BY <1>2, <1>3 DEF Place
<1>5. Own(u)' /\ Idx(u)'
  BY <1>1, <1>2 DEF Own, Idx, Creating, Ending, Removing, Using
<1> QED
  BY <1>4, <1>5

(* Emptying a slot that no live context has its entry in.                  *)
LEMMA EmptySlot ==
  ASSUME IInv, TypeOK', NEW t \in Thread, NEW i \in CtxIdx, Others(t),
         pc[t] \in InMutex, pc'[t] = "reap",
         ptra_ctx' = [ptra_ctx EXCEPT ![i] = NULL], heap' = heap, entry' = entry,
         drv_context' = drv_context, context_mutex' = context_mutex,
         loc'[t].c = loc[t].c, loc'[t].after = loc[t].after,
         loc'[t].old = ptra_ctx[i],
         loc'[t].obj # NULL => Live(loc'[t].obj),
         \A c \in VAContextID : entry[c] # NULL => entry[c] # ptra_ctx[i]
  PROVE  IInv'
<1>0. TypeOK /\ MutexInv /\ UsersInv /\ FreeInv /\ SlotsInv /\ Own(t)
  BY DEF IInv
<1>1. /\ ptra_ctx'[i] = NULL /\ i \in Slot
      /\ \A j \in Slot : j # i => ptra_ctx'[j] = ptra_ctx[j]
  BY <1>0 DEF TypeOK, Slot
<1>2. SlotsInv'
  BY <1>0, <1>1 DEF SlotsInv
<1>3. ASSUME NEW a, a # NULL, Live(a)
      PROVE  heap'[a].mem = "allocated" /\ \A j \in Slot : ptra_ctx'[j] # a
  BY <1>1, <1>3 DEF Live
<1>4. ptra_ctx[i] # NULL => /\ heap'[ptra_ctx[i]].mem = "allocated"
                            /\ \A j \in Slot : ptra_ctx'[j] # ptra_ctx[i]
  BY <1>0, <1>1 DEF SlotsInv
<1>5. loc'[t].obj # NULL => loc'[t].obj # ptra_ctx[i]
  BY <1>1 DEF Live
<1>6. Place(t)' /\ Own(t)' /\ Idx(t)' /\ \A c \in VAContextID : EntryKept(c, t)'
  <2>1. loc'[t].old # NULL => Live(loc[t].old)'
    BY <1>4 DEF Live
  <2>2. loc'[t].obj # NULL => Live(loc[t].obj)' /\ loc'[t].obj # loc'[t].old
    BY <1>3, <1>5 DEF Live
  <2> QED
    BY <2>1, <2>2, ReapingInv
<1>7. \A u \in Thread : Place(u)' /\ Own(u)' /\ Idx(u)'
  BY <1>6, OutsideInv
<1>8. ASSUME NEW c \in VAContextID, entry'[c] # NULL
      PROVE  EntrySlot(c)' /\ \A u \in Thread : EntryKept(c, u)'
  <2>1. EntrySlot(c) /\ \A u \in Thread : EntryKept(c, u)
    BY <1>8 DEF IInv
  <2>2. PICK k \in CtxIdx : ptra_ctx[k] = entry[c] /\ FirstHolds(k, c)
    BY <2>1 DEF EntrySlot
  <2>3. k # i /\ k \in Slot
    BY <1>8, <2>2 DEF Slot
  <2>4. \A j \in CtxIdx : Holds(j, c)' => Holds(j, c)
    BY <1>1 DEF Holds, Slot
  <2>5. ptra_ctx'[k] = entry'[c] /\ Holds(k, c)'
    BY <1>1, <2>2, <2>3 DEF FirstHolds, Holds
  <2>6. EntrySlot(c)'
    BY <2>2, <2>4, <2>5 DEF EntrySlot, FirstHolds
  <2>7. ASSUME NEW u \in Thread, u # t
        PROVE  EntryKept(c, u)'
    <3>1. EntryKept(c, u) /\ pc'[u] = pc[u] /\ loc'[u] = loc[u]
      BY <2>1, <2>7 DEF Others
    <3>2. loc[u].idx \in Slot
      BY <1>0, TypesAt DEF Slot
    <3> QED
      BY <1>1, <1>8, <3>1, <3>2 DEF EntryKept
  <2> QED
    BY <1>6, <2>6, <2>7
<1>9. MutexInv'
  BY <1>0, MutexStep DEF InMutex, Ending
<1>10. UsersInv' /\ FreeInv'
  BY <1>0, UsersStep DEF FreeInv
<1> QED
  BY <1>2, <1>7, <1>8, <1>9, <1>10 DEF IInv

LEMMA DestroyUpdateInv ==
  ASSUME IInv, NEW t \in Thread, DestroyUpdate(t)
  PROVE  IInv'
<1>0. TypeOK /\ MutexInv /\ UsersInv /\ FreeInv /\ SlotsInv /\ Place(t) /\ Own(t) /\ Idx(t)
  BY DEF IInv
<1>1. TypeOK'
  BY <1>0, DestroyUpdateType
<1> DEFINE i == loc[t].idx
           a == ptra_ctx[i]
<1>2. /\ pc[t] = "destroy_update" /\ pc'[t] = "reap" /\ pc[t] \in InMutex
      /\ drv_context' = drv_context /\ entry' = entry /\ heap' = heap
      /\ context_mutex' = context_mutex
      /\ loc \in [Thread -> Local] /\ loc[t] \in Local
  BY <1>0 DEF DestroyUpdate, Emptied, MayTakeOut, Goto, handles, TypeOK, InMutex, Removing
<1>3. loc[t].c \in VAContextID /\ i \in CtxIdx /\ FirstHolds(i, loc[t].c)
  BY <1>0, <1>2, TypesAt DEF Place, Idx, Removing
<1>4. loc[t].old = NULL
  BY <1>0, <1>2 DEF Own
<1>5. CASE heap[a].created_thd_id = t
  <2>1. /\ ptra_ctx' = [ptra_ctx EXCEPT ![i] = NULL]
        /\ loc' = [loc EXCEPT ![t] = [loc[t] EXCEPT !.old = a, !.obj = NULL,
                                                    !.idx = Virtual]]
    BY <1>5 DEF DestroyUpdate, Emptied, MayTakeOut
  <2>2. /\ loc'[t].c = loc[t].c /\ loc'[t].after = loc[t].after
        /\ loc'[t].old = a /\ loc'[t].obj = NULL
    BY <1>2, <2>1 DEF Local
  <2>3. Others(t)
    BY <1>0, <1>2, <2>1 DEF Others, DestroyUpdate, Emptied, MayTakeOut, Goto, TypeOK
  <2>4. ASSUME NEW c \in VAContextID, entry[c] # NULL
        PROVE  entry[c] # a
    <3>1. EntrySlot(c) /\ EntryKept(c, t)
      BY <2>4 DEF IInv
    <3>2. PICK k \in CtxIdx : ptra_ctx[k] = entry[c] /\ FirstHolds(k, c)
      BY <3>1 DEF EntrySlot
    <3>3. CASE c = loc[t].c
      BY <1>2, <1>5, <3>1, <3>3 DEF EntryKept, Removing
    <3>4. CASE c # loc[t].c
      BY <1>3, <3>2, <3>4 DEF FirstHolds, Holds
    <3> QED
      BY <3>3, <3>4
  <2> HIDE DEF i, a
  <2>5. a = ptra_ctx[i]
    BY DEF a
  <2> QED
    BY <1>1, <1>2, <1>3, <2>1, <2>2, <2>3, <2>4, <2>5, EmptySlot
<1>6. CASE heap[a].created_thd_id # t
  <2>1. /\ ptra_ctx' = ptra_ctx
        /\ loc' = [loc EXCEPT ![t] = [loc[t] EXCEPT !.obj = NULL, !.idx = Virtual]]
    BY <1>6 DEF DestroyUpdate, Emptied, MayTakeOut, tables
  <2>2. /\ loc'[t].c = loc[t].c /\ loc'[t].after = loc[t].after
        /\ loc'[t].old = NULL /\ loc'[t].obj = NULL
    BY <1>2, <1>4, <2>1 DEF Local
  <2>3. Others(t)
    BY <1>0, <1>2, <2>1 DEF Others, DestroyUpdate, Emptied, MayTakeOut, Goto, TypeOK
  <2>4. SlotsKept /\ \A u \in Thread : OwnKept(u)
    BY <1>2, <2>1, SameHeap
  <2>5. MutexInv'
    BY <1>0, <1>2, <2>3, MutexStep DEF InMutex, Ending
  <2>6. UsersInv' /\ FreeInv'
    BY <1>0, <1>2, <2>2, <2>3, UsersStep DEF FreeInv
  <2>7. Place(t)' /\ Own(t)' /\ Idx(t)' /\ \A c \in VAContextID : EntryKept(c, t)'
    BY <1>2, <2>2, ReapingInv
  <2> QED
    BY <1>1, <1>2, <2>3, <2>4, <2>5, <2>6, <2>7, QuietStep
<1> QED
  BY <1>5, <1>6

LEMMA CreateFailInv ==
  ASSUME IInv, NEW t \in Thread, CreateFail(t)
  PROVE  IInv'
<1>0. TypeOK /\ MutexInv /\ UsersInv /\ FreeInv /\ SlotsInv /\ Place(t) /\ Own(t) /\ Idx(t)
  BY DEF IInv
<1>1. TypeOK'
  BY <1>0, CreateFailType
<1> DEFINE i == loc[t].idx
<1>2. /\ pc[t] = "create_fail" /\ pc'[t] = "reap" /\ pc[t] \in InMutex
      /\ drv_context' = drv_context /\ entry' = entry /\ heap' = heap
      /\ context_mutex' = context_mutex
      /\ loc \in [Thread -> Local] /\ loc[t] \in Local
  BY <1>0 DEF CreateFail, Emptied, Goto, handles, TypeOK, InMutex, Creating
<1>3. loc[t].c \in VAContextID /\ entry[loc[t].c] = NULL
  BY <1>0, <1>2, TypesAt DEF Place, Creating
<1>4. /\ loc[t].old = NULL
      /\ loc[t].obj # NULL => Live(loc[t].obj)
  BY <1>0, <1>2 DEF Own, Creating
<1>5. CASE i \in CtxIdx
  <2>1. /\ ptra_ctx' = [ptra_ctx EXCEPT ![i] = NULL]
        /\ loc' = [loc EXCEPT ![t] = [loc[t] EXCEPT !.old = ptra_ctx[i], !.idx = Virtual]]
    BY <1>5 DEF CreateFail, Emptied
  <2>2. /\ loc'[t].c = loc[t].c /\ loc'[t].after = loc[t].after
        /\ loc'[t].old = ptra_ctx[i] /\ loc'[t].obj = loc[t].obj
    BY <1>2, <2>1 DEF Local
  <2>3. Others(t)
    BY <1>0, <1>2, <2>1 DEF Others, CreateFail, Emptied, Goto, TypeOK
  <2>4. ASSUME NEW c \in VAContextID, entry[c] # NULL
        PROVE  entry[c] # ptra_ctx[i]
    <3>1. EntrySlot(c)
      BY <2>4 DEF IInv
    <3>2. PICK k \in CtxIdx : ptra_ctx[k] = entry[c] /\ FirstHolds(k, c)
      BY <3>1 DEF EntrySlot
    <3>3. c # loc[t].c
      BY <1>3, <2>4
    <3>4. ptra_ctx[i] = NULL \/ Holds(i, loc[t].c)
      BY <1>0, <1>2, <1>5 DEF Idx, Creating
    <3> QED
      BY <2>4, <3>2, <3>3, <3>4 DEF FirstHolds, Holds
  <2>5. loc'[t].obj # NULL => Live(loc'[t].obj)
    BY <1>4, <2>2
  <2> HIDE DEF i
  <2> QED
    BY <1>1, <1>2, <1>5, <2>1, <2>2, <2>3, <2>4, <2>5, EmptySlot
<1>6. CASE i \notin CtxIdx
  <2>1. ptra_ctx' = ptra_ctx /\ loc' = loc
    BY <1>6 DEF CreateFail, Emptied
  <2>2. Others(t)
    BY <1>0, <1>2, <2>1 DEF Others, CreateFail, Emptied, Goto, TypeOK
  <2>3. SlotsKept /\ \A u \in Thread : OwnKept(u)
    BY <1>2, <2>1, SameHeap
  <2>4. MutexInv'
    BY <1>0, <1>2, <2>2, MutexStep DEF InMutex, Ending
  <2>5. UsersInv' /\ FreeInv'
    BY <1>0, <1>2, <2>1, <2>2, UsersStep DEF FreeInv
  <2>6. loc'[t].obj # NULL => Live(loc[t].obj)' /\ loc'[t].obj # loc'[t].old
    BY <1>2, <1>4, <2>1 DEF Live
  <2>7. Place(t)' /\ Own(t)' /\ Idx(t)' /\ \A c \in VAContextID : EntryKept(c, t)'
    BY <1>2, <1>4, <2>1, <2>6, ReapingInv
  <2> QED
    BY <1>1, <1>2, <2>2, <2>3, <2>4, <2>5, <2>7, QuietStep
<1> QED
  BY <1>5, <1>6

LEMMA CreateUpdateInv ==
  ASSUME IInv, NEW t \in Thread, CreateUpdate(t)
  PROVE  IInv'
<1>0. TypeOK /\ MutexInv /\ UsersInv /\ FreeInv /\ SlotsInv /\ Place(t) /\ Own(t) /\ Idx(t)
  BY DEF IInv
<1>1. TypeOK'
  BY <1>0, CreateUpdateType
<1>2. /\ pc[t] = "create_update" /\ pc'[t] = "reap" /\ pc[t] \in InMutex
      /\ drv_context' = drv_context /\ context_mutex' = context_mutex
      /\ loc \in [Thread -> Local] /\ loc[t] \in Local
  BY <1>0 DEF CreateUpdate, Goto, TypeOK, InMutex, Creating
<1>3. PICK i \in CtxIdx, a \in Address, d \in VAContextID :
        i = loc[t].idx /\ a = loc[t].obj /\ d = loc[t].c
  BY <1>0, <1>2, TypesAt DEF Place, Own, Creating
<1>4. /\ entry[d] = NULL /\ loc[t].after = "idle"
      /\ ptra_ctx[i] = NULL \/ Holds(i, d)
      /\ \A j \in CtxIdx : j < i => ~Holds(j, d)
  BY <1>0, <1>2, <1>3 DEF Place, Idx, Creating
<1>5. /\ a # NULL /\ heap[a].mem = "allocated" /\ \A j \in Slot : ptra_ctx[j] # a
      /\ loc[t].old = NULL
  BY <1>0, <1>2, <1>3 DEF Own, Creating, Live
<1>6. /\ ptra_ctx' = [ptra_ctx EXCEPT ![i] = a]
      /\ heap' = [heap EXCEPT ![a] = [heap[a] EXCEPT !.trace_context = d,
                                                     !.created_thd_id = t]]
      /\ entry' = [entry EXCEPT ![d] = a]
      /\ loc' = [loc EXCEPT ![t] = [loc[t] EXCEPT !.old = ptra_ctx[i], !.obj = NULL,
                                                  !.idx = Virtual]]
  BY <1>3 DEF CreateUpdate
<1>7. /\ loc'[t].c = d /\ loc'[t].after = "idle"
      /\ loc'[t].old = ptra_ctx[i] /\ loc'[t].obj = NULL
  BY <1>2, <1>3, <1>4, <1>6 DEF Local
<1>8. Others(t)
  BY <1>0, <1>2, <1>6 DEF Others, CreateUpdate, Goto, TypeOK
<1>9. /\ ptra_ctx'[i] = a /\ i \in Slot
      /\ \A j \in Slot : j # i => ptra_ctx'[j] = ptra_ctx[j]
      /\ \A j \in Slot : ptra_ctx[j] # NULL => ptra_ctx[j] \in Address
  BY <1>0, <1>6 DEF TypeOK, Slot
<1>10. /\ heap'[a].mem = "allocated" /\ heap'[a].trace_context = d
       /\ heap'[a].created_thd_id = t
       /\ \A b \in Address : b # a => heap'[b] = heap[b]
  <2>1. heap[a] \in TraceContext /\ heap \in [Address -> TraceContext]
    BY <1>0 DEF TypeOK
  <2>2. heap'[a] = [heap[a] EXCEPT !.trace_context = d, !.created_thd_id = t]
    BY <1>6, <2>1
  <2>3. \A b \in Address : b # a => heap'[b] = heap[b]
    BY <1>6, <2>1
  <2> QED
    BY <1>5, <2>1, <2>2, <2>3 DEF TraceContext
<1>11. SlotsInv'
  BY <1>0, <1>5, <1>9, <1>10 DEF SlotsInv
<1>12. Place(t)' /\ Own(t)' /\ Idx(t)' /\ \A c \in VAContextID : EntryKept(c, t)'
  <2>1. loc'[t].old # NULL => Live(loc[t].old)'
    BY <1>0, <1>5, <1>7, <1>9, <1>10 DEF Live, SlotsInv
  <2> QED
    BY <1>2, <1>3, <1>7, <2>1, ReapingInv
<1>13. ASSUME NEW u \in Thread, u # t, loc[u].c = d
       PROVE  loc[u].after = "free"
  BY <1>0, <1>3, <1>4, <1>13, TraceAssumption DEF UsersInv
<1>14. ASSUME NEW u \in Thread, u # t
       PROVE  Place(u)' /\ Own(u)' /\ Idx(u)'
  <2>1. /\ loc[u].old = NULL
        /\ loc[u].obj # NULL => pc[u] \in Using
        /\ pc[u] \notin Creating \cup Ending \cup Removing
    BY <1>2, <1>14, OnlyOwner
  <2>2. pc'[u] = pc[u] /\ loc'[u] = loc[u] /\ Place(u) /\ Own(u)
    BY <1>8, <1>14 DEF Others, IInv
  <2>3. loc[u].c \in VAContextID \cup {NULL}
    BY <1>0, TypesAt
  <2>4. \A c \in VAContextID : c # d => entry'[c] = entry[c]
    BY <1>0, <1>6 DEF TypeOK
  <2>5. pc[u] = "create_lock" => loc[u].c # d
    BY <1>13, <1>14, <2>2 DEF Place
  <2>6. Place(u)'
    BY <2>1, <2>2, <2>3, <2>4, <2>5 DEF Place
  <2>7. Own(u)' /\ Idx(u)'
    BY <2>1, <2>2 DEF Own, Idx, Creating, Ending, Removing, Using
  <2> QED
    BY <2>6, <2>7
<1>15. ASSUME NEW c \in VAContextID, entry'[c] # NULL
       PROVE  EntrySlot(c)' /\ \A u \in Thread : EntryKept(c, u)'
  <2>1. \A j \in CtxIdx : j \in Slot
    BY DEF Slot
  <2>2. CASE c = d
    <3>1. entry'[c] = a
      BY <1>0, <1>6, <2>2 DEF TypeOK
    <3>2. ptra_ctx'[i] # NULL /\ heap'[ptra_ctx'[i]].trace_context = d
      BY <1>5, <1>9, <1>10
    <3>3. \A j \in CtxIdx : j < i =>
            ~ (ptra_ctx'[j] # NULL /\ heap'[ptra_ctx'[j]].trace_context = d)
      <4>1. ASSUME NEW j \in CtxIdx, j < i
            PROVE  j # i
        BY <4>1, TraceAssumption DEF CtxIdx
      <4> QED
        BY <1>4, <1>5, <1>9, <1>10, <2>1, <4>1 DEF Holds
    <3>4. EntrySlot(c)'
      BY <1>9, <2>2, <3>1, <3>2, <3>3 DEF EntrySlot, FirstHolds, Holds
    <3>5. ASSUME NEW u \in Thread, u # t
          PROVE  EntryKept(c, u)'
      <4>1. pc'[u] = pc[u] /\ loc'[u] = loc[u] /\ Place(u)
        BY <1>8, <3>5 DEF Others, IInv
      <4>2. heap'[entry'[c]].created_thd_id # u
        BY <1>10, <3>1, <3>5
      <4>3. loc[u].c = d => pc[u] \notin Using \cup {"read_slot"}
        BY <1>13, <3>5, <4>1 DEF Place
      <4> QED
        BY <2>2, <4>1, <4>2, <4>3 DEF EntryKept
    <3> QED
      BY <1>12, <3>4, <3>5
  <2>3. CASE c # d
    <3>1. entry'[c] = entry[c]
      BY <1>0, <1>6, <2>3 DEF TypeOK
    <3>2. EntrySlot(c) /\ \A u \in Thread : EntryKept(c, u)
      BY <1>15, <3>1 DEF IInv
    <3>3. PICK k \in CtxIdx : ptra_ctx[k] = entry[c] /\ FirstHolds(k, c)
      BY <3>2 DEF EntrySlot
    <3>4. k # i /\ k \in Slot /\ entry[c] \in Address /\ entry[c] # a
      BY <1>4, <1>5, <1>9, <1>15, <2>1, <2>3, <3>1, <3>3 DEF FirstHolds, Holds
    <3>5. \A j \in CtxIdx : Holds(j, c)' => Holds(j, c)
      BY <1>5, <1>9, <1>10, <2>1, <2>3 DEF Holds
    <3>6. ptra_ctx'[k] = entry'[c] /\ Holds(k, c)'
      BY <1>9, <1>10, <3>1, <3>3, <3>4 DEF FirstHolds, Holds
    <3>7. EntrySlot(c)'
      BY <3>3, <3>5, <3>6 DEF EntrySlot, FirstHolds
    <3>8. ASSUME NEW u \in Thread, u # t
          PROVE  EntryKept(c, u)'
      <4>1. EntryKept(c, u) /\ pc'[u] = pc[u] /\ loc'[u] = loc[u]
        BY <1>8, <3>2, <3>8 DEF Others
      <4>2. heap'[entry[c]] = heap[entry[c]]
        BY <1>10, <3>4
      <4>3. ptra_ctx[loc[u].idx] = entry[c] => loc[u].idx # i /\ loc[u].idx \in Slot
        <5>1. loc[u].idx \in Slot
          BY <1>0, TypesAt DEF Slot
        <5> QED
          BY <1>4, <3>3, <3>4, <1>15, <3>1, <2>3, <5>1 DEF FirstHolds, Holds
      <4> QED
        BY <1>9, <3>1, <4>1, <4>2, <4>3 DEF EntryKept
    <3> QED
      BY <1>12, <3>7, <3>8
  <2> QED
    BY <2>2, <2>3
<1>16. MutexInv'
  BY <1>0, <1>2, <1>8, MutexStep DEF InMutex, Ending
<1>17. UsersInv'
  BY <1>0, <1>2, <1>3, <1>4, <1>7, <1>8, UsersStep
<1>18. FreeInv'
  <2>1. drv_context[d] = "busy"
    BY <1>0, <1>3, <1>4, TraceAssumption DEF UsersInv
  <2> QED
    BY <1>0, <1>2, <1>6, <2>1 DEF FreeInv, TypeOK
<1> QED
  BY <1>1, <1>11, <1>12, <1>14, <1>15, <1>16, <1>17, <1>18 DEF IInv

-----------------------------------------------------------------------------
LEMMA InitIInv == Init => IInv
<1> SUFFICES ASSUME NEW t \in Thread, InitBy(t)
             PROVE  IInv
  BY DEF Init
<1>1. TypeOK
  BY InitType DEF Init
<1>2. /\ \A u \in Thread : pc[u] = "idle" /\ loc[u] = NoLocal
      /\ context_mutex = NULL
      /\ \A c \in VAContextID : entry[c] = NULL
      /\ \A i \in Slot : ptra_ctx[i] = IF i = Virtual THEN VirtualCtx ELSE NULL
      /\ heap[VirtualCtx].mem = "allocated"
  <2>1. heap[VirtualCtx].mem = "allocated"
    BY TraceAssumption DEF InitBy, Zeroed
  <2> QED
    BY <2>1 DEF InitBy, Slot
<1>3. NoLocal.c = NULL /\ NoLocal.obj = NULL /\ NoLocal.old = NULL
  BY DEF NoLocal
<1>4. SlotsInv
  BY <1>2 DEF SlotsInv
<1>5. MutexInv
  BY <1>2, TraceAssumption DEF MutexInv, InMutex, Creating, Removing, Ending
<1>6. UsersInv /\ FreeInv
  BY <1>2, <1>3 DEF UsersInv, FreeInv
<1>7. \A u \in Thread : Place(u) /\ Own(u) /\ Idx(u)
  BY <1>2, <1>3 DEF Place, Own, Idx, Creating, Using, Removing, Ending
<1> QED
  BY <1>1, <1>2, <1>4, <1>5, <1>6, <1>7 DEF IInv

LEMMA NextIInv ==
  ASSUME IInv, [Next]_vars
  PROVE  IInv'
<1>1. CASE UNCHANGED vars
  <2>1. TypeOK'
    BY <1>1 DEF IInv, TypeOK, vars
  <2>2. /\ MutexInv' /\ UsersInv' /\ FreeInv' /\ SlotsInv'
        /\ \A t \in Thread : Place(t)' /\ Own(t)'
    BY <1>1 DEF IInv, vars, MutexInv, UsersInv, FreeInv, SlotsInv, Place, Own, Live
  <2>3. \A t \in Thread : Idx(t)'
    BY <1>1 DEF IInv, vars, Idx, FirstHolds, Holds
  <2>4. \A c \in VAContextID : entry'[c] # NULL =>
             EntrySlot(c)' /\ \A t \in Thread : EntryKept(c, t)'
    BY <1>1 DEF IInv, vars, EntrySlot, EntryKept, FirstHolds, Holds
  <2> QED
    BY <2>1, <2>2, <2>3, <2>4 DEF IInv
<1>2. ASSUME NEW t \in Thread, Begin(t)
      PROVE  IInv'
  BY <1>2, DriverCreateConfigInv, DriverDestroyConfigInv, DriverCreateContextInv,
     DriverDestroyContextInv, CallOnContextInv DEF Begin
<1>3. ASSUME NEW t \in Thread, Continue(t)
      PROVE  IInv'
  <2>1. CASE \/ EnterVirtual(t, "add_config_lock", "add_config")
             \/ EnterVirtual(t, "delete_config_lock", "delete_config")
             \/ EnterVirtual(t, "status_lock", "status")
    BY <2>1, EnterVirtualInv DEF Label, InMutex, Creating, Removing, Ending, Using
  <2>2. CASE \/ va_TraceCreateConfig(t) \/ va_TraceDestroyConfig(t)
             \/ CreateLock(t) \/ CreateLog(t) \/ CreateUpdate(t)
             \/ CreateFail(t) \/ Reap(t) \/ Unlock(t)
    BY <2>2, va_TraceCreateConfigInv, va_TraceDestroyConfigInv, CreateLockInv,
       CreateLogInv, CreateUpdateInv, CreateFailInv, ReapInv, UnlockInv
  <2>3. CASE \/ DestroyLock(t) \/ DestroyUpdate(t) \/ Lookup(t)
             \/ ReadSlot(t) \/ TraceCall(t) \/ va_TraceStatus(t)
    BY <2>3, DestroyLockInv, DestroyUpdateInv, LookupInv, ReadSlotInv,
       TraceCallInv, va_TraceStatusInv
  <2>4. CASE \/ RefreshStart(t, "destroy_refresh", "destroy_store")
             \/ RefreshStart(t, "call_refresh", "call_store")
             \/ RefreshStore(t, "destroy_store", "destroy_update")
             \/ RefreshStore(t, "call_store", "call_print")
    BY <2>4, DestroyRefreshStartInv, CallRefreshStartInv, DestroyRefreshStoreInv,
       CallRefreshStoreInv
  <2> QED
    BY <1>3, <2>1, <2>2, <2>3, <2>4 DEF Continue
<1> QED
  BY <1>1, <1>2, <1>3 DEF Next

(* IInv holds in every state.                                              *)
THEOREM Inductive == Spec => []IInv
BY InitIInv, NextIInv, PTL DEF Spec

(* The trace_context created for a live context id is the one every lookup *)
(* of the id finds, and the one a call on the context uses.                *)
THEOREM EntryFound == Spec => []EntryIsFound
<1>1. IInv => EntryIsFound
  <2> SUFFICES ASSUME IInv
               PROVE  EntryIsFound
    OBVIOUS
  <2>1. ASSUME NEW c \in VAContextID, entry[c] # NULL
        PROVE  LET i == get_valid_ctx_idx(c)
               IN  i \in CtxIdx /\ ptra_ctx[i] = entry[c]
    <3>1. PICK k \in CtxIdx : ptra_ctx[k] = entry[c] /\ FirstHolds(k, c)
      BY <2>1 DEF IInv, EntrySlot
    <3> DEFINE i == get_valid_ctx_idx(c)
    <3>2. /\ i \in CtxIdx => Holds(i, c)
          /\ \A j \in CtxIdx : j < i \/ i \notin CtxIdx => ~Holds(j, c)
      BY ValidCtxIdx DEF Holds
    <3> HIDE DEF i
    <3>3. i \in CtxIdx
      BY <3>1, <3>2 DEF FirstHolds
    <3>4. i \in Int /\ k \in Int
      BY <3>1, <3>3, TraceAssumption DEF CtxIdx
    <3>5. i = k
      BY <3>1, <3>2, <3>3, <3>4 DEF FirstHolds
    <3> QED
      BY <3>1, <3>3, <3>5 DEF i
  <2>2. ASSUME NEW t \in Thread, pc[t] \in Using, entry[loc[t].c] # NULL
        PROVE  loc[t].obj = entry[loc[t].c]
    <3>1. Place(t) /\ loc[t].c \in VAContextID \cup {NULL}
      BY TypesAt DEF IInv
    <3>2. loc[t].c \in VAContextID
      BY <2>2, <3>1 DEF Place
    <3> QED
      BY <2>2, <3>2 DEF IInv, EntryKept
  <2> QED
    BY <2>1, <2>2 DEF EntryIsFound, Using
<1> QED
  BY <1>1, Inductive, PTL

(* No trace_context is freed twice, or while a slot points to it.          *)
THEOREM FreedOnceCorrect == Spec => []FreedOnce
<1>1. IInv => FreedOnce
  <2> SUFFICES ASSUME IInv
               PROVE  FreedOnce
    OBVIOUS
  <2>1. \A i, j \in CtxIdx \cup {Virtual} : ptra_ctx[i] # NULL =>
          /\ heap[ptra_ctx[i]].mem = "allocated"
          /\ i # j => ptra_ctx[i] # ptra_ctx[j]
    BY DEF IInv, SlotsInv, Slot
  <2>2. ASSUME NEW t \in Thread, NEW u \in Thread, loc[t].old # NULL
        PROVE  /\ heap[loc[t].old].mem = "allocated"
               /\ \A i \in CtxIdx \cup {Virtual} : ptra_ctx[i] # loc[t].old
               /\ u # t => loc[u].old # loc[t].old
    <3>1. Own(t) /\ pc[t] \in InMutex
      BY <2>2 DEF IInv, Own, InMutex, Ending
    <3>2. u # t => loc[u].old = NULL
      BY <3>1, OnlyOwner
    <3> QED
      BY <2>2, <3>1, <3>2 DEF Own, Live, Slot
  <2> QED
    BY <2>1, <2>2 DEF FreedOnce
<1> QED
  BY <1>1, Inductive, PTL

-----------------------------------------------------------------------------
(* context_num counts the occupied slots.                                  *)
OccupiedSlots == {i \in CtxIdx : ptra_ctx[i] # NULL}

LEMMA SlotsFinite == IsFiniteSet(OccupiedSlots) /\ Cardinality(OccupiedSlots) \in Nat
<1>1. IsFiniteSet(CtxIdx)
  BY TraceAssumption, FS_Interval DEF CtxIdx
<1>2. IsFiniteSet(OccupiedSlots)
  BY <1>1, FS_Subset DEF OccupiedSlots
<1> QED
  BY <1>2, FS_CardinalityType

(* Filling or emptying one slot and counting it keeps the count.           *)
LEMMA CountSlot ==
  ASSUME TypeOK, NEW i \in CtxIdx, NEW a \in Address \cup {NULL},
         ptra_ctx' = [ptra_ctx EXCEPT ![i] = a],
         context_num = Cardinality(OccupiedSlots),
         context_num' = context_num - Occupied(i) + (IF a = NULL THEN 0 ELSE 1)
  PROVE  context_num' = Cardinality(OccupiedSlots)'
<1>1. /\ ptra_ctx'[i] = a
      /\ \A j \in CtxIdx : j # i => ptra_ctx'[j] = ptra_ctx[j]
  BY DEF TypeOK
<1>2. IsFiniteSet(OccupiedSlots) /\ Cardinality(OccupiedSlots) \in Nat
  BY SlotsFinite
<1> DEFINE R == OccupiedSlots \ {i}
<1>3. IsFiniteSet(R) /\ Cardinality(R) = Cardinality(OccupiedSlots) - Occupied(i)
  <2>1. i \in OccupiedSlots <=> ptra_ctx[i] # NULL
    BY DEF OccupiedSlots
  <2> QED
    BY <1>2, <2>1, FS_RemoveElement DEF Occupied
<1>4. CASE a = NULL
  <2>1. OccupiedSlots' = R
    BY <1>1, <1>4 DEF OccupiedSlots
  <2> QED
    BY <1>2, <1>3, <1>4, <2>1 DEF Occupied
<1>5. CASE a # NULL
  <2>1. OccupiedSlots' = R \cup {i}
    BY <1>1, <1>5 DEF OccupiedSlots
  <2>2. Cardinality(R \cup {i}) = Cardinality(R) + 1
    BY <1>3, FS_AddElement
  <2> QED
    BY <1>2, <1>3, <1>5, <2>1, <2>2 DEF Occupied
<1> QED
  BY <1>4, <1>5

(* The number va_TraceEnd counts down is the number of occupied slots.     *)
THEOREM ContextNumCorrect == Spec => []ContextNumIsOccupied
<1> DEFINE Counted == context_num = Cardinality(OccupiedSlots)
<1>1. Init => Counted
  <2> SUFFICES ASSUME NEW t \in Thread, InitBy(t)
               PROVE  Counted
    BY DEF Init
  <2>1. Virtual \notin CtxIdx
    BY TraceAssumption DEF Virtual, CtxIdx
  <2>2. OccupiedSlots = {}
    BY <2>1 DEF OccupiedSlots, InitBy
  <2> QED
    BY <2>2, FS_EmptySet DEF InitBy
<1>2. ASSUME IInv, Counted, [Next]_vars
      PROVE  Counted'
  <2>1. TypeOK
    BY <1>2 DEF IInv
  <2>2. CASE UNCHANGED tables
    BY <1>2, <2>2 DEF tables, OccupiedSlots
  <2>3. ASSUME NEW t \in Thread, CreateUpdate(t)
        PROVE  Counted'
    <3>1. loc[t].obj \in Address /\ loc[t].obj # NULL /\ loc[t].idx \in CtxIdx
      BY <1>2, <2>1, <2>3, TypesAt DEF IInv, Own, CreateUpdate
    <3> QED
      BY <1>2, <2>1, <2>3, <3>1, CountSlot DEF CreateUpdate
  <2>4. ASSUME NEW t \in Thread, CreateFail(t)
        PROVE  Counted'
    <3>1. CASE loc[t].idx \in CtxIdx
      <4>1. /\ ptra_ctx' = [ptra_ctx EXCEPT ![loc[t].idx] = NULL]
            /\ context_num' = context_num - Occupied(loc[t].idx)
        BY <2>4, <3>1 DEF CreateFail, Emptied
      <4>2. context_num' = context_num - Occupied(loc[t].idx) + 0
        BY <2>1, <4>1 DEF TypeOK, Occupied
      <4> QED
        BY <1>2, <2>1, <3>1, <4>1, <4>2, CountSlot
    <3>2. CASE loc[t].idx \notin CtxIdx
      BY <2>2, <2>4, <3>2 DEF CreateFail, Emptied, tables
    <3> QED
      BY <3>1, <3>2
  <2>5. ASSUME NEW t \in Thread, DestroyUpdate(t)
        PROVE  Counted'
    <3>1. loc[t].idx \in CtxIdx
      BY <1>2, <2>5 DEF IInv, Idx, DestroyUpdate, Emptied, MayTakeOut, Removing
    <3>2. CASE UNCHANGED tables
      BY <2>2, <3>2
    <3>3. CASE /\ ptra_ctx' = [ptra_ctx EXCEPT ![loc[t].idx] = NULL]
               /\ context_num' = context_num - Occupied(loc[t].idx)
      <4>1. context_num' = context_num - Occupied(loc[t].idx) + 0
        BY <2>1, <3>3 DEF TypeOK, Occupied
      <4> QED
        BY <1>2, <2>1, <3>1, <3>3, <4>1, CountSlot
    <3> QED
      BY <2>5, <3>2, <3>3 DEF DestroyUpdate, Emptied, MayTakeOut
  <2>6. ASSUME NEW t \in Thread, Begin(t) \/ Continue(t)
        PROVE  \/ UNCHANGED tables
               \/ CreateUpdate(t) \/ CreateFail(t) \/ DestroyUpdate(t)
    BY <2>6 DEF Begin, DriverCreateConfig, DriverDestroyConfig, DriverCreateContext,
       DriverDestroyContext, CallOnContext, Continue, EnterVirtual,
       va_TraceCreateConfig, va_TraceDestroyConfig, CreateLock, CreateLog, Reap,
       Unlock, DestroyLock, RefreshStart, RefreshStore, Lookup, ReadSlot,
       TraceCall, va_TraceStatus, tables
  <2> QED
    BY <1>2, <2>2, <2>3, <2>4, <2>5, <2>6 DEF Next, vars, tables
<1>3. Counted => ContextNumIsOccupied
  BY DEF ContextNumIsOccupied, OccupiedSlots
<1> QED
  BY <1>1, <1>2, <1>3, Inductive, PTL DEF Spec

-----------------------------------------------------------------------------
(* The table of log files under every step of VATrace: which thread a file *)
(* belongs to, and that its use count covers its users.                    *)

(* What starting to trace in thread t does to the table: it opens or joins *)
(* one slot, which is t's own or was unused while t had none, or leaves a  *)
(* slot without users as it is, but for its name.                          *)
LEMMA StartTable ==
  ASSUME NEW lf \in [LogIdx -> LogFile], NEW t \in Thread, NEW ok \in BOOLEAN
  PROVE  LET new == start_tracing2log_file(lf, t, ok).table
         IN  \/ new = lf
             \/ \E i \in LogIdx :
                  /\ \A j \in LogIdx : j # i => new[j] = lf[j]
                  /\ \/ new[i].thread_id = lf[i].thread_id
                     \/ /\ lf[i].used = 0 /\ new[i].thread_id = t
                        /\ \A j \in LogIdx : lf[j].thread_id # t
<1> DEFINE i == get_log_file_idx_by_thd(lf, t)
<1>1. CASE i \notin LogIdx
  BY <1>1 DEF start_tracing2log_file
<1>2. CASE i \in LogIdx
  <2> DEFINE f == open_tracing_log_file(lf[i], t, ok).file
             new == start_tracing2log_file(lf, t, ok).table
  <2>1. new = [lf EXCEPT ![i] = f]
    BY <1>2 DEF start_tracing2log_file
  <2>2. \/ lf[i].thread_id = t
        \/ lf[i].used = 0 /\ \A j \in LogIdx : lf[j].thread_id # t
    BY <1>2, LogFileIdx
  <2>3. f \in {lf[i], [lf[i] EXCEPT !.used = @ + 1], [lf[i] EXCEPT !.fn_log = FALSE]}
        \/ (f = Opened(t) /\ lf[i].used = 0)
    <3>1. CASE lf[i].used # 0
      BY <3>1 DEF open_tracing_log_file
    <3>2. CASE lf[i].used = 0
      BY <3>2 DEF open_tracing_log_file
    <3> QED
      BY <3>1, <3>2
  <2> HIDE DEF i, f
  <2>4. lf[i] \in LogFile
    BY <1>2
  <2>5. f.thread_id = lf[i].thread_id \/ (f.thread_id = t /\ lf[i].used = 0)
    BY <2>3, <2>4 DEF LogFile, Opened
  <2>6. new[i] = f /\ \A j \in LogIdx : j # i => new[j] = lf[j]
    BY <1>2, <2>1
  <2> HIDE DEF new
  <2>7. \/ new[i].thread_id = lf[i].thread_id
        \/ /\ lf[i].used = 0 /\ new[i].thread_id = t
           /\ \A j \in LogIdx : lf[j].thread_id # t
    BY <2>2, <2>5, <2>6
  <2> QED
    BY <1>2, <2>6, <2>7 DEF new
<1> QED
  BY <1>1, <1>2

(* Stopping changes no thread_id.                                          *)
LEMMA StopTable ==
  ASSUME NEW lf \in [LogIdx -> LogFile], NEW i \in LogIdx
  PROVE  \A j \in LogIdx : stop_tracing2log_file(lf, i)[j].thread_id = lf[j].thread_id
<1>1. Released(lf[i]).thread_id = lf[i].thread_id
  BY DEF Released, LogFile
<1> QED
  BY <1>1 DEF stop_tracing2log_file

(* Every step leaves the table alone, starts a thread or stops a slot.     *)
LEMMA LogStep ==
  ASSUME TypeOK, [Next]_vars
  PROVE  \/ log_file' = log_file
         \/ \E t \in Thread, ok \in BOOLEAN :
              log_file' = start_tracing2log_file(log_file, t, ok).table
         \/ \E i \in LogIdx : log_file' = stop_tracing2log_file(log_file, i)
<1>1. ASSUME NEW t \in Thread, Reap(t)
      PROVE  \/ log_file' = log_file
             \/ \E i \in LogIdx : log_file' = stop_tracing2log_file(log_file, i)
  <2> DEFINE a == loc[t].old
             k == Min(Listed(a))
  <2>1. CASE a # NULL /\ Listed(a) # {}
    <3>1. log_file' = stop_tracing2log_file(log_file, heap[a].plog_file_list[k])
      BY <1>1, <2>1 DEF Reap
    <3>2. Listed(a) \in SUBSET Nat
      BY DEF Listed, LogIdx
    <3>3. k \in Listed(a)
      BY <2>1, <3>2, MinIsLeast
    <3>4. a \in Address
      BY <2>1, TypesAt
    <3> HIDE DEF k, a
    <3>5. heap[a].plog_file_list[k] \in LogIdx
      BY <3>3, <3>4 DEF Listed, TypeOK, TraceContext
    <3> QED
      BY <3>1, <3>5
  <2>2. CASE ~ (a # NULL /\ Listed(a) # {})
    BY <1>1, <2>2 DEF Reap
  <2> QED
    BY <2>1, <2>2
<1>2. ASSUME NEW t \in Thread, NEW from, NEW to,
             \/ EnterVirtual(t, from, to) \/ RefreshStart(t, from, to) \/ CreateLog(t)
      PROVE  \/ log_file' = log_file
             \/ \E ok \in BOOLEAN :
                  log_file' = start_tracing2log_file(log_file, t, ok).table
  BY <1>2 DEF EnterVirtual, RefreshStart, CreateLog, Fopen
<1>3. ASSUME NEW t \in Thread, Begin(t)
      PROVE  log_file' = log_file
  BY <1>3 DEF Begin, DriverCreateConfig, DriverDestroyConfig, DriverCreateContext,
     DriverDestroyContext, CallOnContext
<1>4. ASSUME NEW t \in Thread, Continue(t)
      PROVE  \/ log_file' = log_file \/ Reap(t) \/ CreateLog(t)
             \/ \E from, to : EnterVirtual(t, from, to) \/ RefreshStart(t, from, to)
  BY <1>4 DEF Continue, va_TraceCreateConfig, va_TraceDestroyConfig, CreateLock,
     CreateUpdate, CreateFail, Unlock, DestroyLock, RefreshStore, DestroyUpdate,
     Lookup, ReadSlot, TraceCall, va_TraceStatus
<1> QED
  BY <1>1, <1>2, <1>3, <1>4 DEF Next, vars

(* Two slots never belong to the same thread, so the slot a thread is      *)
(* found in is the one whose file it has open.                             *)
THEOREM OneFile == Spec => []OneFilePerThread
<1>1. Init => OneFilePerThread
  BY DEF Init, InitBy, OneFilePerThread, Opened, NoLogFile
<1>2. ASSUME TypeOK, OneFilePerThread, [Next]_vars
      PROVE  OneFilePerThread'
  <2>1. log_file \in [LogIdx -> LogFile]
    BY <1>2 DEF TypeOK
  <2>2. CASE log_file' = log_file
    BY <1>2, <2>2 DEF OneFilePerThread
  <2>3. ASSUME NEW t \in Thread, NEW ok \in BOOLEAN,
               log_file' = start_tracing2log_file(log_file, t, ok).table
        PROVE  OneFilePerThread'
    <3>1. \/ log_file' = log_file
          \/ \E i \in LogIdx :
               /\ \A j \in LogIdx : j # i => log_file'[j] = log_file[j]
               /\ \/ log_file'[i].thread_id = log_file[i].thread_id
                  \/ /\ log_file[i].used = 0 /\ log_file'[i].thread_id = t
                     /\ \A j \in LogIdx : log_file[j].thread_id # t
      BY <2>1, <2>3, StartTable
    <3> QED
      BY <1>2, <2>2, <3>1 DEF OneFilePerThread
  <2>4. ASSUME NEW i \in LogIdx, log_file' = stop_tracing2log_file(log_file, i)
        PROVE  OneFilePerThread'
    BY <1>2, <2>1, <2>4, StopTable DEF OneFilePerThread
  <2> QED
    BY <1>2, <2>2, <2>3, <2>4, LogStep
<1> QED
  BY <1>1, <1>2, TypeCorrect, PTL DEF Spec

(* A file in use keeps its thread, so the unlocked reads of thread_id in   *)
(* refresh_log_file see a value that does not change under them.           *)
THEOREM KeepsThread == Spec => FileKeepsThread
<1>1. ASSUME TypeOK, [Next]_vars
      PROVE  \A s \in LogIdx : log_file[s].used > 0 /\ log_file'[s].used > 0
               => log_file'[s].thread_id = log_file[s].thread_id
  <2>1. log_file \in [LogIdx -> LogFile]
    BY <1>1 DEF TypeOK
  <2>2. ASSUME NEW t \in Thread, NEW ok \in BOOLEAN, NEW s \in LogIdx,
               log_file' = start_tracing2log_file(log_file, t, ok).table,
               log_file[s].used > 0
        PROVE  log_file'[s].thread_id = log_file[s].thread_id
    <3>1. \/ log_file' = log_file
          \/ \E i \in LogIdx :
               /\ \A j \in LogIdx : j # i => log_file'[j] = log_file[j]
               /\ \/ log_file'[i].thread_id = log_file[i].thread_id
                  \/ log_file[i].used = 0
      BY <2>1, <2>2, StartTable
    <3>2. log_file[s].used # 0
      BY <2>1, <2>2 DEF LogFile
    <3> QED
      BY <3>1, <3>2
  <2>3. ASSUME NEW i \in LogIdx, NEW s \in LogIdx,
               log_file' = stop_tracing2log_file(log_file, i)
        PROVE  log_file'[s].thread_id = log_file[s].thread_id
    BY <2>1, <2>3, StopTable
  <2> QED
    BY <1>1, <2>2, <2>3, LogStep
<1> QED
  BY <1>1, TypeCorrect, PTL DEF Spec, FileKeepsThread

-----------------------------------------------------------------------------
(***************************************************************************)
(* LogInv is inductive.  Every step does one of four things to the uses of *)
(* the files: it adds none; start_tracing2log_file counts one that a       *)
(* trace_context or a thread then holds; a thread stores one that it       *)
(* holds; or stop_tracing2log_file takes one back.                         *)
(***************************************************************************)

(* Parts of finite sets.                                                   *)
LEMMA PartCount ==
  ASSUME NEW S, IsFiniteSet(S), NEW T \in SUBSET S
  PROVE  /\ IsFiniteSet(T) /\ Cardinality(T) <= Cardinality(S)
         /\ Cardinality(S) \in Nat /\ Cardinality(T) \in Nat
BY FS_Subset, FS_CardinalityType

(* A part of a finite set with one more element.                           *)
LEMMA OneMore ==
  ASSUME NEW S, IsFiniteSet(S), NEW x, NEW T \in SUBSET (S \cup {x})
  PROVE  /\ IsFiniteSet(T) /\ Cardinality(T) <= Cardinality(S) + 1
         /\ Cardinality(S) \in Nat /\ Cardinality(T) \in Nat
<1> DEFINE X == S \cup {x}
<1>1. /\ IsFiniteSet(X)
      /\ Cardinality(X) = IF x \in S THEN Cardinality(S) ELSE Cardinality(S) + 1
  BY FS_AddElement
<1>2. Cardinality(S) \in Nat
  BY FS_CardinalityType
<1>3. T \in SUBSET X
  OBVIOUS
<1> HIDE DEF X
<1>4. IsFiniteSet(T) /\ Cardinality(T) <= Cardinality(X) /\ Cardinality(T) \in Nat
  BY <1>1, <1>3, PartCount
<1> QED
  BY <1>1, <1>2, <1>4

(* A part of a finite set without one of its elements.                     *)
LEMMA OneLess ==
  ASSUME NEW S, IsFiniteSet(S), NEW x \in S, NEW T \in SUBSET (S \ {x})
  PROVE  /\ IsFiniteSet(T) /\ Cardinality(T) <= Cardinality(S) - 1
         /\ Cardinality(S) \in Nat /\ Cardinality(T) \in Nat
<1> DEFINE X == S \ {x}
<1>1. IsFiniteSet(X) /\ Cardinality(X) = Cardinality(S) - 1
  BY FS_RemoveElement
<1>2. Cardinality(S) \in Nat
  BY FS_CardinalityType
<1>3. T \in SUBSET X
  OBVIOUS
<1> HIDE DEF X
<1>4. IsFiniteSet(T) /\ Cardinality(T) <= Cardinality(X) /\ Cardinality(T) \in Nat
  BY <1>1, <1>3, PartCount
<1> QED
  BY <1>1, <1>2, <1>4

(* start_tracing2log_file counts one more use of the file it returns, and  *)
(* no other; a file is open exactly while it has uses.                     *)
LEMMA StartCount ==
  ASSUME NEW lf \in [LogIdx -> LogFile], NEW t \in Thread, NEW ok \in BOOLEAN,
         \A s \in LogIdx : lf[s].fp_log <=> lf[s].used > 0
  PROVE  LET r == start_tracing2log_file(lf, t, ok)
         IN  \A s \in LogIdx :
               /\ r.table[s].used = IF s = r.plog_file THEN lf[s].used + 1
                                    ELSE lf[s].used
               /\ r.table[s].fp_log <=> r.table[s].used > 0
<1> DEFINE i == get_log_file_idx_by_thd(lf, t)
           r == start_tracing2log_file(lf, t, ok)
<1>1. CASE i \notin LogIdx
  <2>1. r = [plog_file |-> NULL, table |-> lf]
    BY <1>1 DEF start_tracing2log_file
  <2>2. NULL \notin LogIdx
    BY LogAssumption DEF LogIdx
  <2> QED
    BY <2>1, <2>2
<1>2. CASE i \in LogIdx
  <2> DEFINE o == open_tracing_log_file(lf[i], t, ok)
  <2>1. r = [plog_file |-> IF o.ok THEN i ELSE NULL, table |-> [lf EXCEPT ![i] = o.file]]
    BY <1>2 DEF start_tracing2log_file
  <2> HIDE DEF i, r
  <2>2. lf[i] \in LogFile /\ (lf[i].fp_log <=> lf[i].used > 0)
    BY <1>2
  <2>3. /\ o.file.used = IF o.ok THEN lf[i].used + 1 ELSE lf[i].used
        /\ o.file.fp_log <=> o.file.used > 0
    <3>1. CASE lf[i].used # 0 /\ lf[i].thread_id # t
      BY <2>2, <3>1 DEF open_tracing_log_file, LogFile
    <3>2. CASE lf[i].used # 0 /\ lf[i].thread_id = t
      <4>1. o = [ok |-> TRUE, file |-> [lf[i] EXCEPT !.used = lf[i].used + 1]]
        BY <3>2 DEF open_tracing_log_file
      <4>2. o.ok /\ o.file.used = lf[i].used + 1 /\ o.file.fp_log = lf[i].fp_log
        BY <2>2, <4>1 DEF LogFile
      <4>3. lf[i].used \in Int
        BY <2>2 DEF LogFile
      <4> HIDE DEF o
      <4> QED
        BY <2>2, <3>2, <4>2, <4>3
    <3>3. CASE lf[i].used = 0 /\ ok /\ (lf[i].thread_id = t => lf[i].fn_log)
      <4>1. o = [ok |-> TRUE, file |-> Opened(t)]
        BY <3>3 DEF open_tracing_log_file
      <4>2. o.ok /\ o.file.used = 1 /\ o.file.fp_log
        BY <4>1 DEF Opened
      <4> HIDE DEF o
      <4> QED
        BY <3>3, <4>2
    <3>4. CASE lf[i].used = 0 /\ ~ (ok /\ (lf[i].thread_id = t => lf[i].fn_log))
      <4>1. o = [ok |-> FALSE, file |-> [lf[i] EXCEPT !.fn_log = FALSE]]
        BY <3>4 DEF open_tracing_log_file
      <4>2. ~ o.ok /\ o.file.used = lf[i].used /\ o.file.fp_log = lf[i].fp_log
        BY <2>2, <4>1 DEF LogFile
      <4> HIDE DEF o
      <4> QED
        BY <2>2, <4>2
    <3> QED
      BY <3>1, <3>2, <3>3, <3>4
  <2>4. NULL \notin LogIdx
    BY LogAssumption DEF LogIdx
  <2> HIDE DEF o
  <2>5. /\ r.table[i] = o.file /\ \A s \in LogIdx : s # i => r.table[s] = lf[s]
        /\ r.plog_file = IF o.ok THEN i ELSE NULL
    BY <1>2, <2>1
  <2> QED
    BY <1>2, <2>3, <2>4, <2>5 DEF r
<1> QED
  BY <1>1, <1>2

(* refresh_log_file never lists a file: the index it would list it at is   *)
(* never more than the length of the list.                                 *)
LEMMA SwitchLog ==
  ASSUME NEW o \in TraceContext, NEW t \in Thread, NEW f \in LogIdx \cup {NULL}
  PROVE  /\ SwitchLogFile(o, t, f).plog_file_list = o.plog_file_list
         /\ SwitchLogFile(o, t, f).plog_file = IF f = NULL THEN o.plog_file ELSE f
<1> DEFINE own  == {k \in LogIdx : /\ o.plog_file_list[k] # NULL
                                   /\ log_file[o.plog_file_list[k]].thread_id = t}
           i    == IF own # {} THEN Min(own) ELSE MAX_TRACE_THREAD_NUM
           none == {k \in LogIdx : o.plog_file_list[k] = NULL /\ k < i}
<1>1. own \in SUBSET Nat
  BY DEF LogIdx
<1>2. own # {} => Min(own) \in LogIdx
  BY <1>1, MinIsLeast
<1>3. SwitchLogFile(o, t, f) =
        IF f = NULL THEN o
        ELSE IF i > MAX_TRACE_THREAD_NUM /\ none # {}
        THEN [o EXCEPT !.plog_file = f, !.plog_file_list[Min(none)] = f]
        ELSE [o EXCEPT !.plog_file = f]
  BY DEF SwitchLogFile
<1> HIDE DEF own, none
<1>4. ~ (i > MAX_TRACE_THREAD_NUM)
  BY <1>2, LogAssumption DEF LogIdx
<1> HIDE DEF i
<1> QED
  BY <1>3, <1>4 DEF TraceContext

-----------------------------------------------------------------------------
(* A step that adds no use and counts none.                                *)
LEMMA KeptCount ==
  ASSUME TypeOK, NEW s \in LogIdx, CountInv(s), log_file' = log_file,
         Uses(s)' \subseteq Uses(s), Pending(s)' \subseteq Pending(s)
  PROVE  CountInv(s)'
<1>1. log_file[s].used \in Int
  BY DEF TypeOK, LogFile
<1>2. IsFiniteSet(Uses(s)) /\ IsFiniteSet(Pending(s))
  BY DEF CountInv
<1>3. /\ IsFiniteSet(Uses(s)') /\ Cardinality(Uses(s)') <= Cardinality(Uses(s))
      /\ Cardinality(Uses(s)) \in Nat /\ Cardinality(Uses(s)') \in Nat
  BY <1>2, PartCount
<1>4. /\ IsFiniteSet(Pending(s)') /\ Cardinality(Pending(s)') <= Cardinality(Pending(s))
      /\ Cardinality(Pending(s)) \in Nat /\ Cardinality(Pending(s)') \in Nat
  BY <1>2, PartCount
<1> QED
  BY <1>1, <1>3, <1>4 DEF CountInv

(* A use is counted, and then held by the trace_context or the thread x.   *)
LEMMA JoinedCount ==
  ASSUME TypeOK, NEW t \in Thread, NEW ok \in BOOLEAN, NEW x,
         \A s \in LogIdx : CountInv(s),
         log_file' = start_tracing2log_file(log_file, t, ok).table,
         NEW s \in LogIdx,
         \/ /\ Uses(s)' \subseteq Uses(s)
            /\ Pending(s)' \subseteq Pending(s)
         \/ /\ s = start_tracing2log_file(log_file, t, ok).plog_file
            /\ \/ /\ Uses(s)' \subseteq Uses(s) \cup {x}
                  /\ Pending(s)' \subseteq Pending(s)
               \/ /\ Uses(s)' \subseteq Uses(s)
                  /\ Pending(s)' \subseteq Pending(s) \cup {x}
  PROVE  CountInv(s)'
<1> DEFINE f == start_tracing2log_file(log_file, t, ok).plog_file
<1>1. /\ log_file \in [LogIdx -> LogFile] /\ log_file[s].used \in Int
      /\ \A r \in LogIdx : log_file[r].fp_log <=> log_file[r].used > 0
  BY DEF TypeOK, LogFile, CountInv
<1>2. /\ log_file'[s].used = IF s = f THEN log_file[s].used + 1 ELSE log_file[s].used
      /\ log_file'[s].fp_log <=> log_file'[s].used > 0
  BY <1>1, StartCount
<1> HIDE DEF f
<1>3. /\ IsFiniteSet(Uses(s)) /\ IsFiniteSet(Pending(s))
      /\ Cardinality(Uses(s)) + Cardinality(Pending(s)) <= log_file[s].used
  BY DEF CountInv
<1>4. CASE Uses(s)' \subseteq Uses(s) /\ Pending(s)' \subseteq Pending(s)
  <2>1. /\ IsFiniteSet(Uses(s)') /\ Cardinality(Uses(s)') <= Cardinality(Uses(s))
        /\ Cardinality(Uses(s)) \in Nat /\ Cardinality(Uses(s)') \in Nat
    BY <1>3, <1>4, PartCount
  <2>2. /\ IsFiniteSet(Pending(s)') /\ Cardinality(Pending(s)') <= Cardinality(Pending(s))
        /\ Cardinality(Pending(s)) \in Nat /\ Cardinality(Pending(s)') \in Nat
    BY <1>3, <1>4, PartCount
  <2> QED
    BY <1>1, <1>2, <1>3, <2>1, <2>2 DEF CountInv
<1>5. CASE s = f /\ Uses(s)' \subseteq Uses(s) \cup {x} /\ Pending(s)' \subseteq Pending(s)
  <2>1. /\ IsFiniteSet(Uses(s)') /\ Cardinality(Uses(s)') <= Cardinality(Uses(s)) + 1
        /\ Cardinality(Uses(s)) \in Nat /\ Cardinality(Uses(s)') \in Nat
    BY <1>3, <1>5, OneMore
  <2>2. /\ IsFiniteSet(Pending(s)') /\ Cardinality(Pending(s)') <= Cardinality(Pending(s))
        /\ Cardinality(Pending(s)) \in Nat /\ Cardinality(Pending(s)') \in Nat
    BY <1>3, <1>5, PartCount
  <2> QED
    BY <1>1, <1>2, <1>3, <1>5, <2>1, <2>2 DEF CountInv
<1>6. CASE s = f /\ Uses(s)' \subseteq Uses(s) /\ Pending(s)' \subseteq Pending(s) \cup {x}
  <2>1. /\ IsFiniteSet(Uses(s)') /\ Cardinality(Uses(s)') <= Cardinality(Uses(s))
        /\ Cardinality(Uses(s)) \in Nat /\ Cardinality(Uses(s)') \in Nat
    BY <1>3, <1>6, PartCount
  <2>2. /\ IsFiniteSet(Pending(s)') /\ Cardinality(Pending(s)') <= Cardinality(Pending(s)) + 1
        /\ Cardinality(Pending(s)) \in Nat /\ Cardinality(Pending(s)') \in Nat
    BY <1>3, <1>6, OneMore
  <2> QED
    BY <1>1, <1>2, <1>3, <1>6, <2>1, <2>2 DEF CountInv
<1> QED
  BY <1>4, <1>5, <1>6 DEF f

(* A use that thread t holds passes to the trace_context a.                *)
LEMMA StoredCount ==
  ASSUME TypeOK, NEW s \in LogIdx, CountInv(s), log_file' = log_file, NEW a, NEW t,
         t \in Pending(s), Uses(s)' \subseteq Uses(s) \cup {a},
         Pending(s)' \subseteq Pending(s) \ {t}
  PROVE  CountInv(s)'
<1>1. log_file[s].used \in Int
  BY DEF TypeOK, LogFile
<1>2. IsFiniteSet(Uses(s)) /\ IsFiniteSet(Pending(s))
  BY DEF CountInv
<1>3. /\ IsFiniteSet(Uses(s)') /\ Cardinality(Uses(s)') <= Cardinality(Uses(s)) + 1
      /\ Cardinality(Uses(s)) \in Nat /\ Cardinality(Uses(s)') \in Nat
  BY <1>2, OneMore
<1>4. /\ IsFiniteSet(Pending(s)')
      /\ Cardinality(Pending(s)') <= Cardinality(Pending(s)) - 1
      /\ Cardinality(Pending(s)) \in Nat /\ Cardinality(Pending(s)') \in Nat
  BY <1>2, OneLess
<1> QED
  BY <1>1, <1>3, <1>4 DEF CountInv

(* A use that the trace_context a held is taken back.                      *)
LEMMA StoppedCount ==
  ASSUME TypeOK, NEW s \in LogIdx, CountInv(s), NEW r \in LogIdx,
         log_file' = stop_tracing2log_file(log_file, r), NEW a,
         Uses(s)' \subseteq Uses(s), Pending(s)' \subseteq Pending(s),
         s = r => a \in Uses(s) \ Uses(s)'
  PROVE  CountInv(s)'
<1>1. log_file \in [LogIdx -> LogFile] /\ log_file[s] \in LogFile /\ log_file[s].used \in Int
  BY DEF TypeOK, LogFile
<1>2. log_file'[s] = IF s = r THEN Released(log_file[s]) ELSE log_file[s]
  BY <1>1 DEF stop_tracing2log_file
<1>3. /\ IsFiniteSet(Uses(s)) /\ IsFiniteSet(Pending(s))
      /\ Cardinality(Uses(s)) + Cardinality(Pending(s)) <= log_file[s].used
      /\ log_file[s].fp_log <=> log_file[s].used > 0
  BY DEF CountInv
<1>4. /\ IsFiniteSet(Pending(s)') /\ Cardinality(Pending(s)') <= Cardinality(Pending(s))
      /\ Cardinality(Pending(s)) \in Nat /\ Cardinality(Pending(s)') \in Nat
  BY <1>3, PartCount
<1>5. CASE s # r
  <2>1. /\ IsFiniteSet(Uses(s)') /\ Cardinality(Uses(s)') <= Cardinality(Uses(s))
        /\ Cardinality(Uses(s)) \in Nat /\ Cardinality(Uses(s)') \in Nat
    BY <1>3, PartCount
  <2> QED
    BY <1>1, <1>2, <1>3, <1>4, <1>5, <2>1 DEF CountInv
<1>6. CASE s = r
  <2>1. /\ IsFiniteSet(Uses(s)') /\ Cardinality(Uses(s)') <= Cardinality(Uses(s)) - 1
        /\ Cardinality(Uses(s)) \in Nat /\ Cardinality(Uses(s)') \in Nat
    <3>1. a \in Uses(s) /\ Uses(s)' \subseteq Uses(s) \ {a}
      BY <1>6
    <3> QED
      BY <1>3, <3>1, OneLess
  <2>2. log_file[s].used >= 1
    BY <1>1, <1>3, <1>4, <2>1
  <2>3. /\ log_file'[s].used = log_file[s].used - 1
        /\ log_file'[s].fp_log <=> log_file'[s].used > 0
    <3>1. CASE log_file[s].used > 1
      <4>1. log_file'[s] = [log_file[s] EXCEPT !.used = log_file[s].used - 1]
        BY <1>2, <1>6, <3>1 DEF Released
      <4>2. log_file'[s].used = log_file[s].used - 1 /\ log_file'[s].fp_log = log_file[s].fp_log
        BY <1>1, <4>1 DEF LogFile
      <4> QED
        BY <1>1, <1>3, <3>1, <4>2
    <3>2. CASE ~ (log_file[s].used > 1)
      <4>1. log_file'[s] = [log_file[s] EXCEPT !.used = log_file[s].used - 1, !.fp_log = FALSE]
        BY <1>2, <1>6, <3>2 DEF Released
      <4>2. log_file'[s].used = log_file[s].used - 1 /\ log_file'[s].fp_log = FALSE
        BY <1>1, <4>1 DEF LogFile
      <4> QED
        BY <1>1, <2>2, <3>2, <4>2
    <3> QED
      BY <3>1, <3>2
  <2> QED
    BY <1>1, <1>3, <1>4, <2>1, <2>3 DEF CountInv
<1> QED
  BY <1>5, <1>6

-----------------------------------------------------------------------------
(* A step of t, part by part.                                              *)
LEMMA PendingStep ==
  ASSUME NEW t \in Thread, Others(t), NEW s \in LogIdx
  PROVE  /\ loc'[t].file \in {loc[t].file, NULL} => Pending(s)' \subseteq Pending(s)
         /\ loc'[t].file = NULL => Pending(s)' \subseteq Pending(s) \ {t}
         /\ Pending(s)' \subseteq Pending(s) \cup {t}
         /\ loc'[t].file # s => Pending(s)' \subseteq Pending(s)
<1>1. s # NULL
  BY LogAssumption DEF LogIdx
<1> QED
  BY <1>1 DEF Pending, Others

(* The trace_contexts other than x are left alone.                         *)
LEMMA UsesStep ==
  ASSUME NEW x, NEW s \in LogIdx,
         \A a \in Address : a # x => heap'[a] = heap[a],
         \A i \in Slot : ptra_ctx'[i] # ptra_ctx[i] => ptra_ctx'[i] \in {x, NULL}
  PROVE  Uses(s)' \subseteq Uses(s) \cup {x}
<1>1. NULL \notin Address
  BY TraceAssumption
<1> QED
  BY <1>1 DEF Uses

Making == {"create_log", "create_update"}

(* What the place of another thread says of files.                         *)
LEMMA OthersFile ==
  ASSUME IInv, LogInv, NEW t \in Thread, Others(t), NEW u \in Thread, u # t,
         pc[u] \in Making => /\ heap'[loc[u].obj] = heap[loc[u].obj]
                             /\ loc'[t].obj # loc[u].obj
  PROVE  FileLocal(u)'
<1>1. pc'[u] = pc[u] /\ loc'[u] = loc[u] /\ FileLocal(u)
  BY DEF Others, LogInv
<1>2. ASSUME pc[u] \in Making
      PROVE  /\ heap'[loc[u].obj].plog_file = heap'[loc[u].obj].plog_file_list[0]
             /\ \A v \in Thread : v # u => loc'[v].obj # loc[u].obj
  BY <1>1, <1>2 DEF FileLocal, Others, Making
<1> QED
  BY <1>1, <1>2 DEF FileLocal, Making

(* While t is inside of the mutex, no other thread is creating.            *)
LEMMA AloneInside ==
  ASSUME IInv, NEW t \in Thread, pc[t] \in InMutex \/ context_mutex = NULL,
         NEW u \in Thread, u # t
  PROVE  pc[u] \notin Making
<1>1. u # NULL
  BY TraceAssumption
<1>2. MutexInv
  BY DEF IInv
<1>3. pc[u] \notin InMutex
  BY <1>1, <1>2 DEF MutexInv
<1> QED
  BY <1>3 DEF InMutex, Creating, Making

(* A step that touches no file, no trace_context and no slot.              *)
LEMMA QuietLog ==
  ASSUME IInv, LogInv, NEW t \in Thread, Others(t),
         log_file' = log_file, heap' = heap, ptra_ctx' = ptra_ctx,
         loc'[t].file = NULL, pc'[t] \notin Making,
         pc'[t] \in Using \cup Removing => loc'[t].obj # NULL,
         \/ loc'[t].obj \in {NULL, loc[t].obj}
         \/ \E i \in Slot : ptra_ctx[i] = loc'[t].obj
  PROVE  LogInv'
<1>1. TypeOK
  BY DEF IInv
<1>2. ASSUME NEW s \in LogIdx
      PROVE  CountInv(s)'
  <2>1. Uses(s)' = Uses(s)
    BY DEF Uses
  <2>2. Pending(s)' \subseteq Pending(s)
    BY PendingStep
  <2> QED
    BY <1>1, <2>1, <2>2, KeptCount DEF LogInv
<1>3. FileLocal(t)'
  BY DEF FileLocal, Making
<1>4. ASSUME NEW u \in Thread, u # t
      PROVE  FileLocal(u)'
  <2>1. pc[u] \in Making => loc'[t].obj # loc[u].obj
    <3>1. SUFFICES ASSUME pc[u] \in Making
                   PROVE  loc'[t].obj # loc[u].obj
      OBVIOUS
    <3>2. /\ loc[u].obj # NULL
          /\ \A i \in Slot : ptra_ctx[i] # loc[u].obj
      BY <3>1 DEF IInv, Own, Making, Live, Creating
    <3>3. loc[t].obj # loc[u].obj
      BY <1>4, <3>1 DEF LogInv, FileLocal, Making
    <3> QED
      BY <3>2, <3>3
  <2> QED
    BY <1>4, <2>1, OthersFile
<1>5. ListInv' /\ ptra_ctx'[Virtual] = VirtualCtx
  BY DEF LogInv, ListInv
<1> QED
  BY <1>2, <1>3, <1>4, <1>5 DEF LogInv

(* The steps of that kind.                                                 *)
LEMMA BeginLog ==
  ASSUME IInv, LogInv, NEW t \in Thread, Begin(t)
  PROVE  LogInv'
<1>0. TypeOK /\ Place(t)
  BY DEF IInv
<1>1. /\ pc[t] = "idle" /\ log_file' = log_file /\ heap' = heap /\ ptra_ctx' = ptra_ctx
      /\ \E l \in {"add_config_lock", "delete_config_lock", "create_lock", "status_lock",
                   "destroy_lock", "lookup"} : Goto(t, l)
      /\ \/ loc' = loc
         \/ \E g, p, after : loc' = [loc EXCEPT ![t] = OnConfig(g, p, after)]
         \/ \E c, g, after : loc' = [loc EXCEPT ![t] = OnContext(c, g, after)]
  <2>1. CASE DriverCreateConfig(t)
    BY <2>1 DEF DriverCreateConfig, MayCall, tables
  <2>2. CASE DriverDestroyConfig(t)
    BY <2>2 DEF DriverDestroyConfig, MayCall, tables
  <2>3. CASE DriverCreateContext(t)
    BY <2>3 DEF DriverCreateContext, MayCall, tables
  <2>4. CASE DriverDestroyContext(t)
    BY <2>4 DEF DriverDestroyContext, MayCall, tables
  <2>5. CASE CallOnContext(t)
    BY <2>5, ZenonT(60) DEF CallOnContext, MayCall, tables
  <2> QED
    BY <2>1, <2>2, <2>3, <2>4, <2>5 DEF Begin
<1>2. pc \in [Thread -> Label] /\ loc \in [Thread -> Local] /\ loc[t] = NoLocal
  BY <1>0, <1>1 DEF TypeOK, Place
<1>3. \A g, p, c, after : /\ OnConfig(g, p, after).file = NULL
                          /\ OnConfig(g, p, after).obj = NULL
                          /\ OnContext(c, g, after).file = NULL
                          /\ OnContext(c, g, after).obj = NULL
                          /\ NoLocal.file = NULL /\ NoLocal.obj = NULL
  BY DEF OnConfig, OnContext, NoLocal
<1>4. Others(t) /\ loc'[t].file = NULL /\ loc'[t].obj = NULL
  <2>1. \A u \in Thread : u # t => pc'[u] = pc[u]
    BY <1>1, <1>2 DEF Goto
  <2>2. /\ \A u \in Thread : u # t => loc'[u] = loc[u]
        /\ loc'[t].file = NULL /\ loc'[t].obj = NULL
    <3>1. CASE loc' = loc
      BY <1>2, <1>3, <3>1
    <3>2. CASE \E g, p, after : loc' = [loc EXCEPT ![t] = OnConfig(g, p, after)]
      BY <1>2, <1>3, <3>2
    <3>3. CASE \E c, g, after : loc' = [loc EXCEPT ![t] = OnContext(c, g, after)]
      BY <1>2, <1>3, <3>3
    <3> QED
      BY <1>1, <3>1, <3>2, <3>3
  <2> QED
    BY <2>1, <2>2 DEF Others
<1>5. pc'[t] \in {"add_config_lock", "delete_config_lock", "create_lock", "status_lock",
                  "destroy_lock", "lookup"}
  BY <1>1, <1>2 DEF Goto
<1>6. pc'[t] \notin Making \cup Using \cup Removing
  BY <1>5 DEF Making, Using, Removing
<1> QED
  BY <1>1, <1>4, <1>6, QuietLog

(* The trace functions of configs touch neither files nor trace_contexts.  *)
LEMMA ConfigLog ==
  ASSUME IInv, LogInv, NEW t \in Thread,
         va_TraceCreateConfig(t) \/ va_TraceDestroyConfig(t)
  PROVE  LogInv'
<1>0. TypeOK /\ Own(t) /\ FileLocal(t)
  BY DEF IInv, LogInv
<1>1. /\ pc[t] \in {"add_config", "delete_config"} /\ log_file' = log_file
      /\ heap' = heap /\ ptra_ctx' = ptra_ctx /\ loc' = loc /\ Goto(t, "status_lock")
  BY DEF va_TraceCreateConfig, va_TraceDestroyConfig, tables
<1>2. Others(t) /\ pc'[t] = "status_lock"
  BY <1>0, <1>1 DEF TypeOK, Goto, Others
<1>3. loc[t].file = NULL
  BY <1>0, <1>1 DEF FileLocal
<1>4. pc'[t] \notin Making \cup Using \cup Removing
  BY <1>2 DEF Making, Using, Removing
<1> QED
  BY <1>1, <1>2, <1>3, <1>4, QuietLog

(* va_TraceStatus forgets what the call worked on.                         *)
LEMMA StatusLog ==
  ASSUME IInv, LogInv, NEW t \in Thread, va_TraceStatus(t)
  PROVE  LogInv'
<1>0. TypeOK
  BY DEF IInv
<1>1. /\ log_file' = log_file /\ heap' = heap /\ ptra_ctx' = ptra_ctx
      /\ loc' = [loc EXCEPT ![t] = NoLocal] /\ Goto(t, "idle")
  BY DEF va_TraceStatus, tables
<1>2. Others(t) /\ pc'[t] = "idle" /\ loc'[t] = NoLocal
  BY <1>0, <1>1 DEF TypeOK, Goto, Others
<1>3. loc'[t].file = NULL /\ loc'[t].obj = NULL
  BY <1>2 DEF NoLocal
<1>4. pc'[t] \notin Making \cup Using \cup Removing
  BY <1>2 DEF Making, Using, Removing
<1> QED
  BY <1>1, <1>2, <1>3, <1>4, QuietLog

(* The lookup under the mutex finds a trace_context, never a null slot.    *)
LEMMA DestroyLockLog ==
  ASSUME IInv, LogInv, NEW t \in Thread, DestroyLock(t)
  PROVE  LogInv'
<1>0. TypeOK /\ FileLocal(t) /\ Own(t)
  BY DEF IInv, LogInv
<1> DEFINE k == get_valid_ctx_idx(loc[t].c)
<1>1. /\ pc[t] = "destroy_lock" /\ log_file' = log_file /\ heap' = heap
      /\ ptra_ctx' = ptra_ctx
      /\ \/ /\ loc' = [loc EXCEPT ![t] = [loc[t] EXCEPT !.idx = k, !.obj = ptra_ctx[k]]]
            /\ Goto(t, "destroy_refresh") /\ k \in CtxIdx
         \/ loc' = loc /\ Goto(t, "unlock")
  BY DEF DestroyLock, tables
<1>2. pc \in [Thread -> Label] /\ loc \in [Thread -> Local] /\ loc[t] \in Local
  BY <1>0 DEF TypeOK
<1>3. k \in CtxIdx => ptra_ctx[k] # NULL
  BY ValidCtxIdx
<1> HIDE DEF k
<1>4. loc[t].file = NULL
  BY <1>0, <1>1 DEF FileLocal
<1>5. CASE /\ loc' = [loc EXCEPT ![t] = [loc[t] EXCEPT !.idx = k, !.obj = ptra_ctx[k]]]
           /\ Goto(t, "destroy_refresh") /\ k \in CtxIdx
  <2>1. /\ Others(t) /\ pc'[t] = "destroy_refresh"
        /\ loc'[t] = [loc[t] EXCEPT !.idx = k, !.obj = ptra_ctx[k]]
    BY <1>2, <1>5 DEF Others, Goto
  <2>2. loc'[t].file = NULL /\ loc'[t].obj = ptra_ctx[k]
    BY <1>2, <1>4, <2>1 DEF Local
  <2>3. pc'[t] \notin Making
    BY <2>1 DEF Making
  <2>4. k \in Slot
    BY <1>5 DEF Slot
  <2> QED
    BY <1>1, <1>3, <1>5, <2>1, <2>2, <2>3, <2>4, QuietLog
<1>6. CASE loc' = loc /\ Goto(t, "unlock")
  <2>1. Others(t) /\ pc'[t] = "unlock"
    BY <1>2, <1>6 DEF Others, Goto
  <2>2. pc'[t] \notin Making \cup Using \cup Removing
    BY <2>1 DEF Making, Using, Removing
  <2> QED
    BY <1>1, <1>4, <1>6, <2>1, <2>2, QuietLog
<1> QED
  BY <1>1, <1>5, <1>6

(* The lookup of a call on a context only remembers an index.              *)
LEMMA LookupLog ==
  ASSUME IInv, LogInv, NEW t \in Thread, Lookup(t)
  PROVE  LogInv'
<1>0. TypeOK /\ FileLocal(t)
  BY DEF IInv, LogInv
<1> DEFINE k == get_valid_ctx_idx(loc[t].c)
<1>1. /\ pc[t] = "lookup" /\ log_file' = log_file /\ heap' = heap /\ ptra_ctx' = ptra_ctx
      /\ \/ loc' = [loc EXCEPT ![t] = [loc[t] EXCEPT !.idx = k]] /\ Goto(t, "read_slot")
         \/ loc' = loc /\ Goto(t, "status_lock")
  BY DEF Lookup, tables
<1> HIDE DEF k
<1>2. pc \in [Thread -> Label] /\ loc \in [Thread -> Local] /\ loc[t] \in Local
  BY <1>0 DEF TypeOK
<1>3. loc[t].file = NULL
  BY <1>0, <1>1 DEF FileLocal
<1>4. Others(t) /\ pc'[t] \in {"read_slot", "status_lock"}
  BY <1>1, <1>2 DEF Others, Goto
<1>5. loc'[t].file = NULL /\ loc'[t].obj = loc[t].obj
  BY <1>1, <1>2, <1>3 DEF Local
<1>6. pc'[t] \notin Making \cup Using \cup Removing
  BY <1>4 DEF Making, Using, Removing
<1> QED
  BY <1>1, <1>4, <1>5, <1>6, QuietLog

(* The trace_context read from a slot is not one that is being created.    *)
LEMMA ReadSlotLog ==
  ASSUME IInv, LogInv, NEW t \in Thread, ReadSlot(t)
  PROVE  LogInv'
<1>0. TypeOK /\ FileLocal(t)
  BY DEF IInv, LogInv
<1> DEFINE a == ptra_ctx[loc[t].idx]
<1>1. /\ pc[t] = "read_slot" /\ log_file' = log_file /\ heap' = heap /\ ptra_ctx' = ptra_ctx
      /\ \/ /\ loc' = [loc EXCEPT ![t] = [loc[t] EXCEPT !.idx = Virtual, !.obj = a]]
            /\ Goto(t, "call_refresh") /\ a # NULL
         \/ /\ loc' = [loc EXCEPT ![t] = [loc[t] EXCEPT !.idx = Virtual]]
            /\ Goto(t, "status_lock")
  BY DEF ReadSlot, tables
<1>2. pc \in [Thread -> Label] /\ loc \in [Thread -> Local] /\ loc[t] \in Local
  BY <1>0 DEF TypeOK
<1>3. loc[t].file = NULL /\ loc[t].idx \in Slot
  BY <1>0, <1>1, TypesAt DEF FileLocal, Slot
<1>4. \E i \in Slot : ptra_ctx[i] = a
  BY <1>3
<1> HIDE DEF a
<1>5. Others(t)
  BY <1>1, <1>2 DEF Others, Goto
<1>6. CASE /\ loc' = [loc EXCEPT ![t] = [loc[t] EXCEPT !.idx = Virtual, !.obj = a]]
           /\ Goto(t, "call_refresh") /\ a # NULL
  <2>1. pc'[t] = "call_refresh" /\ loc'[t].file = NULL /\ loc'[t].obj = a
    BY <1>2, <1>3, <1>6 DEF Goto, Local
  <2>2. pc'[t] \notin Making
    BY <2>1 DEF Making
  <2> QED
    BY <1>1, <1>4, <1>5, <1>6, <2>1, <2>2, QuietLog
<1>7. CASE /\ loc' = [loc EXCEPT ![t] = [loc[t] EXCEPT !.idx = Virtual]]
           /\ Goto(t, "status_lock")
  <2>1. pc'[t] = "status_lock" /\ loc'[t].file = NULL /\ loc'[t].obj = loc[t].obj
    BY <1>2, <1>3, <1>7 DEF Goto, Local
  <2>2. pc'[t] \notin Making \cup Using \cup Removing
    BY <2>1 DEF Making, Using, Removing
  <2> QED
    BY <1>1, <1>5, <2>1, <2>2, QuietLog
<1> QED
  BY <1>1, <1>6, <1>7

(* After it has printed, a call forgets its trace_context.                 *)
LEMMA TraceCallLog ==
  ASSUME IInv, LogInv, NEW t \in Thread, TraceCall(t)
  PROVE  LogInv'
<1>0. TypeOK /\ FileLocal(t)
  BY DEF IInv, LogInv
<1>1. /\ pc[t] = "call_print" /\ log_file' = log_file /\ heap' = heap
      /\ ptra_ctx' = ptra_ctx /\ Goto(t, "status_lock")
      /\ loc' = [loc EXCEPT ![t] = [loc[t] EXCEPT !.obj = NULL]]
  BY DEF TraceCall, tables
<1>2. pc \in [Thread -> Label] /\ loc \in [Thread -> Local] /\ loc[t] \in Local
  BY <1>0 DEF TypeOK
<1>3. loc[t].file = NULL
  BY <1>0, <1>1 DEF FileLocal
<1>4. Others(t) /\ pc'[t] = "status_lock"
  BY <1>1, <1>2 DEF Others, Goto
<1>5. loc'[t].file = NULL /\ loc'[t].obj = NULL
  BY <1>1, <1>2, <1>3 DEF Local
<1>6. pc'[t] \notin Making \cup Using \cup Removing
  BY <1>4 DEF Making, Using, Removing
<1> QED
  BY <1>1, <1>4, <1>5, <1>6, QuietLog

-----------------------------------------------------------------------------
(* The steps inside of the mutex.                                          *)
LEMMA InsideLog ==
  ASSUME IInv, LogInv, NEW t \in Thread, Others(t),
         pc[t] \in InMutex \/ context_mutex = NULL,
         \A s \in LogIdx : CountInv(s)', ListInv', FileLocal(t)',
         ptra_ctx'[Virtual] = ptra_ctx[Virtual]
  PROVE  LogInv'
<1>1. ASSUME NEW u \in Thread, u # t
      PROVE  FileLocal(u)'
  <2>1. pc[u] \notin Making
    BY <1>1, AloneInside
  <2> QED
    BY <1>1, <2>1, OthersFile
<1> QED
  BY <1>1 DEF LogInv

(* A trace_context taken out of its slot uses at most what it used.        *)
LEMMA EmptyLog ==
  ASSUME IInv, LogInv, NEW t \in Thread, Others(t), pc[t] \in InMutex,
         log_file' = log_file, heap' = heap, loc'[t].file = NULL, pc'[t] = "reap",
         \/ ptra_ctx' = ptra_ctx
         \/ \E i \in CtxIdx : ptra_ctx' = [ptra_ctx EXCEPT ![i] = NULL]
  PROVE  LogInv'
<1>1. TypeOK
  BY DEF IInv
<1>2. /\ \A i \in Slot : ptra_ctx'[i] \in {ptra_ctx[i], NULL}
      /\ ptra_ctx'[Virtual] = ptra_ctx[Virtual]
  <2>1. Virtual \notin CtxIdx
    BY TraceAssumption DEF Virtual, CtxIdx
  <2> QED
    BY <1>1, <2>1 DEF TypeOK, Slot
<1>3. ASSUME NEW s \in LogIdx
      PROVE  CountInv(s)'
  <2>1. NULL \notin Address
    BY TraceAssumption
  <2>2. Uses(s)' \subseteq Uses(s)
    BY <1>2, <2>1 DEF Uses
  <2>3. Pending(s)' \subseteq Pending(s)
    BY PendingStep
  <2> QED
    BY <1>1, <2>2, <2>3, KeptCount DEF LogInv
<1>4. ListInv' /\ FileLocal(t)'
  BY DEF LogInv, ListInv, FileLocal, Using, Removing
<1> QED
  BY <1>2, <1>3, <1>4, InsideLog

(* FAIL in va_TraceCreateContext empties a slot, if it found one.          *)
LEMMA CreateFailLog ==
  ASSUME IInv, LogInv, NEW t \in Thread, CreateFail(t)
  PROVE  LogInv'
<1>0. TypeOK /\ FileLocal(t)
  BY DEF IInv, LogInv
<1> DEFINE i == loc[t].idx
<1>1. /\ pc[t] = "create_fail" /\ log_file' = log_file /\ heap' = heap /\ Goto(t, "reap")
      /\ \/ /\ i \in CtxIdx /\ ptra_ctx' = [ptra_ctx EXCEPT ![i] = NULL]
            /\ loc' = [loc EXCEPT ![t] = [loc[t] EXCEPT !.old = ptra_ctx[i],
                                                        !.idx = Virtual]]
         \/ ptra_ctx' = ptra_ctx /\ loc' = loc
  BY DEF CreateFail, Emptied
<1>2. pc \in [Thread -> Label] /\ loc \in [Thread -> Local] /\ loc[t] \in Local
  BY <1>0 DEF TypeOK
<1>3. loc[t].file = NULL /\ pc[t] \in InMutex
  BY <1>0, <1>1 DEF FileLocal, InMutex, Creating
<1>4. Others(t) /\ pc'[t] = "reap"
  BY <1>1, <1>2 DEF Others, Goto
<1> HIDE DEF i
<1>5. loc'[t].file = NULL
  <2>1. CASE loc' = [loc EXCEPT ![t] = [loc[t] EXCEPT !.old = ptra_ctx[i], !.idx = Virtual]]
    BY <1>2, <1>3, <2>1 DEF Local
  <2>2. CASE loc' = loc
    BY <1>3, <2>2
  <2> QED
    BY <1>1, <2>1, <2>2
<1>6. \/ ptra_ctx' = ptra_ctx
      \/ \E j \in CtxIdx : ptra_ctx' = [ptra_ctx EXCEPT ![j] = NULL]
  BY <1>1
<1> QED
  BY <1>1, <1>3, <1>4, <1>5, <1>6, EmptyLog

(* The creator of a trace_context takes it out of its slot.                *)
LEMMA DestroyUpdateLog ==
  ASSUME IInv, LogInv, NEW t \in Thread, DestroyUpdate(t)
  PROVE  LogInv'
<1>0. TypeOK /\ FileLocal(t) /\ Idx(t)
  BY DEF IInv, LogInv
<1> DEFINE i == loc[t].idx
<1>1. /\ pc[t] = "destroy_update" /\ log_file' = log_file /\ heap' = heap
      /\ Goto(t, "reap")
      /\ \/ /\ ptra_ctx' = [ptra_ctx EXCEPT ![i] = NULL]
            /\ loc' = [loc EXCEPT ![t] = [loc[t] EXCEPT !.old = ptra_ctx[i],
                                            !.obj = NULL, !.idx = Virtual]]
         \/ /\ ptra_ctx' = ptra_ctx
            /\ loc' = [loc EXCEPT ![t] = [loc[t] EXCEPT !.obj = NULL, !.idx = Virtual]]
  BY DEF DestroyUpdate, Emptied, MayTakeOut, tables
<1>2. pc \in [Thread -> Label] /\ loc \in [Thread -> Local] /\ loc[t] \in Local
  BY <1>0 DEF TypeOK
<1>3. loc[t].file = NULL /\ pc[t] \in InMutex /\ i \in CtxIdx
  BY <1>0, <1>1 DEF FileLocal, InMutex, Removing, Idx
<1>4. Others(t) /\ pc'[t] = "reap"
  BY <1>1, <1>2 DEF Others, Goto
<1> HIDE DEF i
<1>5. loc'[t].file = NULL
  <2>1. CASE loc' = [loc EXCEPT ![t] = [loc[t] EXCEPT !.old = ptra_ctx[i],
                                          !.obj = NULL, !.idx = Virtual]]
    BY <1>2, <1>3, <2>1 DEF Local
  <2>2. CASE loc' = [loc EXCEPT ![t] = [loc[t] EXCEPT !.obj = NULL, !.idx = Virtual]]
    BY <1>2, <1>3, <2>2 DEF Local
  <2> QED
    BY <1>1, <2>1, <2>2
<1> QED
  BY <1>1, <1>3, <1>4, <1>5, EmptyLog

(* A freed trace_context uses no file.                                     *)
LEMMA ZeroedUses ==
  ASSUME NEW a \in Address, NEW s \in LogIdx, heap'[a] \in {Zeroed, Freed}
  PROVE  /\ a \notin Uses(s)'
         /\ heap'[a].plog_file = NULL
         /\ \A k \in LogIdx : heap'[a].plog_file_list[k] = NULL
<1>1. s # NULL /\ 0 \in LogIdx
  BY LogAssumption DEF LogIdx
<1>2. /\ heap'[a].plog_file = NULL
      /\ \A k \in LogIdx : heap'[a].plog_file_list[k] = NULL
  BY DEF Zeroed, Freed, NoList
<1> QED
  BY <1>1, <1>2 DEF Uses

(* A trace_context that is freed, or allocated anew, uses no file.         *)
LEMMA FreedLog ==
  ASSUME IInv, LogInv, NEW t \in Thread, Others(t),
         pc[t] \in InMutex \/ context_mutex = NULL,
         log_file' = log_file, ptra_ctx' = ptra_ctx, loc'[t].file = NULL,
         \/ heap' = heap
         \/ \E a \in Address, new \in {Zeroed, Freed} : heap' = [heap EXCEPT ![a] = new],
         FileLocal(t)'
  PROVE  LogInv'
<1>1. TypeOK /\ heap \in [Address -> TraceContext] /\ ListInv
  BY DEF IInv, TypeOK, LogInv
<1>2. CASE heap' = heap
  <2>1. ASSUME NEW s \in LogIdx
        PROVE  CountInv(s)'
    <3>1. Uses(s)' = Uses(s)
      BY <1>2 DEF Uses
    <3>2. Pending(s)' \subseteq Pending(s)
      BY PendingStep
    <3> QED
      BY <1>1, <3>1, <3>2, KeptCount DEF LogInv
  <2>2. ListInv'
    BY <1>1, <1>2 DEF ListInv
  <2> QED
    BY <2>1, <2>2, InsideLog
<1>3. CASE \E a \in Address, new \in {Zeroed, Freed} : heap' = [heap EXCEPT ![a] = new]
  <2>1. PICK a \in Address : /\ heap'[a] \in {Zeroed, Freed}
                             /\ \A b \in Address : b # a => heap'[b] = heap[b]
    BY <1>1, <1>3
  <2>2. ASSUME NEW s \in LogIdx
        PROVE  CountInv(s)'
    <3>1. Uses(s)' \subseteq Uses(s)
      <4>1. Uses(s)' \subseteq Uses(s) \cup {a}
        BY <2>1, UsesStep
      <4> QED
        BY <2>1, <4>1, ZeroedUses
    <3>2. Pending(s)' \subseteq Pending(s)
      BY PendingStep
    <3> QED
      BY <1>1, <3>1, <3>2, KeptCount DEF LogInv
  <2>3. ListInv'
    BY <1>1, <2>1, ZeroedUses DEF ListInv
  <2> QED
    BY <2>2, <2>3, InsideLog
<1> QED
  BY <1>2, <1>3

(* UNLOCK_CONTEXT, where a new trace_context may be freed after FAIL.      *)
LEMMA UnlockLog ==
  ASSUME IInv, LogInv, NEW t \in Thread, Unlock(t)
  PROVE  LogInv'
<1>0. TypeOK /\ FileLocal(t) /\ loc[t].obj \in Address \cup {NULL}
  BY TypesAt DEF IInv, LogInv
<1>1. /\ pc[t] = "unlock" /\ log_file' = log_file /\ ptra_ctx' = ptra_ctx
      /\ Goto(t, "status_lock")
      /\ loc' = [loc EXCEPT ![t] = [loc[t] EXCEPT !.obj = NULL]]
      /\ \/ heap' = heap
         \/ loc[t].obj # NULL /\ heap' = [heap EXCEPT ![loc[t].obj] = Freed]
  BY DEF Unlock, tables
<1>2. pc \in [Thread -> Label] /\ loc \in [Thread -> Local] /\ loc[t] \in Local
  BY <1>0 DEF TypeOK
<1>3. loc[t].file = NULL /\ pc[t] \in InMutex
  BY <1>0, <1>1 DEF FileLocal, InMutex, Ending
<1>4. Others(t) /\ pc'[t] = "status_lock" /\ loc'[t].file = NULL
  BY <1>1, <1>2, <1>3 DEF Others, Goto, Local
<1>5. FileLocal(t)'
  BY <1>4 DEF FileLocal, Using, Removing
<1> QED
  BY <1>0, <1>1, <1>3, <1>4, <1>5, FreedLog

(* A new trace_context is one that no other thread works on.               *)
LEMMA CreateLockLog ==
  ASSUME IInv, LogInv, NEW t \in Thread, CreateLock(t)
  PROVE  LogInv'
<1>0. TypeOK /\ FileLocal(t)
  BY DEF IInv, LogInv
<1> DEFINE k == get_free_ctx_idx(loc[t].c)
<1>1. /\ pc[t] = "create_lock" /\ context_mutex = NULL
      /\ log_file' = log_file /\ ptra_ctx' = ptra_ctx
      /\ \/ /\ loc' = [loc EXCEPT ![t] = [loc[t] EXCEPT !.idx = k]]
            /\ Goto(t, "create_fail") /\ heap' = heap
         \/ \E a \in Address :
              /\ heap' = [heap EXCEPT ![a] = Zeroed]
              /\ \A u \in Thread : loc[u].obj # a
              /\ loc' = [loc EXCEPT ![t] = [loc[t] EXCEPT !.idx = k, !.obj = a]]
              /\ \E l \in Creating : Goto(t, l)
  BY DEF CreateLock, Creating, tables
<1>2. pc \in [Thread -> Label] /\ loc \in [Thread -> Local] /\ loc[t] \in Local
  BY <1>0 DEF TypeOK
<1>3. loc[t].file = NULL
  BY <1>0, <1>1 DEF FileLocal
<1> HIDE DEF k
<1>4. CASE /\ loc' = [loc EXCEPT ![t] = [loc[t] EXCEPT !.idx = k]]
           /\ Goto(t, "create_fail") /\ heap' = heap
  <2>1. Others(t) /\ pc'[t] = "create_fail" /\ loc'[t].file = NULL
    BY <1>2, <1>3, <1>4 DEF Others, Goto, Local
  <2>2. FileLocal(t)'
    BY <2>1 DEF FileLocal, Using, Removing
  <2> QED
    BY <1>1, <1>4, <2>1, <2>2, FreedLog
<1>5. CASE \E a \in Address :
              /\ heap' = [heap EXCEPT ![a] = Zeroed]
              /\ \A u \in Thread : loc[u].obj # a
              /\ loc' = [loc EXCEPT ![t] = [loc[t] EXCEPT !.idx = k, !.obj = a]]
              /\ \E l \in Creating : Goto(t, l)
  <2>1. PICK a \in Address, l \in Creating :
              /\ heap' = [heap EXCEPT ![a] = Zeroed]
              /\ \A u \in Thread : loc[u].obj # a
              /\ loc' = [loc EXCEPT ![t] = [loc[t] EXCEPT !.idx = k, !.obj = a]]
              /\ Goto(t, l)
    BY <1>5
  <2>2. /\ Others(t) /\ pc'[t] \in Creating
        /\ loc'[t] = [loc[t] EXCEPT !.idx = k, !.obj = a]
    BY <1>2, <2>1 DEF Others, Goto
  <2>3. loc'[t].file = NULL /\ loc'[t].obj = a
    BY <1>2, <1>3, <2>2 DEF Local
  <2>4. heap'[a] = Zeroed
    BY <1>0, <2>1 DEF TypeOK
  <2>5. heap'[a].plog_file = heap'[a].plog_file_list[0]
    <3>1. 0 \in LogIdx
      BY LogAssumption DEF LogIdx
    <3> QED
      BY <2>4, <3>1, ZeroedUses
  <2>6. FileLocal(t)'
    BY <2>1, <2>2, <2>3, <2>5 DEF FileLocal, Using, Removing, Creating, Others
  <2> QED
    BY <1>1, <2>1, <2>2, <2>3, <2>6, FreedLog
<1> QED
  BY <1>1, <1>4, <1>5

(* The new trace_context writes to the file it lists, so it uses no other  *)
(* file in its slot than before.                                           *)
LEMMA CreateUpdateLog ==
  ASSUME IInv, LogInv, NEW t \in Thread, CreateUpdate(t)
  PROVE  LogInv'
<1>0. TypeOK /\ FileLocal(t) /\ Own(t) /\ ListInv /\ heap \in [Address -> TraceContext]
  BY DEF IInv, LogInv, TypeOK
<1>1. pc[t] = "create_update" /\ loc[t].obj \in Address /\ loc[t].idx \in CtxIdx
  BY <1>0, TypesAt DEF CreateUpdate, Own
<1> DEFINE i == loc[t].idx
           a == loc[t].obj
<1>2. /\ ptra_ctx' = [ptra_ctx EXCEPT ![i] = a]
      /\ heap' = [heap EXCEPT ![a] = [heap[a] EXCEPT !.trace_context = loc[t].c,
                                                     !.created_thd_id = t]]
      /\ loc' = [loc EXCEPT ![t] = [loc[t] EXCEPT !.old = ptra_ctx[i], !.obj = NULL,
                                                  !.idx = Virtual]]
      /\ log_file' = log_file /\ Goto(t, "reap")
  BY DEF CreateUpdate
<1>3. pc \in [Thread -> Label] /\ loc \in [Thread -> Local] /\ loc[t] \in Local
  BY <1>0 DEF TypeOK
<1>4. loc[t].file = NULL /\ pc[t] \in InMutex
  BY <1>0, <1>1 DEF FileLocal, InMutex, Creating
<1>5. Others(t) /\ pc'[t] = "reap" /\ loc'[t].file = NULL
  BY <1>2, <1>3, <1>4 DEF Others, Goto, Local
<1>6. heap[a].plog_file = heap[a].plog_file_list[0]
  BY <1>0, <1>1 DEF FileLocal
<1>7. \A b \in Address : /\ heap'[b].plog_file = heap[b].plog_file
                         /\ heap'[b].plog_file_list = heap[b].plog_file_list
  BY <1>0, <1>1, <1>2 DEF TraceContext
<1>8. /\ \A j \in Slot : ptra_ctx'[j] = ptra_ctx[j] \/ ptra_ctx'[j] = a
      /\ ptra_ctx'[Virtual] = ptra_ctx[Virtual]
  <2>1. Virtual \notin CtxIdx
    BY TraceAssumption DEF Virtual, CtxIdx
  <2> QED
    BY <1>0, <1>1, <1>2, <2>1 DEF TypeOK, Slot
<1> HIDE DEF i, a
<1>9. ASSUME NEW s \in LogIdx
      PROVE  CountInv(s)'
  <2>1. Uses(s)' \subseteq Uses(s)
    BY <1>6, <1>7, <1>8 DEF Uses
  <2>2. Pending(s)' \subseteq Pending(s)
    BY <1>5, PendingStep
  <2> QED
    BY <1>0, <1>2, <2>1, <2>2, KeptCount DEF LogInv
<1>10. ListInv' /\ FileLocal(t)'
  BY <1>0, <1>5, <1>7 DEF ListInv, FileLocal, Using, Removing
<1> QED
  BY <1>4, <1>5, <1>8, <1>9, <1>10, InsideLog

(* The only file a trace_context lists is entry 0, and the one taken out   *)
(* no longer counts through its plog_file.                                 *)
LEMMA ReapLog ==
  ASSUME IInv, LogInv, NEW t \in Thread, Reap(t)
  PROVE  LogInv'
<1>0. TypeOK /\ FileLocal(t) /\ Own(t) /\ ListInv /\ heap \in [Address -> TraceContext]
  BY DEF IInv, LogInv, TypeOK
<1> DEFINE a == loc[t].old
           k == Min(Listed(a))
<1>1. /\ pc[t] = "reap" /\ ptra_ctx' = ptra_ctx
      /\ pc \in [Thread -> Label] /\ loc \in [Thread -> Local] /\ loc[t] \in Local
  BY <1>0 DEF Reap, TypeOK, tables
<1>2. loc[t].file = NULL /\ pc[t] \in InMutex /\ a \in Address \cup {NULL}
  BY <1>0, <1>1, TypesAt DEF FileLocal, InMutex, Ending
<1>3. CASE a # NULL /\ Listed(a) # {}
  <2>1. /\ log_file' = stop_tracing2log_file(log_file, heap[a].plog_file_list[k])
        /\ heap' = [heap EXCEPT ![a].plog_file_list = [@ EXCEPT ![k] = NULL]]
        /\ loc' = loc /\ pc' = pc
    BY <1>3 DEF Reap
  <2>2. a \in Address /\ Live(a)
    BY <1>0, <1>2, <1>3 DEF Own
  <2>3. k = 0 /\ 0 \in LogIdx /\ heap[a].plog_file_list[0] # NULL
    <3>1. Listed(a) \in SUBSET Nat
      BY DEF Listed, LogIdx
    <3>2. k \in Listed(a)
      BY <1>3, <3>1, MinIsLeast
    <3> HIDE DEF k
    <3> QED
      BY <1>0, <2>2, <3>2 DEF Listed, ListInv
  <2> HIDE DEF a, k
  <2>4. heap[a] \in TraceContext /\ heap[a].plog_file_list \in [LogIdx -> LogIdx \cup {NULL}]
    BY <1>0, <2>2 DEF TraceContext
  <2>5. heap[a].plog_file_list[0] \in LogIdx
    BY <2>3, <2>4
  <2>6. /\ heap'[a] = [heap[a] EXCEPT !.plog_file_list =
                         [heap[a].plog_file_list EXCEPT ![0] = NULL]]
        /\ \A b \in Address : b # a => heap'[b] = heap[b]
    BY <1>0, <2>1, <2>2, <2>3, <2>4 DEF TraceContext
  <2>7. /\ heap'[a].plog_file_list[0] = NULL
        /\ \A j \in LogIdx : j # 0 => heap'[a].plog_file_list[j] = heap[a].plog_file_list[j]
    BY <2>3, <2>4, <2>6 DEF TraceContext
  <2>8. Others(t) /\ loc'[t].file = NULL
    BY <1>2, <2>1 DEF Others
  <2>9. ASSUME NEW s \in LogIdx
        PROVE  CountInv(s)'
    <3>1. s # NULL
      BY LogAssumption DEF LogIdx
    <3>2. a \notin Uses(s)'
      BY <1>1, <2>2, <2>7, <3>1 DEF Uses, Live
    <3>3. Uses(s)' \subseteq Uses(s)
      <4>1. Uses(s)' \subseteq Uses(s) \cup {a}
        BY <1>1, <2>6, UsesStep
      <4> QED
        BY <3>2, <4>1
    <3>4. Pending(s)' \subseteq Pending(s)
      BY <2>8, PendingStep
    <3>5. s = heap[a].plog_file_list[0] => a \in Uses(s)
      BY <2>2 DEF Uses
    <3> QED
      BY <1>0, <2>1, <2>3, <2>5, <3>2, <3>3, <3>4, <3>5, StoppedCount DEF LogInv
  <2>10. ListInv'
    <3>1. ASSUME NEW b \in Address, NEW j \in LogIdx, j # 0
          PROVE  heap'[b].plog_file_list[j] = NULL
      <4>1. heap[b].plog_file_list[j] = NULL
        BY <1>0, <3>1 DEF ListInv
      <4>2. CASE b = a
        BY <2>7, <3>1, <4>1, <4>2
      <4>3. CASE b # a
        BY <2>6, <4>1, <4>3
      <4> QED
        BY <4>2, <4>3
    <3> QED
      BY <3>1 DEF ListInv
  <2>11. FileLocal(t)'
    BY <1>1, <2>1, <2>8 DEF FileLocal, Using, Removing
  <2> QED
    BY <1>1, <1>2, <2>8, <2>9, <2>10, <2>11, InsideLog
<1>4. CASE ~ (a # NULL /\ Listed(a) # {})
  <2>1. /\ heap' = IF a = NULL THEN heap ELSE [heap EXCEPT ![a] = Freed]
        /\ loc' = [loc EXCEPT ![t] = [loc[t] EXCEPT !.old = NULL]]
        /\ Goto(t, "unlock") /\ log_file' = log_file
    BY <1>4 DEF Reap
  <2>2. Others(t) /\ pc'[t] = "unlock" /\ loc'[t].file = NULL
    BY <1>1, <1>2, <2>1 DEF Others, Goto, Local
  <2>3. FileLocal(t)'
    BY <2>2 DEF FileLocal, Using, Removing
  <2>4. heap' = heap \/ (a \in Address /\ heap' = [heap EXCEPT ![a] = Freed])
    BY <1>2, <2>1
  <2> QED
    BY <1>1, <1>2, <2>1, <2>2, <2>3, <2>4, FreedLog
<1> QED
  BY <1>3, <1>4

-----------------------------------------------------------------------------
(* The steps that count a use: for the trace_context being created, for    *)
(* the virtual one, and for the thread that refreshes one.                 *)
LEMMA CreateLogLog ==
  ASSUME IInv, LogInv, NEW t \in Thread, CreateLog(t)
  PROVE  LogInv'
<1>0. /\ TypeOK /\ FileLocal(t) /\ Own(t) /\ ListInv /\ heap \in [Address -> TraceContext]
      /\ log_file \in [LogIdx -> LogFile]
  BY DEF IInv, LogInv, TypeOK
<1>1. pc[t] = "create_log" /\ loc[t].obj \in Address
  BY <1>0, TypesAt DEF CreateLog, Own
<1> DEFINE a == loc[t].obj
<1>2. PICK ok \in BOOLEAN :
        LET f == start_tracing2log_file(log_file, t, ok).plog_file
        IN  /\ log_file' = start_tracing2log_file(log_file, t, ok).table
            /\ heap' = [heap EXCEPT ![a] =
                 [heap[a] EXCEPT !.plog_file = f,
                    !.plog_file_list = [heap[a].plog_file_list EXCEPT ![0] = f]]]
            /\ Goto(t, IF f = NULL THEN "create_fail" ELSE "create_update")
            /\ ptra_ctx' = ptra_ctx /\ loc' = loc
  BY DEF CreateLog, Fopen, tables
<1> DEFINE f == start_tracing2log_file(log_file, t, ok).plog_file
<1>3. f \in LogIdx \cup {NULL}
  BY <1>0, StartType
<1> HIDE DEF f
<1>4. 0 \in LogIdx
  BY LogAssumption DEF LogIdx
<1>5. /\ heap'[a].plog_file = f /\ heap'[a].plog_file_list[0] = f
      /\ \A k \in LogIdx : k # 0 => heap'[a].plog_file_list[k] = NULL
      /\ \A b \in Address : b # a => heap'[b] = heap[b]
  <2>1. /\ heap'[a] = [heap[a] EXCEPT !.plog_file = f,
                         !.plog_file_list = [heap[a].plog_file_list EXCEPT ![0] = f]]
        /\ \A b \in Address : b # a => heap'[b] = heap[b]
    BY <1>0, <1>1, <1>2 DEF f
  <2>2. heap[a] \in TraceContext /\ heap[a].plog_file_list \in [LogIdx -> LogIdx \cup {NULL}]
    BY <1>0, <1>1 DEF TraceContext
  <2>3. \A k \in LogIdx : k # 0 => heap[a].plog_file_list[k] = NULL
    BY <1>0, <1>1 DEF ListInv
  <2>4. /\ heap'[a].plog_file = f
        /\ heap'[a].plog_file_list = [heap[a].plog_file_list EXCEPT ![0] = f]
    BY <2>1, <2>2 DEF TraceContext
  <2> QED
    BY <1>4, <2>1, <2>2, <2>3, <2>4
<1>6. /\ Others(t) /\ pc'[t] \in {"create_fail", "create_update"}
      /\ loc'[t].file = NULL /\ loc' = loc /\ pc[t] \in InMutex
  <2>1. pc \in [Thread -> Label]
    BY <1>0 DEF TypeOK
  <2> QED
    BY <1>0, <1>1, <1>2, <2>1 DEF FileLocal, Others, Goto, InMutex, Creating
<1> HIDE DEF a
<1>7. ASSUME NEW s \in LogIdx
      PROVE  CountInv(s)'
  <2>1. s # NULL
    BY LogAssumption DEF LogIdx
  <2>2. Uses(s)' \subseteq Uses(s) \cup {a}
    BY <1>2, <1>5, UsesStep
  <2>3. s # f => Uses(s)' \subseteq Uses(s)
    <3>1. s # f => a \notin Uses(s)'
      BY <1>5 DEF Uses
    <3> QED
      BY <2>2, <3>1
  <2>4. Pending(s)' \subseteq Pending(s)
    BY <1>6, PendingStep
  <2>5. \A r \in LogIdx : CountInv(r)
    BY DEF LogInv
  <2> QED
    BY <1>0, <1>2, <2>2, <2>3, <2>4, <2>5, JoinedCount DEF f
<1>8. ListInv'
  <2>1. ASSUME NEW b \in Address, NEW k \in LogIdx, k # 0
        PROVE  heap'[b].plog_file_list[k] = NULL
    <3>1. heap[b].plog_file_list[k] = NULL
      BY <1>0, <2>1 DEF ListInv
    <3>2. CASE b = a
      BY <1>5, <2>1, <3>2
    <3>3. CASE b # a
      BY <1>5, <3>1, <3>3
    <3> QED
      BY <3>2, <3>3
  <2> QED
    BY <2>1 DEF ListInv
<1>9. FileLocal(t)'
  BY <1>0, <1>1, <1>5, <1>6 DEF FileLocal, Using, Removing, a
<1> QED
  BY <1>2, <1>6, <1>7, <1>8, <1>9, InsideLog

(* A file stored in the trace_context a: its lists stay, and it uses no    *)
(* file but the new one that it did not use before.                        *)
LEMMA SwitchUses ==
  ASSUME TypeOK, ListInv, NEW t \in Thread, NEW a \in Address,
         NEW f \in LogIdx \cup {NULL}, ptra_ctx' = ptra_ctx,
         heap' = [heap EXCEPT ![a] = SwitchLogFile(heap[a], t, f)]
  PROVE  /\ \A s \in LogIdx : /\ Uses(s)' \subseteq Uses(s) \cup {a}
                              /\ s # f => Uses(s)' \subseteq Uses(s)
         /\ ListInv'
         /\ \A b \in Address : b # a => heap'[b] = heap[b]
<1>1. heap \in [Address -> TraceContext] /\ heap[a] \in TraceContext
  BY DEF TypeOK
<1>2. /\ heap'[a].plog_file_list = heap[a].plog_file_list
      /\ heap'[a].plog_file = IF f = NULL THEN heap[a].plog_file ELSE f
      /\ \A b \in Address : b # a => heap'[b] = heap[b]
  BY <1>1, SwitchLog
<1>3. ASSUME NEW s \in LogIdx
      PROVE  /\ Uses(s)' \subseteq Uses(s) \cup {a}
             /\ s # f => Uses(s)' \subseteq Uses(s)
  <2>1. Uses(s)' \subseteq Uses(s) \cup {a}
    BY <1>2, UsesStep
  <2>2. s # f /\ a \in Uses(s)' => a \in Uses(s)
    BY <1>2 DEF Uses
  <2> QED
    BY <2>1, <2>2
<1>4. ListInv'
  BY <1>2 DEF ListInv
<1> QED
  BY <1>2, <1>3, <1>4

(* The virtual context switches to the file of the thread that enters it.  *)
LEMMA EnterVirtualLog ==
  ASSUME IInv, LogInv, NEW t \in Thread, NEW from \in Label, NEW to \in Label,
         EnterVirtual(t, from, to), from \notin {"destroy_store", "call_store"},
         to \notin Making \cup Using \cup Removing
  PROVE  LogInv'
<1>0. TypeOK /\ FileLocal(t) /\ ListInv /\ log_file \in [LogIdx -> LogFile]
  BY DEF IInv, LogInv, TypeOK
<1> DEFINE v == ptra_ctx[Virtual]
<1>1. PICK ok \in BOOLEAN :
        \/ /\ log_file' = start_tracing2log_file(log_file, t, ok).table
           /\ heap' = [heap EXCEPT ![v] = SwitchLogFile(heap[v], t,
                         start_tracing2log_file(log_file, t, ok).plog_file)]
        \/ log_file' = log_file /\ heap' = heap
  BY DEF EnterVirtual, Fopen
<1>2. /\ pc[t] = from /\ pc'[t] = to /\ loc' = loc /\ Others(t) /\ ptra_ctx' = ptra_ctx
      /\ context_mutex = NULL
  BY <1>0 DEF EnterVirtual, Goto, Others, tables, TypeOK
<1>3. loc[t].file = NULL /\ v \in Address
  BY <1>0, <1>2, TraceAssumption DEF FileLocal, LogInv
<1>4. FileLocal(t)'
  BY <1>2, <1>3 DEF FileLocal, Making
<1>5. CASE log_file' = log_file /\ heap' = heap
  BY <1>2, <1>3, <1>5, QuietLog
<1>6. CASE /\ log_file' = start_tracing2log_file(log_file, t, ok).table
           /\ heap' = [heap EXCEPT ![v] = SwitchLogFile(heap[v], t,
                         start_tracing2log_file(log_file, t, ok).plog_file)]
  <2> DEFINE f == start_tracing2log_file(log_file, t, ok).plog_file
  <2>1. f \in LogIdx \cup {NULL}
    BY <1>0, StartType
  <2> HIDE DEF f, v
  <2>2. heap' = [heap EXCEPT ![v] = SwitchLogFile(heap[v], t, f)]
    BY <1>6 DEF f
  <2>3. /\ \A s \in LogIdx : /\ Uses(s)' \subseteq Uses(s) \cup {v}
                             /\ s # f => Uses(s)' \subseteq Uses(s)
        /\ ListInv'
    <3>1. PICK w \in Address, g \in LogIdx \cup {NULL} : w = v /\ g = f
      BY <1>3, <2>1
    <3>2. heap' = [heap EXCEPT ![w] = SwitchLogFile(heap[w], t, g)]
      BY <2>2, <3>1
    <3>3. /\ \A s \in LogIdx : /\ Uses(s)' \subseteq Uses(s) \cup {w}
                               /\ s # g => Uses(s)' \subseteq Uses(s)
          /\ ListInv'
      <4>1. TypeOK /\ ListInv /\ ptra_ctx' = ptra_ctx
        BY <1>0, <1>2
      <4> QED
        BY <3>2, <4>1, SwitchUses, ZenonT(60)
    <3> QED
      BY <3>1, <3>3
  <2>4. ASSUME NEW s \in LogIdx
        PROVE  CountInv(s)'
    <3>1. Pending(s)' \subseteq Pending(s)
      BY <1>2, PendingStep
    <3>2. \A r \in LogIdx : CountInv(r)
      BY DEF LogInv
    <3> QED
      BY <1>0, <1>6, <2>3, <3>1, <3>2, JoinedCount DEF f
  <2> QED
    BY <1>2, <1>4, <2>3, <2>4, InsideLog
<1> QED
  BY <1>1, <1>5, <1>6

(* A thread that refreshes a trace_context holds a use of the new file.    *)
LEMMA RefreshStartLog ==
  ASSUME IInv, LogInv, NEW t \in Thread, NEW from \in {"destroy_refresh", "call_refresh"},
         NEW store \in {"destroy_store", "call_store"}, RefreshStart(t, from, store)
  PROVE  LogInv'
<1>0. TypeOK /\ FileLocal(t) /\ ListInv /\ log_file \in [LogIdx -> LogFile]
  BY DEF IInv, LogInv, TypeOK
<1>1. PICK ok \in BOOLEAN :
        \/ /\ log_file' = start_tracing2log_file(log_file, t, ok).table
           /\ loc' = [loc EXCEPT ![t] = [loc[t] EXCEPT !.file =
                         start_tracing2log_file(log_file, t, ok).plog_file]]
        \/ log_file' = log_file /\ loc' = loc
  BY DEF RefreshStart, Fopen
<1>2. /\ pc[t] = from /\ Goto(t, store) /\ ptra_ctx' = ptra_ctx /\ heap' = heap
  BY DEF RefreshStart, tables
<1>3. pc \in [Thread -> Label] /\ loc \in [Thread -> Local] /\ loc[t] \in Local
  BY <1>0 DEF TypeOK
<1>4. loc[t].file = NULL /\ loc[t].obj # NULL
  BY <1>0, <1>2 DEF FileLocal, Using, Removing
<1>5. Others(t) /\ pc'[t] = store
  BY <1>1, <1>2, <1>3 DEF Others, Goto
<1>6. pc'[t] \notin Making
  BY <1>5 DEF Making
<1>7. CASE log_file' = log_file /\ loc' = loc
  BY <1>2, <1>4, <1>5, <1>6, <1>7, QuietLog
<1>8. CASE /\ log_file' = start_tracing2log_file(log_file, t, ok).table
           /\ loc' = [loc EXCEPT ![t] = [loc[t] EXCEPT !.file =
                         start_tracing2log_file(log_file, t, ok).plog_file]]
  <2> DEFINE f == start_tracing2log_file(log_file, t, ok).plog_file
  <2> HIDE DEF f
  <2>1. loc'[t] = [loc[t] EXCEPT !.file = f]
    BY <1>3, <1>8 DEF f
  <2>2. loc'[t].file = f /\ loc'[t].obj = loc[t].obj
    BY <1>3, <2>1 DEF Local
  <2>3. ASSUME NEW s \in LogIdx
        PROVE  CountInv(s)'
    <3>1. Uses(s)' = Uses(s)
      BY <1>2 DEF Uses
    <3>2. /\ Pending(s)' \subseteq Pending(s) \cup {t}
          /\ s # f => Pending(s)' \subseteq Pending(s)
      BY <1>5, <2>2, PendingStep
    <3>3. \A r \in LogIdx : CountInv(r)
      BY DEF LogInv
    <3> QED
      BY <1>0, <1>8, <3>1, <3>2, <3>3, JoinedCount DEF f
  <2>4. ListInv' /\ ptra_ctx'[Virtual] = VirtualCtx
    BY <1>0, <1>2 DEF ListInv, LogInv
  <2>5. FileLocal(t)'
    BY <1>4, <1>5, <2>2 DEF FileLocal
  <2>6. ASSUME NEW u \in Thread, u # t
        PROVE  FileLocal(u)'
    <3>1. pc[u] \in Making => loc[t].obj # loc[u].obj
      BY <2>6 DEF LogInv, FileLocal, Making
    <3> QED
      BY <1>2, <1>5, <2>2, <2>6, <3>1, OthersFile
  <2> QED
    BY <2>3, <2>4, <2>5, <2>6 DEF LogInv
<1> QED
  BY <1>1, <1>7, <1>8

(* The use that the thread held passes to the trace_context.               *)
LEMMA RefreshStoreLog ==
  ASSUME IInv, LogInv, NEW t \in Thread, NEW store \in {"destroy_store", "call_store"},
         NEW to \in {"destroy_update", "call_print"}, RefreshStore(t, store, to)
  PROVE  LogInv'
<1>0. /\ TypeOK /\ FileLocal(t) /\ ListInv
      /\ loc[t].obj \in Address \cup {NULL} /\ loc[t].file \in LogIdx \cup {NULL}
  BY TypesAt DEF IInv, LogInv
<1>1. /\ pc[t] = store /\ Goto(t, to) /\ ptra_ctx' = ptra_ctx /\ log_file' = log_file
      /\ heap' = [heap EXCEPT ![loc[t].obj] =
                    SwitchLogFile(heap[loc[t].obj], t, loc[t].file)]
      /\ loc' = [loc EXCEPT ![t] = [loc[t] EXCEPT !.file = NULL]]
  BY DEF RefreshStore, tables
<1>2. pc \in [Thread -> Label] /\ loc \in [Thread -> Local] /\ loc[t] \in Local
  BY <1>0 DEF TypeOK
<1>3. loc[t].obj \in Address /\ loc[t].obj # NULL
  BY <1>0, <1>1 DEF FileLocal, Using, Removing
<1>4. Others(t) /\ pc'[t] = to
  BY <1>1, <1>2 DEF Others, Goto
<1>5. loc'[t].file = NULL /\ loc'[t].obj = loc[t].obj
  BY <1>1, <1>2 DEF Local
<1> DEFINE a == loc[t].obj
           f == loc[t].file
<1>6. /\ \A s \in LogIdx : /\ Uses(s)' \subseteq Uses(s) \cup {a}
                           /\ s # f => Uses(s)' \subseteq Uses(s)
      /\ ListInv'
      /\ \A b \in Address : b # a => heap'[b] = heap[b]
  <2>1. /\ a \in Address /\ f \in LogIdx \cup {NULL}
        /\ heap' = [heap EXCEPT ![a] = SwitchLogFile(heap[a], t, f)]
    BY <1>0, <1>1, <1>3
  <2> HIDE DEF a, f
  <2> QED
    BY <1>0, <1>1, <2>1, SwitchUses, ZenonT(60)
<1>7. ASSUME NEW s \in LogIdx
      PROVE  CountInv(s)'
  <2>1. Pending(s)' \subseteq Pending(s) \ {t}
    BY <1>4, <1>5, PendingStep
  <2>2. CountInv(s)
    BY DEF LogInv
  <2>3. CASE s # f
    <3>1. Pending(s)' \subseteq Pending(s)
      BY <2>1
    <3> QED
      BY <1>0, <1>1, <1>6, <2>2, <2>3, <3>1, KeptCount
  <2>4. CASE s = f
    <3>1. t \in Pending(s)
      BY <2>4 DEF Pending
    <3> HIDE DEF a
    <3> QED
      BY <1>0, <1>1, <1>6, <2>1, <2>2, <3>1, StoredCount
  <2> QED
    BY <2>3, <2>4
<1>8. ptra_ctx'[Virtual] = VirtualCtx
  BY <1>1 DEF LogInv
<1>9. FileLocal(t)'
  BY <1>3, <1>4, <1>5 DEF FileLocal
<1>10. ASSUME NEW u \in Thread, u # t
       PROVE  FileLocal(u)'
  <2>1. pc[u] \in Making => /\ loc[u].obj # a /\ loc[u].obj \in Address
    <3>1. loc[u].obj \in Address \cup {NULL} /\ Own(u) /\ FileLocal(u)
      BY <1>0, TypesAt DEF IInv, LogInv
    <3> QED
      BY <1>10, <3>1 DEF Own, FileLocal, Making
  <2> QED
    BY <1>4, <1>5, <1>6, <1>10, <2>1, OthersFile
<1> QED
  BY <1>6, <1>7, <1>8, <1>9, <1>10 DEF LogInv

-----------------------------------------------------------------------------
(* At the start the virtual context is the only user of a file.            *)
LEMMA InitLog == Init => LogInv
<1> SUFFICES ASSUME NEW t \in Thread, InitBy(t)
             PROVE  LogInv
  BY DEF Init
<1>1. 0 \in LogIdx
  BY LogAssumption DEF LogIdx
<1>2. ASSUME NEW a \in Address
      PROVE  /\ \A k \in LogIdx : k # 0 => heap[a].plog_file_list[k] = NULL
             /\ ~ (LogOn /\ a = VirtualCtx) =>
                  heap[a].plog_file = NULL /\ heap[a].plog_file_list[0] = NULL
             /\ LogOn /\ a = VirtualCtx =>
                  heap[a].plog_file = 0 /\ heap[a].plog_file_list[0] = 0
  <2>1. CASE a # VirtualCtx
    <3>1. heap[a] = Freed
      BY <2>1 DEF InitBy
    <3>2. heap[a].plog_file = NULL /\ heap[a].plog_file_list = NoList
      BY <3>1 DEF Freed, Zeroed
    <3> QED
      BY <1>1, <2>1, <3>2 DEF NoList
  <2>2. CASE a = VirtualCtx
    <3> DEFINE f == IF LogOn THEN 0 ELSE NULL
    <3>1. heap[a] = [Zeroed EXCEPT !.trace_context = VA_INVALID_ID, !.plog_file = f,
                                   !.plog_file_list[0] = f]
      BY <2>2 DEF InitBy
    <3> HIDE DEF f
    <3>2. heap[a].plog_file = f /\ heap[a].plog_file_list = [NoList EXCEPT ![0] = f]
      BY <3>1 DEF Zeroed
    <3>3. /\ heap[a].plog_file_list[0] = f
          /\ \A k \in LogIdx : k # 0 => heap[a].plog_file_list[k] = NULL
      BY <1>1, <3>2 DEF NoList
    <3> QED
      BY <2>2, <3>2, <3>3 DEF f
  <2> QED
    BY <2>1, <2>2
<1>3. ListInv
  BY <1>2 DEF ListInv
<1>4. ASSUME NEW s \in LogIdx
      PROVE  CountInv(s)
  <2>1. s # NULL
    BY LogAssumption DEF LogIdx
  <2>2. Pending(s) = {}
    BY <2>1 DEF InitBy, Pending, NoLocal
  <2>3. IsFiniteSet(Pending(s)) /\ Cardinality(Pending(s)) = 0
    BY <2>2, FS_EmptySet
  <2>4. CASE LogOn /\ s = 0
    <3>1. Uses(s) \subseteq {VirtualCtx}
      BY <1>2, <2>1, <2>4 DEF Uses
    <3>2. IsFiniteSet({VirtualCtx}) /\ Cardinality({VirtualCtx}) = 1
      BY FS_Singleton
    <3>3. /\ IsFiniteSet(Uses(s)) /\ Cardinality(Uses(s)) <= 1
          /\ Cardinality(Uses(s)) \in Nat
      BY <3>1, <3>2, PartCount
    <3>4. log_file[s].used = 1 /\ log_file[s].fp_log = TRUE
      BY <2>4 DEF InitBy, Opened
    <3> QED
      BY <2>3, <3>3, <3>4 DEF CountInv
  <2>5. CASE ~ (LogOn /\ s = 0)
    <3>1. Uses(s) = {}
      BY <1>2, <2>1, <2>5 DEF Uses
    <3>2. IsFiniteSet(Uses(s)) /\ Cardinality(Uses(s)) = 0
      BY <3>1, FS_EmptySet
    <3>3. log_file[s].used = 0 /\ log_file[s].fp_log = FALSE
      BY <2>5 DEF InitBy, NoLogFile
    <3> QED
      BY <2>3, <3>2, <3>3 DEF CountInv
  <2> QED
    BY <2>4, <2>5
<1>5. ASSUME NEW u \in Thread
      PROVE  FileLocal(u)
  <2>1. pc[u] = "idle" /\ loc[u].file = NULL
    BY DEF InitBy, NoLocal
  <2> QED
    BY <2>1 DEF FileLocal, Using, Removing
<1>6. ptra_ctx[Virtual] = VirtualCtx
  BY DEF InitBy
<1> QED
  BY <1>3, <1>4, <1>5, <1>6 DEF LogInv

(* LogInv is kept by every step.                                           *)
LEMMA NextLog ==
  ASSUME IInv, LogInv, [Next]_vars
  PROVE  LogInv'
<1>1. CASE UNCHANGED vars
  <2>1. LogInv /\ UNCHANGED <<heap, log_file, loc, pc, ptra_ctx>>
    BY <1>1 DEF vars
  <2> QED
    BY <2>1 DEF LogInv, ListInv, CountInv, Uses, Pending, FileLocal
<1>2. ASSUME NEW t \in Thread, Continue(t)
      PROVE  LogInv'
  <2>1. CASE EnterVirtual(t, "add_config_lock", "add_config")
    BY <2>1, EnterVirtualLog DEF Label, Making, Using, Removing
  <2>2. CASE EnterVirtual(t, "delete_config_lock", "delete_config")
    BY <2>2, EnterVirtualLog DEF Label, Making, Using, Removing
  <2>3. CASE EnterVirtual(t, "status_lock", "status")
    BY <2>3, EnterVirtualLog DEF Label, Making, Using, Removing
  <2>4. CASE va_TraceCreateConfig(t) \/ va_TraceDestroyConfig(t)
    BY <2>4, ConfigLog
  <2>5. CASE CreateLock(t)
    BY <2>5, CreateLockLog
  <2>6. CASE CreateLog(t)
    BY <2>6, CreateLogLog
  <2>7. CASE CreateUpdate(t)
    BY <2>7, CreateUpdateLog
  <2>8. CASE CreateFail(t)
    BY <2>8, CreateFailLog
  <2>9. CASE Reap(t)
    BY <2>9, ReapLog
  <2>10. CASE Unlock(t)
    BY <2>10, UnlockLog
  <2>11. CASE DestroyLock(t)
    BY <2>11, DestroyLockLog
  <2>12. CASE RefreshStart(t, "destroy_refresh", "destroy_store")
    BY <2>12, RefreshStartLog
  <2>13. CASE RefreshStore(t, "destroy_store", "destroy_update")
    BY <2>13, RefreshStoreLog
  <2>14. CASE DestroyUpdate(t)
    BY <2>14, DestroyUpdateLog
  <2>15. CASE Lookup(t)
    BY <2>15, LookupLog
  <2>16. CASE ReadSlot(t)
    BY <2>16, ReadSlotLog
  <2>17. CASE RefreshStart(t, "call_refresh", "call_store")
    BY <2>17, RefreshStartLog
  <2>18. CASE RefreshStore(t, "call_store", "call_print")
    BY <2>18, RefreshStoreLog
  <2>19. CASE TraceCall(t)
    BY <2>19, TraceCallLog
  <2>20. CASE va_TraceStatus(t)
    BY <2>20, StatusLog
  <2> QED
    BY <1>2, <2>1, <2>2, <2>3, <2>4, <2>5, <2>6, <2>7, <2>8, <2>9, <2>10, <2>11,
       <2>12, <2>13, <2>14, <2>15, <2>16, <2>17, <2>18, <2>19, <2>20 DEF Continue
<1> QED
  BY <1>1, <1>2, BeginLog DEF Next

(* What the table of files owes its users, in every reachable state.       *)
THEOREM FilesInductive == Spec => []LogInv
<1>1. Init => LogInv
  BY InitLog
<1>2. IInv /\ LogInv /\ [Next]_vars => LogInv'
  BY NextLog
<1> QED
  BY <1>1, <1>2, Inductive, PTL DEF Spec

(* A file is open while it has uses, and its use count is never less than  *)
(* the number of trace_contexts in the table that write to it or list it.  *)
THEOREM FilesCounted == Spec => []LogFilesCounted
<1>1. IInv /\ LogInv => LogFilesCounted
  <2> SUFFICES ASSUME IInv, LogInv, NEW s \in LogIdx
               PROVE  /\ Cardinality(UsersOf(s)) <= log_file[s].used
                      /\ log_file[s].fp_log <=> log_file[s].used > 0
    BY DEF LogFilesCounted
  <2>1. CountInv(s) /\ ListInv /\ log_file[s].used \in Int /\ s # NULL
    BY LogAssumption DEF LogInv, IInv, TypeOK, LogFile, LogIdx
  <2>2. UsersOf(s) \subseteq Uses(s)
    BY <2>1 DEF UsersOf, Uses, ListInv, Slot
  <2>3. /\ Cardinality(UsersOf(s)) <= Cardinality(Uses(s))
        /\ Cardinality(Uses(s)) \in Nat /\ Cardinality(UsersOf(s)) \in Nat
    BY <2>1, <2>2, PartCount DEF CountInv
  <2>4. Cardinality(Pending(s)) \in Nat
    BY <2>1, FS_CardinalityType DEF CountInv
  <2> QED
    BY <2>1, <2>3, <2>4 DEF CountInv
<1> QED
  BY <1>1, FilesInductive, Inductive, PTL

(* The messages of a call on a live context, and those through the virtual *)
(* context, never go to a file that was closed.                            *)
THEOREM FileIsOpen == Spec => []WritesToOpenFile
<1>1. IInv /\ LogInv => WritesToOpenFile
  <2> SUFFICES ASSUME IInv, LogInv
               PROVE  WritesToOpenFile
    OBVIOUS
  <2>1. TypeOK /\ heap \in [Address -> TraceContext]
    BY DEF IInv, TypeOK
  <2>2. ASSUME NEW i \in Slot, NEW a \in Address, ptra_ctx[i] = a,
               heap[a].plog_file # NULL
        PROVE  log_file[heap[a].plog_file].fp_log
    <3> DEFINE s == heap[a].plog_file
    <3>1. s \in LogIdx
      BY <2>1, <2>2 DEF TraceContext
    <3> HIDE DEF s
    <3>2. CountInv(s) /\ log_file[s].used \in Int
      BY <2>1, <3>1 DEF LogInv, TypeOK, LogFile
    <3>3. a \in Uses(s)
      BY <2>2 DEF Uses, s
    <3>4. /\ Cardinality(Uses(s)) \in Nat /\ Cardinality(Uses(s)) # 0
          /\ Cardinality(Pending(s)) \in Nat
      BY <3>2, <3>3, FS_EmptySet, FS_CardinalityType DEF CountInv
    <3>5. log_file[s].used > 0
      BY <3>2, <3>4 DEF CountInv
    <3> QED
      BY <3>2, <3>5 DEF CountInv, s
  <2>3. heap[VirtualCtx].plog_file # NULL => log_file[heap[VirtualCtx].plog_file].fp_log
    BY <2>2, TraceAssumption DEF LogInv, Slot
  <2>4. ASSUME NEW t \in Thread, pc[t] = "call_print", loc[t].obj = entry[loc[t].c],
               heap[loc[t].obj].plog_file # NULL
        PROVE  log_file[heap[loc[t].obj].plog_file].fp_log
    <3>1. /\ loc[t].obj \in Address
          /\ loc[t].c \in VAContextID
      BY <2>1, <2>4, TypesAt DEF LogInv, FileLocal, IInv, Place, Using
    <3>2. loc[t].obj # NULL
      BY <3>1, TraceAssumption
    <3>3. \E i \in Slot : ptra_ctx[i] = loc[t].obj
      BY <2>4, <3>1, <3>2 DEF IInv, EntrySlot, Slot
    <3> QED
      BY <2>2, <2>4, <3>1, <3>3
  <2> QED
    BY <2>3, <2>4 DEF WritesToOpenFile
<1> QED
  BY <1>1, FilesInductive, Inductive, PTL
=============================================================================
