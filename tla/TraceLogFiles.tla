--------------------------- MODULE TraceLogFiles ---------------------------
(***************************************************************************)
(* The table of per-thread trace log files of va/va_trace.c, as functions  *)
(* from one value of the table to the next.  Every operator stands for one *)
(* section of code under va_trace.resource_mutex, so a specification that  *)
(* uses them takes the whole section as one step.                          *)
(***************************************************************************)
EXTENDS Integers, FiniteSets, FiniteSetsExt

CONSTANTS
  Thread,                 \* kernel thread ids that call the library
  NoThread,               \* the thread_id 0 of a slot nobody has used yet
  NULL,                   \* the null pointer
  MAX_TRACE_THREAD_NUM    \* number of slots

LogIdx == 0 .. MAX_TRACE_THREAD_NUM - 1

ASSUME LogAssumption ==
  /\ MAX_TRACE_THREAD_NUM \in Nat \ {0}
  /\ NoThread \notin Thread
  /\ NULL \notin Int

(* fn_log and fp_log say whether the name is allocated and the file open. *)
LogFile == [thread_id : Thread \cup {NoThread}, used : Int,
            fn_log : BOOLEAN, fp_log : BOOLEAN]

NoLogFile == [thread_id |-> NoThread, used |-> 0,
              fn_log |-> FALSE, fp_log |-> FALSE]

\* Mutant: an unused slot is preferred to the one t has.
FreeFirst(lf, t) ==
  LET own  == {i \in LogIdx : lf[i].thread_id = t}
      free == {i \in LogIdx : lf[i].used = 0}
  IN  IF free # {} THEN Min(free)
      ELSE IF own # {} THEN Min(own)
      ELSE MAX_TRACE_THREAD_NUM

(* The slot of thread t, else the first unused slot, else one past the end. *)
get_log_file_idx_by_thd(lf, t) ==
  LET own  == {i \in LogIdx : lf[i].thread_id = t}
      free == {i \in LogIdx : lf[i].used = 0}
  IN  IF own # {} THEN Min(own)
      ELSE IF free # {} THEN Min(free)
      ELSE MAX_TRACE_THREAD_NUM

Opened(t) == [thread_id |-> t, used |-> 1, fn_log |-> TRUE, fp_log |-> TRUE]

\* Mutant: joining an open file does not count the new user.
JoinUncounted(f, t, ok) ==
  IF f.used # 0 THEN [ok |-> f.thread_id = t, file |-> f]
  ELSE IF ok THEN [ok |-> TRUE, file |-> Opened(t)]
  ELSE [ok |-> FALSE, file |-> [f EXCEPT !.fn_log = FALSE]]

(***************************************************************************)
(* What open_tracing_log_file leaves in slot f for thread t, and whether   *)
(* it returned 0.  `ok' is what strdup and fopen answer.  A slot of        *)
(* another thread gets a new name; the slot of the same thread keeps the   *)
(* name it has, and fopen of a name freed by an earlier failure fails.     *)
(***************************************************************************)
open_tracing_log_file(f, t, ok) ==
  IF f.used # 0
  THEN IF f.thread_id # t THEN [ok |-> FALSE, file |-> f]
       ELSE [ok |-> TRUE, file |-> [f EXCEPT !.used = @ + 1]]
  ELSE IF ok /\ (f.thread_id = t => f.fn_log)
       THEN [ok |-> TRUE, file |-> Opened(t)]
       ELSE [ok |-> FALSE, file |-> [f EXCEPT !.fn_log = FALSE]]

(* The slot start_tracing2log_file returns (or NULL), and the table after. *)
start_tracing2log_file(lf, t, ok) ==
  LET i == get_log_file_idx_by_thd(lf, t)
      r == open_tracing_log_file(lf[i], t, ok)
  IN  IF i \notin LogIdx THEN [plog_file |-> NULL, table |-> lf]
      ELSE [plog_file |-> IF r.ok THEN i ELSE NULL,
            table |-> [lf EXCEPT ![i] = r.file]]

\* Mutants: any user closes the file; any user gives the slot up.
ClosedByAny(f)    == [f EXCEPT !.used = @ - 1, !.fp_log = FALSE]
GivenUpByAny(f)   == [f EXCEPT !.used = @ - 1, !.thread_id = NoThread]

(* The last user of a file closes it; the slot keeps its thread and name. *)
Released(f) == IF f.used > 1 THEN [f EXCEPT !.used = @ - 1]
               ELSE [f EXCEPT !.used = @ - 1, !.fp_log = FALSE]

stop_tracing2log_file(lf, i) == [lf EXCEPT ![i] = Released(@)]
=============================================================================
