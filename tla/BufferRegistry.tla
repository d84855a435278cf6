---------------------------- MODULE BufferRegistry ----------------------------
(***************************************************************************)
(* What the trace functions of va/va_trace.c expect of the buffer table:   *)
(* for each buffer id the context it was last recorded with, whatever the  *)
(* other buffers do.  An entry is never forgotten, since vaDestroyBuffer   *)
(* does not reach delete_trace_buf_info (see TraceBuffers!DPY2TRACECTX);   *)
(* a buffer may also not be recorded, when there is no room for it.        *)
(***************************************************************************)
CONSTANTS VABufferID, Traced, VA_INVALID_ID

VARIABLE context   \* of each buffer, or VA_INVALID_ID

Init == context = [b \in VABufferID |-> VA_INVALID_ID]

Record(b, c) == context' = [context EXCEPT ![b] = c]

Next == \E b \in VABufferID, c \in Traced : Record(b, c)

Spec == Init /\ [][Next]_context
=============================================================================
