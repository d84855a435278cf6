---------------------------- MODULE MCTraceRender ----------------------------
(* Buffers, lists of buffers and calls for the runs of TraceRender.        *)
EXTENDS TraceRender

CONSTANTS t1, t2

(* Totals on both sides of what one event, and two, can carry.             *)
MCFilter(id, is_filter) == [id |-> id, total |-> 40, filters |-> << >>,
                            filter |-> is_filter, execute |-> FALSE]
MCData(id, total) == [id |-> id, total |-> total, filters |-> << >>,
                      filter |-> FALSE, execute |-> FALSE]
MCExecute == [MCData("execute", 24) EXCEPT !.execute = TRUE]
MCPipeline(filters) == [MCData("pipeline", 200) EXCEPT !.filters = filters]

f1 == MCFilter("f1", TRUE)
f2 == MCFilter("f2", TRUE)
wrong == MCFilter("wrong", FALSE)
MCTotals == {0, 1, 1000, 1001, 1008, 1009, 2016, 2017}

MCBuffer == {f1, f2, wrong, MCExecute}
            \cup {MCPipeline(f) : f \in {<<f1, f2>>, <<f1, wrong>>}}
            \cup {MCData("data", n) : n \in MCTotals} \cup {MCData("other", 8)}

MCBufferLists ==
  {<< >>} \cup {<<MCData("data", n)>> : n \in MCTotals}
          \cup {<<MCPipeline(f)>> : f \in {<<f1, f2>>, <<f1, wrong>>}}
          \cup {<<MCData("data", 1001), MCData("other", 8)>>}
          \cup {<<MCData("other", 8)>>}

(* Lists that an event can carry, whatever it is, and that no event can.   *)
MCListLengths == {1, 300}

(* Drivers with all of the hooks, with those only that are called untested,*)
(* without one of the two that older hooks stand in for, and without one   *)
(* that is called untested.                                                *)
MCDriverHooks ==
  {Unchecked, OptionalHooks \cup Unchecked}
  \cup {(OptionalHooks \cup Unchecked) \ {h} :
         h \in {"QuerySurfaceAttributes", "CreateSurfaces2"} \cup Unchecked}

(* One thread makes every call; the other is there for the mutex.          *)
MCCalls(t) ==
  IF t = t1 THEN AllCalls
  ELSE {vaSyncSurface, vaProtectedSessionExecute(MCExecute),
        vaRenderPicture(<<MCData("other", 8)>>)}
=============================================================================
