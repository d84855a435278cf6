--------------------------- MODULE WaylandDisplay ---------------------------
(***************************************************************************)
(* Displays of va/wayland: vaGetDisplayWl tries the back ends in turn,     *)
(* linux-dmabuf and then wl_drm.  Each asks the compositor for its globals *)
(* and waits in roundtrips for events whose handlers open the device.      *)
(* Handlers send requests themselves, whose events come only after the     *)
(* roundtrip that is under way.  Any step may fail, and what it leaves is  *)
(* what the next back end and the destroy functions find.                  *)
(***************************************************************************)
EXTENDS DescriptorTable, Sequences

CONSTANT WlDisplay     \* each has a thread and a Wayland connection

VARIABLES
  wl_pc,            \* where vaGetDisplayWl or the application is
  backend,          \* the back end that is tried or in use
  stage,            \* the roundtrip it is at
  opaque,           \* the back end whose context the display points to
  wl_drm_state,     \* descriptor and auth_type; fd -2 when not allocated
  got,              \* what events have told the back end's context
  proxies,          \* objects of the connection that the back end holds
  events,           \* compositor to library: private and default queue
  offers,           \* what the compositor has
  faults,           \* history: something failed
  wl_opened

wl_vars == <<wl_pc, backend, stage, opaque, wl_drm_state, got, proxies, events,
             offers, faults, wl_opened>>

NoState == [fd |-> -2, auth_type |-> "NONE"]

(* What a compositor has: globals, and for linux-dmabuf the kind of node.  *)
Compositors ==
  {c \in SUBSET {"linux_dmabuf", "render_node", "wl_drm"} :
     "render_node" \in c => "linux_dmabuf" \in c}

WlInit ==
  /\ wl_pc = [d \in WlDisplay |-> "none"]
  /\ backend = [d \in WlDisplay |-> "none"]
  /\ stage = [d \in WlDisplay |-> 0]
  /\ opaque = [d \in WlDisplay |-> "none"]
  /\ wl_drm_state = [d \in WlDisplay |-> NoState]
  /\ got = [d \in WlDisplay |-> {}]
  /\ proxies = [d \in WlDisplay |-> {}]
  /\ events = [d \in WlDisplay |-> [private |-> << >>, default |-> <<"app">>]]
  /\ offers \in [WlDisplay -> Compositors]
  /\ faults = [d \in WlDisplay |-> FALSE]
  /\ wl_opened = [d \in WlDisplay |-> FALSE]

WlGoto(d, label) == wl_pc' = [wl_pc EXCEPT ![d] = label]
Fault(d) == faults' = [faults EXCEPT ![d] = TRUE]

\* Mutant: proxies are made from the connection, not from the wrapper.
DefaultQueue == "default"

(* wl_proxy_set_queue on the wrapper that all proxies are made from.       *)
EventQueue == "private"

Appended(evs, d, seq) == [evs EXCEPT ![d][EventQueue] = @ \o seq]

(* A roundtrip ends with the event that answers its sync request; that one *)
(* is always on the queue that is waited on.                               *)
Sync(evs, d) == [evs EXCEPT ![d].private = Append(@, "sync")]

-----------------------------------------------------------------------------
Create(d, b) ==
  /\ backend' = [backend EXCEPT ![d] = b]
  /\ WlGoto(d, "create")

vaGetDisplayWl(d) ==
  /\ wl_pc[d] = "none"
  /\ Create(d, "linux_dmabuf")
  /\ UNCHANGED <<file, stage, opaque, wl_drm_state, got, proxies, events, offers,
                 faults, wl_opened>>

(* The registry announces the globals that there are, in any order.        *)
Announcements(offered) ==
  {s \in {<< >>, <<"linux_dmabuf">>, <<"wl_drm">>,
         <<"linux_dmabuf", "wl_drm">>, <<"wl_drm", "linux_dmabuf">>} :
     \A g \in {"linux_dmabuf", "wl_drm"} :
       g \in offered <=> \E i \in 1 .. Len(s) : s[i] = g}

(* The context, drm_state, the queue, the wrapper and the registry: what   *)
(* was made before one of them failed is there.                            *)
CreateFails(d) ==
  /\ wl_pc[d] = "create"
  /\ \/ UNCHANGED <<opaque, wl_drm_state, got>>
     \/ /\ opaque' = [opaque EXCEPT ![d] = backend[d]]
        /\ got' = [got EXCEPT ![d] = {}]
        /\ \/ UNCHANGED wl_drm_state
           \/ wl_drm_state' = [wl_drm_state EXCEPT ![d] = [fd |-> -1, auth_type |-> "NONE"]]
  /\ Fault(d) /\ WlGoto(d, "failed")
  /\ UNCHANGED <<file, backend, stage, proxies, events, offers, wl_opened>>

wl_display_get_registry(d) ==
  /\ wl_pc[d] = "create"
  /\ opaque' = [opaque EXCEPT ![d] = backend[d]]
  /\ wl_drm_state' = [wl_drm_state EXCEPT ![d] = [fd |-> -1, auth_type |-> "NONE"]]
  /\ got' = [got EXCEPT ![d] = {}]
  /\ proxies' = [proxies EXCEPT ![d] = @ \cup {"queue", "wrapper", "registry"}]
  /\ \E globals \in Announcements(offers[d]) :
       events' = Sync(Appended(events, d, globals), d)
  /\ stage' = [stage EXCEPT ![d] = 1]
  /\ WlGoto(d, "dispatch")
  /\ UNCHANGED <<file, backend, offers, faults, wl_opened>>

-----------------------------------------------------------------------------
Dispatches(d, event) ==
  /\ wl_pc[d] = "dispatch"
  /\ events[d].private # << >> /\ Head(events[d].private) = event
Popped(d) == [events EXCEPT ![d].private = Tail(@)]
Holds(d, p) == proxies' = [proxies EXCEPT ![d] = @ \cup p]
Gets(d, what) == got' = [got EXCEPT ![d] = @ \cup {what}]

(* The global of the back end is bound; the events that answer come after  *)
(* the sync that is waited for.  Another one's global is ignored.          *)
registry_handle_global(d) ==
  /\ \E global \in {"linux_dmabuf", "wl_drm"} :
       /\ Dispatches(d, global)
       /\ IF global # backend[d] THEN events' = Popped(d) /\ UNCHANGED <<got, proxies>>
          ELSE IF global = "linux_dmabuf"
          THEN /\ events' = Appended(Popped(d), d, <<"format_table", "main_device", "done">>)
               /\ Gets(d, "has_linux_dmabuf") /\ Holds(d, {"feedback"})
          ELSE /\ events' = Appended(Popped(d), d, <<"device", "capabilities">>)
               /\ Holds(d, {"drm"}) /\ UNCHANGED got
  /\ UNCHANGED <<file, wl_pc, backend, stage, opaque, wl_drm_state, offers,
                 faults, wl_opened>>

(* wl_drm cannot be bound, or listened to.                                 *)
BindFails(d) ==
  /\ backend[d] = "wl_drm" /\ Dispatches(d, "wl_drm")
  /\ events' = Popped(d)
  /\ Fault(d)
  /\ UNCHANGED <<file, wl_pc, backend, stage, opaque, wl_drm_state, got, proxies,
                 offers, wl_opened>>

(* The device is opened: the descriptor goes to drm_state.                 *)
Opens(d, node, auth_type) ==
  /\ Free # {}
  /\ file' = Open(d, node)
  /\ wl_drm_state' = [wl_drm_state EXCEPT ![d] = [fd |-> Min(Free), auth_type |-> auth_type]]

(* Only a render node will do, and opening it may fail.                    *)
feedback_handle_main_device(d) ==
  /\ Dispatches(d, "main_device")
  /\ events' = Popped(d)
  /\ \/ /\ "render_node" \in offers[d] /\ Opens(d, "render", "CUSTOM")
        /\ UNCHANGED faults
     \/ /\ IF "render_node" \in offers[d] THEN Fault(d) ELSE UNCHANGED faults
        /\ UNCHANGED <<file, wl_drm_state>>
  /\ UNCHANGED <<wl_pc, backend, stage, opaque, got, proxies, offers, wl_opened>>

feedback_handle_done(d) ==
  /\ Dispatches(d, "done")
  /\ events' = Popped(d)
  /\ Gets(d, "default_feedback_done")
  /\ proxies' = [proxies EXCEPT ![d] = @ \ {"feedback"}]
  /\ UNCHANGED <<file, wl_pc, backend, stage, opaque, wl_drm_state, offers,
                 faults, wl_opened>>

(* A primary node is of use only when the compositor has authenticated it. *)
drm_handle_device(d) ==
  /\ Dispatches(d, "device")
  /\ \/ /\ Opens(d, "render", "CUSTOM")
        /\ Gets(d, "is_authenticated")
        /\ events' = Popped(d) /\ UNCHANGED faults
     \/ /\ Opens(d, "primary", "NONE")
        /\ \/ events' = Appended(Popped(d), d, <<"authenticated">>) /\ UNCHANGED faults
           \/ events' = Popped(d) /\ Fault(d)
        /\ UNCHANGED got
     \/ /\ events' = Popped(d) /\ Fault(d)
        /\ UNCHANGED <<file, wl_drm_state, got>>
  /\ UNCHANGED <<wl_pc, backend, stage, opaque, proxies, offers, wl_opened>>

drm_handle_authenticated(d) ==
  /\ Dispatches(d, "authenticated")
  /\ events' = Popped(d)
  /\ file' = [file EXCEPT ![wl_drm_state[d].fd].node =
                IF file[wl_drm_state[d].fd].by = d THEN "authenticated" ELSE @]
  /\ wl_drm_state' = [wl_drm_state EXCEPT ![d].auth_type = "CUSTOM"]
  /\ Gets(d, "is_authenticated")
  /\ UNCHANGED <<wl_pc, backend, stage, opaque, proxies, offers, faults, wl_opened>>

(* format_table's descriptor is closed, capabilities only set a flag.      *)
HandleOther(d) ==
  /\ Dispatches(d, "format_table") \/ Dispatches(d, "capabilities")
  /\ events' = Popped(d)
  /\ UNCHANGED <<file, wl_pc, backend, stage, opaque, wl_drm_state, got, proxies,
                 offers, faults, wl_opened>>

(* The application's event pump, in another thread, dispatches the default *)
(* queue.                                                                  *)
AppDispatch(d) ==
  /\ events[d].default # << >>
  /\ events' = [events EXCEPT ![d].default = Tail(@)]
  /\ UNCHANGED <<file, wl_pc, backend, stage, opaque, wl_drm_state, got, proxies,
                 offers, faults, wl_opened>>

-----------------------------------------------------------------------------
(* What has to be true after each roundtrip.  The second one of dmabuf is  *)
(* the loop that dispatches until the feedback is done.                    *)
Needed(d) ==
  [linux_dmabuf |-> << "has_linux_dmabuf" \in got[d], wl_drm_state[d].fd >= 0 >>,
   wl_drm |-> << "drm" \in proxies[d], wl_drm_state[d].fd >= 0,
                 "is_authenticated" \in got[d] >>]

(* The end of a roundtrip, and whether another one follows.                *)
Roundtrip(d) ==
  LET needed == Needed(d)[backend[d]]
  IN  /\ IF backend[d] = "linux_dmabuf" /\ stage[d] = 2
         THEN /\ wl_pc[d] = "dispatch" /\ "default_feedback_done" \in got[d]
              /\ UNCHANGED events
         ELSE /\ Dispatches(d, "sync")
              /\ events' = IF backend[d] = "wl_drm" /\ stage[d] < 3
                           THEN Sync(Popped(d), d) ELSE Popped(d)
      /\ stage' = [stage EXCEPT ![d] = @ + 1]
      /\ WlGoto(d, IF ~needed[stage[d]] THEN "failed"
                   ELSE IF stage[d] = Len(needed) THEN "created" ELSE "dispatch")
      /\ UNCHANGED <<file, backend, opaque, wl_drm_state, got, proxies, offers,
                     faults, wl_opened>>

(* The connection breaks, in a roundtrip or in the dispatch of dmabuf.     *)
RoundtripFails(d) ==
  /\ wl_pc[d] = "dispatch"
  /\ Fault(d) /\ WlGoto(d, "failed")
  /\ UNCHANGED <<file, backend, stage, opaque, wl_drm_state, got, proxies, events,
                 offers, wl_opened>>

-----------------------------------------------------------------------------
(* The end of a create function, with or without a display, and its        *)
(* objects: a feedback that is not done is not among them.                 *)
Ended(d) ==
  /\ stage' = [stage EXCEPT ![d] = 0]
  /\ proxies' = [proxies EXCEPT ![d] = @ \cap {"feedback"}]
  /\ events' = [events EXCEPT ![d].private = << >>]

Created(d) ==
  /\ wl_pc[d] = "created"
  /\ Ended(d)
  /\ WlGoto(d, "display")
  /\ UNCHANGED <<file, backend, opaque, wl_drm_state, got, offers, faults, wl_opened>>

\* Mutant: the descriptor stays open.
StateForgotten(d) == file
StateClosed(d) == Close(wl_drm_state[d].fd)

(* The destroy function of a back end: it closes the descriptor and frees  *)
(* drm_state.                                                              *)
Destroyed(d) ==
  /\ file' = StateClosed(d)
  /\ wl_drm_state' = [wl_drm_state EXCEPT ![d] = NoState]
  /\ got' = [got EXCEPT ![d] = {}]

(* The next back end is tried, or the display destroyed: the destroy       *)
(* function runs once more then and finds nothing.                         *)
BackendFails(d) ==
  /\ wl_pc[d] = "failed" /\ ~(backend[d] = "wl_drm" /\ opaque[d] = "none")
  /\ Ended(d)
  /\ Destroyed(d)
  /\ IF backend[d] = "linux_dmabuf"
     THEN Create(d, "wl_drm") /\ UNCHANGED opaque
     ELSE /\ WlGoto(d, "no display")
          /\ opaque' = [opaque EXCEPT ![d] = "none"]
          /\ UNCHANGED backend
  /\ UNCHANGED <<offers, faults, wl_opened>>

(* The destroy function of wl_drm writes to the context, which is none, or *)
(* the smaller one of linux_dmabuf, when its own could not be allocated.   *)
BackendCrashes(d) ==
  /\ wl_pc[d] = "failed" /\ backend[d] = "wl_drm" /\ opaque[d] # "wl_drm"
  /\ WlGoto(d, "crashed")
  /\ UNCHANGED <<file, backend, stage, opaque, wl_drm_state, got, proxies, events,
                 offers, faults, wl_opened>>

(* va_DisplayContextGetDriverNames and va_openDriver.                      *)
WlInitialize(d) ==
  /\ wl_pc[d] = "display" /\ ~wl_opened[d]
  /\ wl_opened' = [wl_opened EXCEPT ![d] = TRUE]
  /\ UNCHANGED <<file, wl_pc, backend, stage, opaque, wl_drm_state, got, proxies,
                 events, offers, faults>>

WlTerminate(d) ==
  /\ wl_pc[d] = "display"
  /\ Destroyed(d)
  /\ opaque' = [opaque EXCEPT ![d] = "none"]
  /\ wl_opened' = [wl_opened EXCEPT ![d] = FALSE]
  /\ WlGoto(d, "terminated")
  /\ UNCHANGED <<backend, stage, proxies, events, offers, faults>>

WlNext == \E d \in WlDisplay :
  \/ vaGetDisplayWl(d) \/ CreateFails(d) \/ wl_display_get_registry(d)
  \/ registry_handle_global(d) \/ BindFails(d) \/ feedback_handle_main_device(d)
  \/ feedback_handle_done(d) \/ drm_handle_device(d)
  \/ drm_handle_authenticated(d) \/ HandleOther(d) \/ AppDispatch(d)
  \/ Roundtrip(d) \/ RoundtripFails(d) \/ Created(d) \/ BackendFails(d)
  \/ BackendCrashes(d)
  \/ WlInitialize(d) \/ WlTerminate(d)

-----------------------------------------------------------------------------
WlOver(d) == wl_pc[d] \in {"no display", "terminated"}

(* vaGetDisplayWl gives a display whenever the compositor offers what one  *)
(* back end needs and nothing failed: no event that a back end waits for   *)
(* is lost, neither to the application's event pump (the comment of        *)
(* va_wayland_drm.c:268 on the private queue) nor because it comes in a    *)
(* later roundtrip than the one that waits for it.                         *)
DisplayGiven ==
  \A d \in WlDisplay :
    wl_pc[d] = "no display" /\ ~faults[d] =>
      {"wl_drm", "render_node"} \cap offers[d] = {}

(* A display that vaGetDisplayWl gave has a device of its own that a       *)
(* driver may use, authenticated if it is a primary node, and the context  *)
(* of the back end that opened it.                                         *)
WlHasDevice ==
  \A d \in WlDisplay : wl_pc[d] = "display" =>
    /\ Usable(wl_drm_state[d].fd, d)
    /\ opaque[d] = backend[d] /\ wl_drm_state[d].auth_type = "CUSTOM"

(* Nothing of a display is open when it is terminated or was never given,  *)
(* whatever back ends were tried: no descriptor, and of the objects of the *)
(* connection none but a feedback whose events never came.                 *)
WlReturned ==
  \A d \in WlDisplay :
    /\ WlOver(d) => \A n \in FD : file[n].by # d
    /\ WlOver(d) \/ wl_pc[d] = "display" =>
         proxies[d] \subseteq (IF faults[d] THEN {"feedback"} ELSE {})
=============================================================================
