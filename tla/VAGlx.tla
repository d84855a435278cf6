-------------------------------- MODULE VAGlx --------------------------------
(***************************************************************************)
(* VA/GLX surfaces (va/glx/va_glx.c, va_glx_impl.c): libva's own           *)
(* implementation copies a VA surface to a pixmap and renders the pixmap   *)
(* to the application's texture, in a GL context of its own for each       *)
(* surface.  Threads share the surfaces, the contexts, of which each is    *)
(* current in one thread at most, and the X error trap, which is in static *)
(* variables of the library.                                               *)
(***************************************************************************)
EXTENDS Naturals

CONSTANTS
  Thread,      \* each has a GL context of its own, named as the thread is
  Surface,     \* VASurfaceGLX structures; named alike, their GL contexts
  NULL

ASSUME GlxAssumption == /\ Thread \cap Surface = {}
                        /\ NULL \notin Thread \cup Surface

VARIABLES
  display,            \* what vaGetDisplayGLX has allocated
  impl,               \* where the calls go: "none" before they are set up
  is_initialized,
  vtable_glx,         \* whether the driver has VA/GLX functions
  objects,            \* of each surface: the memory, GL and X objects
  is_bound,           \* the library takes the pixmap to be bound
  bound,              \* X server: the pixmaps that are bound to a texture
  associated,         \* a VA surface is in the pixmap
  depth,              \* matrices and attributes pushed in each GL context
  current,            \* the GL context current in each thread
  old_cs,             \* and the one its call found
  handler,            \* X error handler: the application's or error_handler
  old_error_handler,  \* the one x11_trap_errors found
  x11_error_code,
  pc, arg,            \* where each thread is, the surface it works on
  returned,           \* what its last call gave
  overlapped,         \* history: a trap was set while another one was
  misread             \* history: surfaces whose bind met another's error

glx_vars == <<display, impl, is_initialized, vtable_glx>>
surface_vars == <<objects, is_bound, bound, associated, depth>>
trap_vars == <<handler, old_error_handler, x11_error_code, overlapped, misread>>
thread_vars == <<current, old_cs, pc, arg, returned>>
vars == <<glx_vars, surface_vars, trap_vars, thread_vars>>

Object == {"context", "struct", "pixmap", "glx_pixmap", "pix_texture", "fbo"}

(* The X requests made under the trap, by the place they are made from.    *)
Unbinds == {"associate", "end_render", "deassociate", "destroy"}
Requests == {"create_tfp", "put", "bind"} \cup Unbinds

Init ==
  /\ display = {} /\ impl = "none" /\ is_initialized = FALSE
  /\ vtable_glx \in BOOLEAN
  /\ objects = [s \in Surface |-> {}]
  /\ is_bound = [s \in Surface |-> FALSE]
  /\ bound = {}
  /\ associated = [s \in Surface |-> FALSE]
  /\ depth = [s \in Surface |-> 0]
  /\ current = [t \in Thread |-> t]
  /\ old_cs = [t \in Thread |-> NULL]
  /\ handler = "application" /\ old_error_handler = "none" /\ x11_error_code = FALSE
  /\ pc = [t \in Thread |-> <<"app">>]
  /\ arg = [t \in Thread |-> NULL]
  /\ returned = [t \in Thread |-> "nothing"]
  /\ overlapped = FALSE /\ misread = {}

Goto(t, label) == pc' = [pc EXCEPT ![t] = label]
Trap(place) == <<"trap", place>>
Request(place) == <<"request", place>>
Untrap(place) == <<"untrap", place>>
Unbound(place) == <<"unbound", place>>

-----------------------------------------------------------------------------
(* vaGetDisplayGLX: without memory the display of vaGetDisplay is          *)
(* destroyed again.                                                        *)
vaGetDisplayGLX ==
  /\ display = {}
  /\ display' \in {{}, {"display", "driver"}}
  /\ UNCHANGED <<impl, is_initialized, vtable_glx, surface_vars, trap_vars,
                 thread_vars>>

(* The vtable is set before the extensions are known to be there.          *)
va_glx_init_context ==
  /\ display # {} /\ ~is_initialized
  /\ impl' = IF vtable_glx THEN "driver" ELSE "libva"
  /\ \E extensions \in BOOLEAN : is_initialized' = (vtable_glx \/ extensions)
  /\ UNCHANGED <<display, vtable_glx, surface_vars, trap_vars, thread_vars>>

(* vaTerminate, when the application has destroyed its surfaces.           *)
va_DisplayContextDestroy ==
  /\ display # {} /\ \A s \in Surface : objects[s] = {}
  /\ \A t \in Thread : pc[t] = <<"app">>
  /\ display' = {} /\ impl' = "none" /\ is_initialized' = FALSE
  /\ UNCHANGED <<vtable_glx, surface_vars, trap_vars, thread_vars>>

-----------------------------------------------------------------------------
MayMakeCurrent(t, c) == \A u \in Thread \ {t} : current[u] # c
MakeCurrent(t, c) == current' = [current EXCEPT ![t] = c]

(* The application puts its context back after a call that lost it.        *)
AppMakeCurrent(t) ==
  /\ pc[t] = <<"app">> /\ current[t] = NULL
  /\ MakeCurrent(t, t)
  /\ UNCHANGED <<glx_vars, surface_vars, trap_vars, old_cs, pc, arg, returned>>

(* A call that libva implements itself, made with a current context.       *)
Enters(t, s, label) ==
  /\ pc[t] = <<"app">> /\ current[t] = t
  /\ is_initialized /\ impl = "libva"
  /\ Goto(t, label)
  /\ arg' = [arg EXCEPT ![t] = s]
  /\ old_cs' = [old_cs EXCEPT ![t] = current[t]]
  /\ returned' = [returned EXCEPT ![t] = "nothing"]

Returns(t, status) ==
  /\ Goto(t, <<"app">>)
  /\ arg' = [arg EXCEPT ![t] = NULL]
  /\ returned' = [returned EXCEPT ![t] = status]

\* Mutant: the context of the surface stays current.
KeepsCurrent(t, status) == UNCHANGED <<current, old_cs>> /\ Returns(t, status)

(* gl_set_current_context(&old_cs, NULL); return status.                   *)
Restores(t, status) ==
  MakeCurrent(t, old_cs[t]) /\ UNCHANGED old_cs /\ Returns(t, status)

(* The driver's own implementation touches nothing here.                   *)
Forwarded(t) ==
  /\ pc[t] = <<"app">> /\ is_initialized /\ impl = "driver"
  /\ returned' = [returned EXCEPT ![t] = "nothing"]
  /\ UNCHANGED <<glx_vars, surface_vars, trap_vars, current, old_cs, pc, arg>>

-----------------------------------------------------------------------------
vaCreateSurfaceGLX(t, s) ==
  /\ objects[s] = {} /\ \A u \in Thread : arg[u] # s
  /\ Enters(t, s, <<"create_context">>)
  /\ UNCHANGED <<glx_vars, surface_vars, trap_vars, current>>

Has(s, set) == objects' = [objects EXCEPT ![s] = set]

(* The error path destroys the new context, which leaves none current: the *)
(* caller's is not put back.                                               *)
CreateFails(t, s) ==
  /\ Has(s, {}) /\ Returns(t, "create failed")
  /\ MakeCurrent(t, IF current[t] = s THEN NULL ELSE current[t])

gl_create_context(t) ==
  LET s == arg[t]
  IN  /\ pc[t] = <<"create_context">>
      /\ \/ Has(s, {"context"}) /\ Goto(t, <<"create_current">>)
            /\ UNCHANGED <<current, arg, returned>>
         \/ CreateFails(t, s)
      /\ UNCHANGED <<glx_vars, is_bound, bound, associated, depth, trap_vars, old_cs>>

gl_set_current_context(t) ==
  LET s == arg[t]
  IN  /\ pc[t] = <<"create_current">>
      /\ \/ MakeCurrent(t, s) /\ Goto(t, <<"create_surface">>)
            /\ UNCHANGED <<objects, arg, returned>>
         \/ CreateFails(t, s)
      /\ UNCHANGED <<glx_vars, is_bound, bound, associated, depth, trap_vars, old_cs>>

(* create_surface up to the pixmap of create_tfp_surface: memory, the      *)
(* texture's format and size, the depth of the root window.                *)
create_surface(t) ==
  LET s == arg[t]
  IN  /\ pc[t] = <<"create_surface">>
      /\ \/ Has(s, {"context", "struct", "pixmap"})
            /\ Goto(t, Trap("create_tfp"))
            /\ UNCHANGED <<current, arg, returned>>
         \/ CreateFails(t, s)
      /\ UNCHANGED <<glx_vars, is_bound, bound, associated, depth, trap_vars, old_cs>>

\* Mutant: the objects made before the one that failed are forgotten.
ForgetsObjects(t, s) ==
  /\ Has(s, objects[s] \ {"struct", "context"}) /\ Returns(t, "create failed")
  /\ MakeCurrent(t, NULL)

(* destroy_surface for what there is of the surface, then the context.     *)
DestroysPartial(t, s) == CreateFails(t, s)

create_fbo_surface(t) ==
  LET s == arg[t]
  IN  /\ pc[t] = <<"create_fbo">>
      /\ \/ Has(s, Object) /\ Restores(t, "created")
         \/ DestroysPartial(t, s) /\ UNCHANGED old_cs
      /\ UNCHANGED <<glx_vars, is_bound, bound, associated, depth, trap_vars>>

-----------------------------------------------------------------------------
(* x11_trap_errors, the request, x11_untrap_errors.                        *)
Inside(t) == \E r \in Requests : pc[t] \in {Request(r), Untrap(r)}

x11_trap_errors(t) ==
  \E r \in Requests :
    /\ pc[t] = Trap(r)
    /\ x11_error_code' = FALSE
    /\ old_error_handler' = handler
    /\ handler' = "error_handler"
    /\ overlapped' = (overlapped \/ \E u \in Thread : Inside(u))
    /\ Goto(t, Request(r))
    /\ UNCHANGED <<glx_vars, surface_vars, current, old_cs, arg, returned, misread>>

(* An error goes to the handler that is set when it arrives: XSync has the *)
(* request's own arrive in the trap.  That of glXCreatePixmap, which has   *)
(* no XSync, may arrive in it or be a LateError.                           *)
XRequest(t) ==
  \E r \in Requests, error \in BOOLEAN :
    /\ pc[t] = Request(r)
    /\ x11_error_code' =
         (x11_error_code \/ (error /\ handler = "error_handler"))
    /\ bound' = IF error \/ r \notin Unbinds \cup {"bind"} THEN bound
                ELSE IF r = "bind" THEN bound \cup {arg[t]}
                ELSE bound \ {arg[t]}
    /\ Goto(t, Untrap(r))
    /\ UNCHANGED <<glx_vars, objects, is_bound, associated, depth, current, old_cs, arg, returned,
                   handler, old_error_handler, overlapped, misread>>

(* An error of a request that no trap waits for: glXCreatePixmap, whose    *)
(* trap has ended, the pixmaps made and freed without a trap, what the     *)
(* application or the driver asks of X.  It arrives when any thread reads  *)
(* from the X connection, and a trap that is set then takes it for its own *)
(* (without one it is the application's).                                  *)
LateError ==
  /\ handler = "error_handler"
  /\ x11_error_code' = TRUE
  /\ misread' = misread \cup
       {arg[t] : t \in {u \in Thread : pc[u] \in {Request("bind"), Untrap("bind")}}}
  /\ UNCHANGED <<glx_vars, surface_vars, thread_vars, handler, old_error_handler, overlapped>>

\* Mutant: the trap stays set after an error.
UntrapUnlessError ==
  handler' = IF x11_error_code THEN handler ELSE old_error_handler

x11_untrap_errors == handler' = old_error_handler

(* Every use of the trap ends with a step of this form.                    *)
Untraps(t, r) ==
  /\ pc[t] = Untrap(r)
  /\ x11_untrap_errors
  /\ UNCHANGED <<old_error_handler, x11_error_code, overlapped, misread, glx_vars>>

create_tfp_surface(t) ==
  LET s == arg[t]
  IN  /\ Untraps(t, "create_tfp")
      /\ IF x11_error_code
         THEN DestroysPartial(t, s)
         ELSE /\ Has(s, objects[s] \cup {"glx_pixmap", "pix_texture"})
              /\ Goto(t, <<"create_fbo">>)
              /\ UNCHANGED <<current, arg, returned>>
      /\ UNCHANGED <<is_bound, bound, associated, depth, old_cs>>

-----------------------------------------------------------------------------
(* Copy and destroy begin alike: the surface's context has to be current,  *)
(* and is not to be had while another thread is at work with it.           *)
UsesSurface(t, s, label) ==
  /\ "fbo" \in objects[s]
  /\ Enters(t, s, label)
  /\ MayMakeCurrent(t, s) /\ MakeCurrent(t, s)
  /\ UNCHANGED <<glx_vars, surface_vars, trap_vars>>

(* unbind_pixmap does nothing when the pixmap is not bound.                *)
UnbindFrom(s, place) == IF is_bound[s] THEN Trap(place) ELSE Unbound(place)

\* Mutant: what an earlier copy left bound is not unbound first.
PutAtOnce(s) == Trap("put")

AssociateFrom(s) == UnbindFrom(s, "associate")

vaCopySurfaceGLX(t, s) == UsesSurface(t, s, AssociateFrom(s))

SurfaceBusy(t, s) ==
  /\ "fbo" \in objects[s] /\ ~MayMakeCurrent(t, s)
  /\ pc[t] = <<"app">> /\ current[t] = t
  /\ returned' = [returned EXCEPT ![t] = "failed"]
  /\ UNCHANGED <<glx_vars, surface_vars, trap_vars, current, old_cs, pc, arg>>

(* The application destroys a surface that no other thread is using.       *)
vaDestroySurfaceGLX(t, s) ==
  /\ \A u \in Thread : arg[u] # s
  /\ UsesSurface(t, s, UnbindFrom(s, "destroy"))

(* Which label a copy goes on with after an unbind, and when it failed.    *)
AfterUnbind == [associate |-> Unbound("associate"), end_render |-> <<"leave">>,
                deassociate |-> Unbound("deassociate"),
                destroy |-> Unbound("destroy")]
UnbindFailed == [associate |-> <<"fail">>, end_render |-> <<"leave failed">>,
                 deassociate |-> <<"fail">>, destroy |-> Unbound("destroy")]

unbind_pixmap(t) ==
  \E r \in Unbinds :
    /\ Untraps(t, r)
    /\ Goto(t, IF x11_error_code THEN UnbindFailed[r] ELSE AfterUnbind[r])
    /\ is_bound' = [is_bound EXCEPT ![arg[t]] = x11_error_code]
    /\ UNCHANGED <<objects, bound, associated, depth, current, old_cs, arg, returned>>

(* deassociate_surface, at the beginning and at the end of a copy.         *)
deassociate_surface(t) ==
  /\ pc[t] \in {Unbound("associate"), Unbound("deassociate")}
  /\ associated' = [associated EXCEPT ![arg[t]] = FALSE]
  /\ Goto(t, IF pc[t] = Unbound("associate") THEN Trap("put") ELSE <<"done">>)
  /\ UNCHANGED <<glx_vars, objects, is_bound, bound, depth, trap_vars, current,
                 old_cs, arg, returned>>

(* vaPutSurface may fail with an X error or with a status.                 *)
associate_surface(t) ==
  /\ Untraps(t, "put")
  /\ \E ok \in BOOLEAN :
       LET done == ok /\ x11_error_code = FALSE
       IN  /\ associated' = [associated EXCEPT ![arg[t]] = @ \/ done]
           /\ Goto(t, IF done THEN <<"enter">> ELSE <<"fail">>)
  /\ UNCHANGED <<objects, is_bound, bound, depth, current, old_cs, arg, returned>>

fbo_enter(t) ==
  /\ pc[t] = <<"enter">>
  /\ depth' = [depth EXCEPT ![arg[t]] = @ + 1]
  /\ Goto(t, <<"sync">>)
  /\ UNCHANGED <<glx_vars, objects, is_bound, bound, associated, trap_vars, current,
                 old_cs, arg, returned>>

\* Mutant: a failed sync returns without fbo_leave.
SyncReturns(t) == \E label \in {<<"fail">>, Trap("bind")} : Goto(t, label)

(* sync_surface fails without an associated surface or as the driver says; *)
(* bind_pixmap does nothing when the pixmap is bound.                      *)
begin_render(t) ==
  \/ Goto(t, <<"leave failed">>)
  \/ /\ associated[arg[t]]
     /\ Goto(t, IF is_bound[arg[t]] THEN <<"render">> ELSE Trap("bind"))

begin_render_surface(t) ==
  /\ pc[t] = <<"sync">>
  /\ begin_render(t)
  /\ UNCHANGED <<glx_vars, surface_vars, trap_vars, current, old_cs, arg,
                 returned>>

bind_pixmap(t) ==
  /\ Untraps(t, "bind")
  /\ is_bound' = [is_bound EXCEPT ![arg[t]] = ~x11_error_code]
  /\ Goto(t, IF x11_error_code THEN <<"leave failed">> ELSE <<"render">>)
  /\ UNCHANGED <<objects, bound, associated, depth, current, old_cs, arg, returned>>

(* render_pixmap; end_render_surface unbinds.                              *)
render_pixmap(t) ==
  /\ pc[t] = <<"render">>
  /\ Goto(t, Trap("end_render"))
  /\ UNCHANGED <<glx_vars, surface_vars, trap_vars, current, old_cs, arg,
                 returned>>

fbo_leave(t) ==
  /\ pc[t] \in {<<"leave">>, <<"leave failed">>}
  /\ depth' = [depth EXCEPT ![arg[t]] = @ - 1]
  /\ Goto(t, IF pc[t] = <<"leave">> THEN UnbindFrom(arg[t], "deassociate")
             ELSE <<"fail">>)
  /\ UNCHANGED <<glx_vars, objects, is_bound, bound, associated, trap_vars, current,
                 old_cs, arg, returned>>

CopyReturns(t) ==
  /\ pc[t] \in {<<"done">>, <<"fail">>}
  /\ Restores(t, IF pc[t] = <<"done">> THEN "copied" ELSE "failed")
  /\ UNCHANGED <<glx_vars, surface_vars, trap_vars>>

(* destroy_surface after unbind_pixmap, whatever that gave, and the        *)
(* context.                                                                *)
destroy_surface(t) ==
  LET s == arg[t]
  IN  /\ pc[t] = Unbound("destroy")
      /\ Has(s, {})
      /\ is_bound' = [is_bound EXCEPT ![s] = FALSE]
      /\ bound' = bound \ {s}
      /\ associated' = [associated EXCEPT ![s] = FALSE]
      /\ misread' = misread \ {s}
      /\ Restores(t, "destroyed")
      /\ UNCHANGED <<glx_vars, depth, handler, old_error_handler, x11_error_code,
                     overlapped>>

-----------------------------------------------------------------------------
Next ==
  \/ vaGetDisplayGLX \/ va_glx_init_context \/ va_DisplayContextDestroy
  \/ LateError
  \/ \E t \in Thread :
       \/ AppMakeCurrent(t) \/ Forwarded(t)
       \/ gl_create_context(t) \/ gl_set_current_context(t)
       \/ create_surface(t) \/ create_tfp_surface(t) \/ create_fbo_surface(t)
       \/ x11_trap_errors(t) \/ XRequest(t)
       \/ unbind_pixmap(t) \/ deassociate_surface(t) \/ associate_surface(t)
       \/ fbo_enter(t) \/ begin_render_surface(t) \/ bind_pixmap(t)
       \/ render_pixmap(t) \/ fbo_leave(t) \/ CopyReturns(t)
       \/ destroy_surface(t)
       \/ \E s \in Surface :
            \/ vaCreateSurfaceGLX(t, s) \/ vaCopySurfaceGLX(t, s)
            \/ SurfaceBusy(t, s) \/ vaDestroySurfaceGLX(t, s)

Spec == Init /\ [][Next]_vars

-----------------------------------------------------------------------------
(* After a call the thread has the GL context it made the call with; only  *)
(* a surface that could not be created leaves none.                        *)
ContextReturned ==
  \A t \in Thread : pc[t] = <<"app">> =>
    \/ current[t] = t
    \/ current[t] = NULL /\ returned[t] = "create failed"

(* The driver puts a VA surface in a pixmap only while the pixmap is not   *)
(* bound to a texture, also after a copy that failed half-way and left it  *)
(* bound (texture-from-pixmap leaves the content undefined otherwise).     *)
(* Two things the code does make it miss that a pixmap is bound: a trap    *)
(* that another one resets loses its error, and the late error of another  *)
(* request, in the trap of a bind that succeeds, makes it look failed.     *)
PutUnbound ==
  \A t \in Thread :
    pc[t] = Request("put") /\ ~overlapped /\ arg[t] \notin misread
      => arg[t] \notin bound

(* Matrices, attributes and framebuffer of a surface's context are as they *)
(* were when no call is at work with it, whichever step of a copy failed.  *)
StateBalanced ==
  \A s \in Surface : (\A t \in Thread : arg[t] # s) => depth[s] = 0

(* Outside of a call a surface has all its objects or none of them.        *)
ObjectsOwned ==
  \A s \in Surface : (\A t \in Thread : arg[t] # s) => objects[s] \in {{}, Object}

(* When no call is inside an error trap the application's handler is set,  *)
(* as long as no two traps overlapped: the handler to put back is in one   *)
(* static variable.                                                        *)
HandlerRestored ==
  ~overlapped /\ (\A t \in Thread : ~Inside(t)) => handler = "application"
=============================================================================
