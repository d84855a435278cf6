----------------------------- MODULE VAGlxProof -----------------------------
(***************************************************************************)
(* Proofs about VAGlx, for any number of threads and surfaces: a GL        *)
(* context is current in the thread that works on its surface and nowhere  *)
(* else, so that two threads never work on the same surface; from that     *)
(* follow what a copy leaves of matrices, objects and contexts.  The error *)
(* trap is right as long as two traps never overlap.                       *)
(***************************************************************************)
EXTENDS VAGlx, TLAPS

-----------------------------------------------------------------------------
(* The places of a call.                                                   *)
Trapped(R) == {Trap(r) : r \in R} \cup {Request(r) : r \in R} \cup {Untrap(r) : r \in R}

(* The surface is being made; its context is not current in the first two. *)
Contextless == {<<"create_context">>, <<"create_current">>}
Creating == Contextless \cup {<<"create_surface">>, <<"create_fbo">>}
              \cup Trapped({"create_tfp"})

(* fbo_enter has pushed the matrices and fbo_leave has not popped them.    *)
Pushed == {<<"sync">>, <<"render">>, <<"leave">>, <<"leave failed">>}
            \cup Trapped({"bind", "end_render"})

(* From the first unbind of a copy to its bind_pixmap.                     *)
Unbinding == {Unbound("associate"), <<"enter">>, <<"sync">>}
               \cup Trapped({"put", "bind"})

Working == Pushed \cup Unbinding \cup {<<"done">>, <<"fail">>}
             \cup {Unbound("deassociate"), Unbound("destroy")}
             \cup Trapped({"associate", "deassociate", "destroy"})

Label == {<<"app">>} \cup Creating \cup Working

Status == {"nothing", "created", "create failed", "copied", "failed", "destroyed"}

TypeOK ==
  /\ vtable_glx \in BOOLEAN
  /\ objects \in [Surface -> SUBSET Object]
  /\ is_bound \in [Surface -> BOOLEAN]
  /\ associated \in [Surface -> BOOLEAN]
  /\ depth \in [Surface -> Nat]
  /\ bound \subseteq Surface /\ misread \subseteq Surface
  /\ current \in [Thread -> Thread \cup Surface \cup {NULL}]
  /\ old_cs \in [Thread -> Thread \cup {NULL}]
  /\ x11_error_code \in BOOLEAN /\ overlapped \in BOOLEAN
  /\ pc \in [Thread -> Label]
  /\ arg \in [Thread -> Surface \cup {NULL}]
  /\ returned \in [Thread -> Status]

(* libva's own implementation is used only without one of the driver.      *)
Implementation == /\ impl = "libva" => ~vtable_glx
                  /\ impl = "driver" => vtable_glx
                  /\ vtable_glx => \A t \in Thread : pc[t] = <<"app">> /\ current[t] = t

(* The objects of a surface at each place of the call that works on it.    *)
ObjectsAt(label) ==
  IF label = <<"create_context">> THEN {}
  ELSE IF label \in {<<"create_current">>, <<"create_surface">>} THEN {"context"}
  ELSE IF label \in Trapped({"create_tfp"}) THEN {"context", "struct", "pixmap"}
  ELSE IF label = <<"create_fbo">> THEN Object \ {"fbo"}
  ELSE Object

(* A thread inside of a call works on one surface, whose context is        *)
(* current, and knows the context to put back.                             *)
WorksOn(t) ==
  IF pc[t] = <<"app">>
  THEN /\ arg[t] = NULL
       /\ \/ current[t] = t
          \/ current[t] = NULL /\ returned[t] = "create failed"
  ELSE /\ arg[t] \in Surface
       /\ old_cs[t] = t
       /\ current[t] = IF pc[t] \in Contextless THEN t ELSE arg[t]
       /\ objects[arg[t]] = ObjectsAt(pc[t])
       /\ depth[arg[t]] = IF pc[t] \in Pushed THEN 1 ELSE 0
       /\ pc[t] \in Unbinding => is_bound[arg[t]] = FALSE

(* No two threads work on the same surface.                                *)
Exclusive ==
  \A t, u \in Thread : t # u /\ arg[t] \in Surface => arg[t] # arg[u]

(* One trap at a time: it has the error handler, and the application's is  *)
(* kept.                                                                   *)
TrapInv ==
  ~overlapped =>
    /\ \A t, u \in Thread : Inside(t) /\ Inside(u) => t = u
    /\ handler = IF \E t \in Thread : Inside(t) THEN "error_handler"
                 ELSE "application"
    /\ \A t \in Thread : Inside(t) => old_error_handler = "application"

(* The library knows which pixmaps are bound, except that a request it     *)
(* has just made may have bound one, and that another's error in the trap  *)
(* of a bind makes it misread what became of it.                           *)
JustBound(t) == pc[t] = Untrap("bind") /\ x11_error_code = FALSE

PixmapInv ==
  ~overlapped =>
    /\ \A s \in bound \ misread : \/ is_bound[s] = TRUE
                                  \/ \E t \in Thread : arg[t] = s /\ JustBound(t)
    /\ \A t \in Thread, r \in Unbinds :
         pc[t] = Untrap(r) /\ x11_error_code = FALSE => arg[t] \notin bound
    /\ \A t \in Thread :
         pc[t] = Request("bind") /\ x11_error_code = TRUE => arg[t] \in misread

Ownership == /\ Implementation
             /\ \A t \in Thread : WorksOn(t)
             /\ Exclusive /\ StateBalanced /\ ObjectsOwned

IInv == TypeOK /\ Ownership /\ TrapInv /\ PixmapInv

-----------------------------------------------------------------------------
(* What a step of one thread leaves alone: the other threads, and the      *)
(* surfaces that it does not work on.                                      *)
OthersKept(t) ==
  /\ \A u \in Thread \ {t} :
       /\ pc'[u] = pc[u] /\ arg'[u] = arg[u] /\ current'[u] = current[u]
       /\ old_cs'[u] = old_cs[u] /\ returned'[u] = returned[u]
  /\ \A s \in Surface \ {arg[t]} :
       /\ objects'[s] = objects[s] /\ depth'[s] = depth[s]
       /\ is_bound'[s] = is_bound[s]
  /\ UNCHANGED <<impl, vtable_glx>>

(* A thread that leaves a surface leaves it balanced and whole.            *)
LeftWhole(t) ==
  arg[t] \in Surface => /\ depth'[arg[t]] = 0
                        /\ objects'[arg[t]] \in {{}, Object}

(* The thread stays with its surface, begins with one that nobody has, or  *)
(* leaves it whole.                                                        *)
LEMMA ThreadStep ==
  ASSUME IInv, TypeOK', NEW t \in Thread, OthersKept(t), WorksOn(t)', ~vtable_glx,
         \/ arg'[t] = arg[t]
         \/ arg[t] = NULL /\ \A u \in Thread : arg[u] # arg'[t]
         \/ arg'[t] = NULL /\ LeftWhole(t)
  PROVE  Ownership'
<1> USE GlxAssumption
<1>1. Implementation'
  BY DEF OthersKept, IInv, Ownership, Implementation
<1>2. Exclusive'
  <2> SUFFICES ASSUME NEW u \in Thread, NEW v \in Thread, u # v, arg'[u] \in Surface
               PROVE  arg'[u] # arg'[v]
    BY DEF Exclusive
  <2> QED
    BY DEF OthersKept, IInv, Ownership, Exclusive, TypeOK
<1>3. ASSUME NEW u \in Thread PROVE WorksOn(u)'
  <2>1. CASE u = t
    BY <2>1
  <2>2. CASE u # t
    <3>1. WorksOn(u)
      BY DEF IInv, Ownership
    <3>2. /\ pc'[u] = pc[u] /\ arg'[u] = arg[u] /\ current'[u] = current[u]
          /\ old_cs'[u] = old_cs[u] /\ returned'[u] = returned[u]
      BY <2>2 DEF OthersKept
    <3>3. CASE pc[u] = <<"app">>
      BY <3>1, <3>2, <3>3 DEF WorksOn
    <3>4. CASE pc[u] # <<"app">>
      <4>1. arg[u] \in Surface /\ arg[u] # arg[t]
        BY <2>2, <3>1, <3>4 DEF WorksOn, IInv, Ownership, Exclusive
      <4>2. /\ objects'[arg[u]] = objects[arg[u]] /\ depth'[arg[u]] = depth[arg[u]]
            /\ is_bound'[arg[u]] = is_bound[arg[u]]
        BY <4>1 DEF OthersKept
      <4> QED
        BY <3>1, <3>2, <3>4, <4>1, <4>2, Zenon DEF WorksOn
    <3> QED
      BY <3>3, <3>4
  <2> QED
    BY <2>1, <2>2
<1>4. ASSUME NEW s \in Surface, \A u \in Thread : arg'[u] # s
      PROVE  depth'[s] = 0 /\ objects'[s] \in {{}, Object}
  <2>1. CASE arg[t] = s
    BY <1>4, <2>1 DEF LeftWhole
  <2>2. CASE arg[t] # s
    <3>1. \A u \in Thread : arg[u] # s
      BY <1>4, <2>2 DEF OthersKept
    <3> QED
      BY <2>2, <3>1 DEF OthersKept, IInv, Ownership, StateBalanced, ObjectsOwned
  <2> QED
    BY <2>1, <2>2
<1>5. StateBalanced' /\ ObjectsOwned'
  BY <1>4, Zenon DEF StateBalanced, ObjectsOwned
<1> QED
  BY <1>1, <1>2, <1>3, <1>5 DEF Ownership

(* A step that leaves the trap alone and is not inside of it.              *)
LEMMA OutsideStep ==
  ASSUME TrapInv, NEW t \in Thread, UNCHANGED trap_vars, pc \in [Thread -> Label],
         \A u \in Thread \ {t} : pc'[u] = pc[u], ~Inside(t), ~Inside(t)'
  PROVE  TrapInv'
<1>1. \A u \in Thread : Inside(u)' <=> Inside(u)
  BY DEF Inside
<1> QED
  BY <1>1 DEF TrapInv, trap_vars

(* Nor does it change what is bound.                                       *)
LEMMA QuietStep ==
  ASSUME PixmapInv, NEW t \in Thread, UNCHANGED <<trap_vars, is_bound, bound>>,
         \A u \in Thread \ {t} : pc'[u] = pc[u] /\ arg'[u] = arg[u],
         ~Inside(t), ~Inside(t)'
  PROVE  PixmapInv'
<1>1. \A r \in Requests : pc[t] # Untrap(r) /\ pc'[t] # Untrap(r)
  BY DEF Inside
<1>2. \A u \in Thread, r \in Requests :
        pc[u] = Untrap(r) \/ pc'[u] = Untrap(r) =>
          u # t /\ pc'[u] = pc[u] /\ arg'[u] = arg[u]
  BY <1>1
<1>3. /\ \A u \in Thread : JustBound(u) => JustBound(u)' /\ arg'[u] = arg[u]
      /\ \A u \in Thread, r \in Unbinds :
           pc'[u] = Untrap(r) => pc[u] = Untrap(r) /\ arg'[u] = arg[u]
      /\ \A u \in Thread :
           pc'[u] = Request("bind") => pc[u] = Request("bind") /\ arg'[u] = arg[u]
  <2>1. pc'[t] # Request("bind")
    BY DEF Inside, Requests
  <2> QED
    BY <1>2, <2>1 DEF JustBound, trap_vars, Requests
<1>4. UNCHANGED <<overlapped, x11_error_code, misread, is_bound, bound>>
  BY DEF trap_vars
<1> QED
  BY <1>3, <1>4 DEF PixmapInv

-----------------------------------------------------------------------------
(* No surface exists and no trap is set at the start.                      *)
LEMMA InitIInv == Init => IInv
<1> SUFFICES ASSUME Init PROVE IInv
  OBVIOUS
<1>1. TypeOK
  BY DEF Init, TypeOK, Label, Status
<1>2. Ownership
  BY GlxAssumption
     DEF Init, Ownership, Implementation, WorksOn, Exclusive, StateBalanced, ObjectsOwned
<1>3. \A t \in Thread : ~Inside(t) /\ pc[t] # Request("bind")
  BY DEF Init, Inside, Request, Untrap
<1>4. TrapInv /\ PixmapInv
  BY <1>3 DEF Init, TrapInv, PixmapInv, Inside
<1> QED
  BY <1>1, <1>2, <1>4 DEF IInv

(* The display is set up and destroyed while no call is inside.            *)
LEMMA DisplayIInv ==
  IInv /\ (vaGetDisplayGLX \/ va_glx_init_context \/ va_DisplayContextDestroy)
    => IInv'
<1> SUFFICES ASSUME IInv,
                    vaGetDisplayGLX \/ va_glx_init_context \/ va_DisplayContextDestroy
             PROVE  IInv'
  OBVIOUS
<1>1. UNCHANGED <<vtable_glx, surface_vars, trap_vars, thread_vars>>
  BY DEF vaGetDisplayGLX, va_glx_init_context, va_DisplayContextDestroy
<1>2. \/ impl' = impl \/ impl' = "none"
      \/ impl' = IF vtable_glx THEN "driver" ELSE "libva"
  BY DEF vaGetDisplayGLX, va_glx_init_context, va_DisplayContextDestroy
<1>3. TypeOK' /\ Implementation'
  BY <1>1, <1>2 DEF IInv, TypeOK, Ownership, Implementation, surface_vars, trap_vars, thread_vars
<1>4. (\A t \in Thread : WorksOn(t)') /\ Exclusive' /\ StateBalanced' /\ ObjectsOwned'
  BY <1>1 DEF IInv, Ownership, WorksOn, Exclusive, StateBalanced, ObjectsOwned,
              surface_vars, thread_vars
<1>5. TrapInv' /\ PixmapInv'
  BY <1>1 DEF IInv, TrapInv, PixmapInv, JustBound, Inside, surface_vars, trap_vars,
              thread_vars
<1> QED
  BY <1>3, <1>4, <1>5 DEF IInv, Ownership

(* Nothing is current that a thread without a call could take from another.*)
LEMMA AppMakeCurrentIInv ==
  ASSUME IInv, NEW t \in Thread, AppMakeCurrent(t) PROVE IInv'
<1>1. pc[t] = <<"app">> /\ pc'[t] = <<"app">> /\ ~Inside(t) /\ ~Inside(t)'
  BY DEF AppMakeCurrent, Inside, Request, Untrap
<1>2. TypeOK'
  BY DEF AppMakeCurrent, MakeCurrent, IInv, TypeOK, surface_vars, trap_vars, glx_vars
<1>3. OthersKept(t) /\ WorksOn(t)' /\ arg'[t] = arg[t] /\ ~vtable_glx
  <2>1. current[t] # t
    BY GlxAssumption DEF AppMakeCurrent
  <2> QED
    BY <1>1, <2>1 DEF AppMakeCurrent, MakeCurrent, OthersKept, WorksOn, IInv, TypeOK, Ownership,
            Implementation, surface_vars, glx_vars
<1>4. Ownership'
  BY <1>2, <1>3, ThreadStep
<1>5. TrapInv'
  BY <1>1, OutsideStep DEF AppMakeCurrent, IInv, TypeOK
<1>6. PixmapInv'
  BY <1>1, QuietStep DEF AppMakeCurrent, IInv, surface_vars
<1> QED
  BY <1>2, <1>4, <1>5, <1>6 DEF IInv

(* What the driver implements itself finds no call of libva's own.         *)
LEMMA ForwardedIInv ==
  ASSUME IInv, NEW t \in Thread, Forwarded(t) PROVE IInv'
<1>1. pc[t] = <<"app">> /\ ~Inside(t) /\ ~Inside(t)' /\ pc' = pc
  BY DEF Forwarded, Inside, Request, Untrap
<1>2. TypeOK'
  BY DEF Forwarded, IInv, TypeOK, Status, surface_vars, trap_vars, glx_vars
<1>3. \A u \in Thread : current[u] = u /\ pc[u] = <<"app">>
  BY DEF Forwarded, IInv, Ownership, Implementation
<1>4. \A u \in Thread : WorksOn(u)'
  BY <1>3 DEF Forwarded, IInv, Ownership, WorksOn
<1>5. Ownership'
  BY <1>4 DEF Forwarded, IInv, Ownership, Implementation, Exclusive, StateBalanced,
              ObjectsOwned, glx_vars, surface_vars
<1>6. TrapInv'
  BY <1>1, OutsideStep DEF Forwarded, IInv, TypeOK
<1>7. PixmapInv'
  BY <1>1, QuietStep DEF Forwarded, IInv, surface_vars
<1> QED
  BY <1>2, <1>5, <1>6, <1>7 DEF IInv

-----------------------------------------------------------------------------
(* What the places are, by the request they belong to.                     *)
LEMMA TrapPlaces ==
  ASSUME NEW r \in Requests, NEW l \in {Trap(r), Request(r), Untrap(r)}
  PROVE  /\ l \in Label /\ l # <<"app">> /\ l \notin Contextless
         /\ l \in Pushed <=> r \in {"bind", "end_render"}
         /\ l \in Unbinding <=> r \in {"put", "bind"}
         /\ r # "create_tfp" => ObjectsAt(l) = Object
         /\ r = "create_tfp" => ObjectsAt(l) = {"context", "struct", "pixmap"}
<1>1. r \in {"create_tfp", "put", "bind", "associate", "end_render", "deassociate", "destroy"}
  BY DEF Requests, Unbinds
<1>2. \A R : l \in Trapped(R) <=> r \in R
  BY DEF Trap, Request, Untrap, Trapped
<1>3. /\ \A p : l # <<p>>
      /\ \A p : l # Unbound(p)
  BY DEF Trap, Request, Untrap, Unbound
<1>4. l \in Pushed <=> r \in {"bind", "end_render"}
  BY <1>2, <1>3 DEF Pushed
<1>5. l \in Unbinding <=> r \in {"put", "bind"}
  BY <1>2, <1>3 DEF Unbinding
<1>6. l \in Label /\ l # <<"app">> /\ l \notin Contextless
  BY <1>1, <1>2, <1>3, <1>4, <1>5 DEF Label, Creating, Working, Contextless
<1> QED
  BY <1>2, <1>3, <1>4, <1>5, <1>6 DEF ObjectsAt

(* The places after an unbind.                                             *)
LEMMA UnboundPlaces ==
  ASSUME NEW r \in {"associate", "deassociate", "destroy"}
  PROVE  /\ Unbound(r) \in Label /\ Unbound(r) # <<"app">>
         /\ Unbound(r) \notin Contextless /\ Unbound(r) \notin Pushed
         /\ Unbound(r) \in Unbinding <=> r = "associate"
         /\ ObjectsAt(Unbound(r)) = Object
<1> USE DEF Trap, Request, Untrap, Unbound, Trapped
<1>1. Unbound(r) \in Label
  BY DEF Label, Working, Unbinding
<1>2. Unbound(r) \notin Contextless /\ Unbound(r) \notin Pushed
  BY DEF Contextless, Pushed
<1>3. Unbound(r) \in Unbinding <=> r = "associate"
  BY DEF Unbinding
<1> QED
  BY <1>1, <1>2, <1>3 DEF ObjectsAt

(* The places that are not at a request.                                   *)
Plain == {"create_context", "create_current", "create_surface", "create_fbo", "sync",
          "render", "leave", "leave failed", "enter", "done", "fail"}

(* Each of the plain places.                                               *)
LEMMA PlainPlaces ==
  ASSUME NEW p \in Plain
  PROVE  /\ <<p>> \in Label /\ <<p>> # <<"app">>
         /\ <<p>> \in Contextless <=> p \in {"create_context", "create_current"}
         /\ <<p>> \in Pushed <=> p \in {"sync", "render", "leave", "leave failed"}
         /\ <<p>> \in Unbinding <=> p \in {"enter", "sync"}
         /\ ObjectsAt(<<p>>) =
              IF p = "create_context" THEN {}
              ELSE IF p \in {"create_current", "create_surface"} THEN {"context"}
              ELSE IF p = "create_fbo" THEN Object \ {"fbo"} ELSE Object
<1> USE DEF Trap, Request, Untrap, Unbound, Trapped, Plain
<1>1. <<p>> \in Label
  BY DEF Label, Working, Unbinding, Creating, Pushed, Contextless
<1>2. /\ <<p>> \in Contextless <=> p \in {"create_context", "create_current"}
      /\ <<p>> \in Pushed <=> p \in {"sync", "render", "leave", "leave failed"}
      /\ <<p>> \in Unbinding <=> p \in {"enter", "sync"}
  BY DEF Contextless, Pushed, Unbinding
<1>3. <<p>> \notin Trapped({"create_tfp"})
  OBVIOUS
<1> QED
  BY <1>1, <1>2, <1>3 DEF ObjectsAt

(* The places of a request are the inside of the trap, and only they.      *)
LEMMA InsidePlaces ==
  /\ \A p \in Plain \cup {"app"} : \A r :
       <<p>> # Request(r) /\ <<p>> # Untrap(r) /\ <<p>> # Trap(r)
  /\ \A p, r : /\ Trap(p) # Request(r) /\ Trap(p) # Untrap(r)
               /\ Request(p) # Untrap(r)
               /\ Unbound(p) # Trap(r) /\ Unbound(p) # Request(r) /\ Unbound(p) # Untrap(r)
               /\ (Trap(p) = Trap(r) \/ Request(p) = Request(r) \/ Untrap(p) = Untrap(r)
                    => p = r)
  BY DEF Trap, Request, Untrap, Unbound

-----------------------------------------------------------------------------
(* A thread inside of a call.                                              *)
LEMMA InCall ==
  ASSUME IInv, NEW t \in Thread, pc[t] # <<"app">>
  PROVE  /\ arg[t] \in Surface /\ arg[t] # NULL /\ arg[t] # t
         /\ old_cs[t] = t /\ ~vtable_glx
         /\ current[t] = IF pc[t] \in Contextless THEN t ELSE arg[t]
         /\ objects[arg[t]] = ObjectsAt(pc[t])
         /\ depth[arg[t]] = IF pc[t] \in Pushed THEN 1 ELSE 0
         /\ pc[t] \in Unbinding => is_bound[arg[t]] = FALSE
<1>1. WorksOn(t) /\ Implementation
  BY DEF IInv, Ownership
<1>2. ~vtable_glx
  BY <1>1 DEF Implementation
<1>3. arg[t] \in Surface => arg[t] # NULL /\ arg[t] # t
  BY GlxAssumption
<1> QED
  BY <1>1, <1>2, <1>3, Zenon DEF WorksOn

(* The call goes on with its surface ...                                   *)
LEMMA GoesOn ==
  ASSUME IInv, TypeOK', NEW t \in Thread, OthersKept(t),
         pc[t] # <<"app">>, pc'[t] # <<"app">>,
         arg'[t] = arg[t], old_cs'[t] = old_cs[t],
         current'[t] = IF pc'[t] \in Contextless THEN t ELSE arg[t],
         objects'[arg[t]] = ObjectsAt(pc'[t]),
         depth'[arg[t]] = IF pc'[t] \in Pushed THEN 1 ELSE 0,
         pc'[t] \in Unbinding => is_bound'[arg[t]] = FALSE
  PROVE  Ownership'
<1>1. arg[t] \in Surface /\ old_cs[t] = t /\ ~vtable_glx
  BY InCall
<1>2. WorksOn(t)'
  BY <1>1, Zenon DEF WorksOn
<1> QED
  BY <1>1, <1>2, ThreadStep

(* ... or leaves it.                                                       *)
LEMMA Leaves ==
  ASSUME IInv, TypeOK', NEW t \in Thread, OthersKept(t),
         pc[t] # <<"app">>, pc'[t] = <<"app">>, arg'[t] = NULL,
         current'[t] = t \/ (current'[t] = NULL /\ returned'[t] = "create failed"),
         depth'[arg[t]] = 0, objects'[arg[t]] \in {{}, Object}
  PROVE  Ownership'
<1>1. ~vtable_glx
  BY InCall
<1>2. WorksOn(t)' /\ LeftWhole(t)
  BY DEF WorksOn, LeftWhole
<1> QED
  BY <1>1, <1>2, ThreadStep

(* Outside of the trap, the call has not gone in or out of it.             *)
LEMMA OutsideOfTrap ==
  ASSUME NEW t \in Thread, \/ pc[t] \in {<<p>> : p \in Plain \cup {"app"}}
                           \/ \E r : pc[t] \in {Trap(r), Unbound(r)}
  PROVE  ~Inside(t)
  BY InsidePlaces DEF Inside

-----------------------------------------------------------------------------
(* The error path of vaCreateSurfaceGLX, wherever it is taken.             *)
LEMMA CreateFailsOwnership ==
  ASSUME IInv, NEW t \in Thread, CreateFails(t, arg[t]),
         pc[t] # <<"app">>, pc[t] \notin Pushed,
         UNCHANGED <<glx_vars, is_bound, bound, associated, depth, old_cs>>,
         x11_error_code' \in BOOLEAN, overlapped' \in BOOLEAN, misread' \subseteq Surface
  PROVE  /\ TypeOK' /\ Ownership' /\ pc'[t] = <<"app">> /\ OthersKept(t)
<1>1. /\ arg[t] \in Surface /\ depth[arg[t]] = 0
      /\ current[t] \in {t, arg[t]} /\ t # arg[t]
  BY InCall
<1>2. TypeOK
  BY DEF IInv
<1>3. /\ pc' = [pc EXCEPT ![t] = <<"app">>] /\ arg' = [arg EXCEPT ![t] = NULL]
      /\ returned' = [returned EXCEPT ![t] = "create failed"]
      /\ objects' = [objects EXCEPT ![arg[t]] = {}]
      /\ current' = [current EXCEPT ![t] = IF current[t] = arg[t] THEN NULL ELSE current[t]]
  BY DEF CreateFails, Returns, Goto, Has, MakeCurrent
<1>4. /\ pc'[t] = <<"app">> /\ arg'[t] = NULL /\ returned'[t] = "create failed"
      /\ objects'[arg[t]] = {} /\ current'[t] \in {t, NULL}
  BY <1>1, <1>2, <1>3 DEF TypeOK
<1>5. TypeOK'
  <2>1. pc' \in [Thread -> Label]
    BY <1>2, <1>3 DEF TypeOK, Label
  <2>2. current' \in [Thread -> Thread \cup Surface \cup {NULL}]
    BY <1>1, <1>2, <1>3 DEF TypeOK
  <2> QED
    BY <2>1, <2>2, <1>2, <1>3 DEF TypeOK, Status, glx_vars
<1>6. OthersKept(t)
  BY <1>2, <1>3 DEF OthersKept, TypeOK, glx_vars
<1>7. depth'[arg[t]] = 0
  BY <1>1
<1>8. Ownership'
  BY <1>4, <1>5, <1>6, <1>7, Leaves
<1> QED
  BY <1>4, <1>5, <1>6, <1>8

(* What is left of a step outside of the trap that binds nothing.          *)
LEMMA QuietIInv ==
  ASSUME IInv, NEW t \in Thread, UNCHANGED <<trap_vars, is_bound, bound>>, OthersKept(t),
         TypeOK', Ownership', ~Inside(t), ~Inside(t)'
  PROVE  IInv'
<1>1. TrapInv'
  BY OutsideStep DEF IInv, TypeOK, OthersKept
<1>2. PixmapInv'
  BY QuietStep DEF IInv, OthersKept
<1> QED
  BY <1>1, <1>2 DEF IInv

(* The new context exists, or the surface is given up.                     *)
LEMMA gl_create_contextIInv ==
  ASSUME IInv, NEW t \in Thread, gl_create_context(t) PROVE IInv'
<1>1. pc[t] = <<"create_context">> /\ pc[t] # <<"app">> /\ pc[t] \notin Pushed /\ ~Inside(t)
  BY PlainPlaces, OutsideOfTrap DEF gl_create_context, Plain
<1>2. arg[t] \in Surface /\ depth[arg[t]] = 0 /\ current[t] = t
  BY <1>1, InCall, PlainPlaces, ZenonT(60) DEF Plain
<1>3. TypeOK /\ UNCHANGED <<glx_vars, is_bound, bound, associated, depth, trap_vars, old_cs>>
  BY DEF gl_create_context, IInv
<1>4. CASE Has(arg[t], {"context"}) /\ Goto(t, <<"create_current">>)
             /\ UNCHANGED <<current, arg, returned>>
  <2>1. /\ pc' = [pc EXCEPT ![t] = <<"create_current">>]
        /\ objects' = [objects EXCEPT ![arg[t]] = {"context"}]
    BY <1>4 DEF Goto, Has
  <2>2. /\ pc'[t] = <<"create_current">> /\ objects'[arg[t]] = {"context"}
        /\ pc' \in [Thread -> Label] /\ objects' \in [Surface -> SUBSET Object]
    BY <1>2, <1>3, <2>1, PlainPlaces DEF TypeOK, Plain, Object
  <2>3. TypeOK'
    BY <1>3, <1>4, <2>2 DEF TypeOK, glx_vars, trap_vars
  <2>4. OthersKept(t)
    BY <1>3, <1>4, <2>1 DEF TypeOK, OthersKept, glx_vars
  <2>5. Ownership'
    BY <1>1, <1>2, <1>3, <1>4, <2>2, <2>3, <2>4, PlainPlaces, GoesOn DEF Plain
  <2>6. ~Inside(t)'
    BY <2>2, InsidePlaces DEF Inside, Plain
  <2> QED
    BY <1>1, <1>3, <2>3, <2>4, <2>5, <2>6, QuietIInv
<1>5. CASE CreateFails(t, arg[t])
  BY <1>1, <1>3, <1>5, CreateFailsOwnership, QuietIInv, InsidePlaces
     DEF Inside, IInv, TypeOK, trap_vars
<1> QED
  BY <1>4, <1>5 DEF gl_create_context
(* The new context gets current: nobody else has the surface.              *)
LEMMA gl_set_current_contextIInv ==
  ASSUME IInv, NEW t \in Thread, gl_set_current_context(t) PROVE IInv'
<1>1. pc[t] = <<"create_current">> /\ pc[t] # <<"app">> /\ pc[t] \notin Pushed /\ ~Inside(t)
  BY PlainPlaces, OutsideOfTrap DEF gl_set_current_context, Plain
<1>2. arg[t] \in Surface /\ depth[arg[t]] = 0 /\ objects[arg[t]] = {"context"}
  BY <1>1, InCall, PlainPlaces, ZenonT(60) DEF Plain
<1>3. TypeOK /\ UNCHANGED <<glx_vars, is_bound, bound, associated, depth, trap_vars, old_cs>>
  BY DEF gl_set_current_context, IInv
<1>4. CASE MakeCurrent(t, arg[t]) /\ Goto(t, <<"create_surface">>)
             /\ UNCHANGED <<objects, arg, returned>>
  <2>1. /\ pc' = [pc EXCEPT ![t] = <<"create_surface">>]
        /\ current' = [current EXCEPT ![t] = arg[t]]
    BY <1>4 DEF Goto, MakeCurrent
  <2>2. /\ pc'[t] = <<"create_surface">> /\ current'[t] = arg[t]
        /\ pc' \in [Thread -> Label]
        /\ current' \in [Thread -> Thread \cup Surface \cup {NULL}]
    BY <1>2, <1>3, <2>1, PlainPlaces DEF TypeOK, Plain
  <2>3. TypeOK'
    BY <1>3, <1>4, <2>2 DEF TypeOK, glx_vars, trap_vars
  <2>4. OthersKept(t)
    BY <1>3, <1>4, <2>1 DEF TypeOK, OthersKept, glx_vars
  <2>5. Ownership'
    BY <1>1, <1>2, <1>3, <1>4, <2>2, <2>3, <2>4, PlainPlaces, GoesOn DEF Plain
  <2>6. ~Inside(t)'
    BY <2>2, InsidePlaces DEF Inside, Plain
  <2> QED
    BY <1>1, <1>3, <2>3, <2>4, <2>5, <2>6, QuietIInv
<1>5. CASE CreateFails(t, arg[t])
  BY <1>1, <1>3, <1>5, CreateFailsOwnership, QuietIInv, InsidePlaces
     DEF Inside, IInv, TypeOK, trap_vars
<1> QED
  BY <1>4, <1>5 DEF gl_set_current_context

(* Memory and pixmap.                                                      *)
LEMMA create_surfaceIInv ==
  ASSUME IInv, NEW t \in Thread, create_surface(t) PROVE IInv'
<1>1. /\ pc[t] = <<"create_surface">> /\ pc[t] # <<"app">> /\ pc[t] \notin Pushed
      /\ pc[t] \notin Contextless /\ ~Inside(t)
  BY PlainPlaces, OutsideOfTrap DEF create_surface, Plain
<1>2. arg[t] \in Surface /\ depth[arg[t]] = 0 /\ current[t] = arg[t]
  BY <1>1, InCall
<1>3. TypeOK /\ UNCHANGED <<glx_vars, is_bound, bound, associated, depth, trap_vars, old_cs>>
  BY DEF create_surface, IInv
<1>4. CASE Has(arg[t], {"context", "struct", "pixmap"}) /\ Goto(t, Trap("create_tfp"))
             /\ UNCHANGED <<current, arg, returned>>
  <2>1. /\ pc' = [pc EXCEPT ![t] = Trap("create_tfp")]
        /\ objects' = [objects EXCEPT ![arg[t]] = {"context", "struct", "pixmap"}]
    BY <1>4 DEF Goto, Has
  <2>2. /\ pc'[t] = Trap("create_tfp") /\ pc' \in [Thread -> Label]
        /\ objects'[arg[t]] = {"context", "struct", "pixmap"}
        /\ objects' \in [Surface -> SUBSET Object]
    BY <1>2, <1>3, <2>1, TrapPlaces DEF TypeOK, Requests, Object
  <2>3. TypeOK'
    BY <1>3, <1>4, <2>2 DEF TypeOK, glx_vars, trap_vars
  <2>4. OthersKept(t)
    BY <1>3, <1>4, <2>1 DEF TypeOK, OthersKept, glx_vars
  <2>5. Ownership'
    BY <1>1, <1>2, <1>3, <1>4, <2>2, <2>3, <2>4, TrapPlaces, GoesOn DEF Requests
  <2>6. ~Inside(t)'
    BY <2>2, InsidePlaces DEF Inside
  <2> QED
    BY <1>1, <1>3, <2>3, <2>4, <2>5, <2>6, QuietIInv
<1>5. CASE CreateFails(t, arg[t])
  BY <1>1, <1>3, <1>5, CreateFailsOwnership, QuietIInv, InsidePlaces
     DEF Inside, IInv, TypeOK, trap_vars
<1> QED
  BY <1>4, <1>5 DEF create_surface

(* A call that puts the caller's context back.                             *)
LEMMA RestoresOwnership ==
  ASSUME IInv, NEW t \in Thread, NEW status \in Status, Restores(t, status),
         pc[t] # <<"app">>, pc[t] \notin Pushed, TypeOK', OthersKept(t),
         UNCHANGED depth, objects'[arg[t]] \in {{}, Object}
  PROVE  Ownership' /\ pc'[t] = <<"app">> /\ ~Inside(t)'
<1>1. arg[t] \in Surface /\ depth[arg[t]] = 0 /\ old_cs[t] = t
  BY InCall
<1>2. pc'[t] = <<"app">> /\ arg'[t] = NULL /\ current'[t] = t
  BY <1>1 DEF Restores, Returns, Goto, MakeCurrent, IInv, TypeOK
<1>3. ~Inside(t)'
  BY <1>2, InsidePlaces DEF Inside
<1>4. depth'[arg[t]] = 0
  BY <1>1
<1> QED
  BY <1>2, <1>3, <1>4, Leaves

(* What gl_set_current_context(&old_cs, NULL) leaves.                      *)
LEMMA RestoresTypes ==
  ASSUME TypeOK, NEW t \in Thread, NEW status \in Status, Restores(t, status),
         old_cs[t] = t
  PROVE  /\ pc' \in [Thread -> Label] /\ arg' \in [Thread -> Surface \cup {NULL}]
         /\ current' \in [Thread -> Thread \cup Surface \cup {NULL}]
         /\ old_cs' \in [Thread -> Thread \cup {NULL}]
         /\ returned' \in [Thread -> Status]
         /\ \A u \in Thread \ {t} :
              /\ pc'[u] = pc[u] /\ arg'[u] = arg[u] /\ current'[u] = current[u]
              /\ old_cs'[u] = old_cs[u] /\ returned'[u] = returned[u]
  BY DEF Restores, Returns, Goto, MakeCurrent, TypeOK, Label

(* The surface is complete, or destroyed.                                  *)
LEMMA create_fbo_surfaceIInv ==
  ASSUME IInv, NEW t \in Thread, create_fbo_surface(t) PROVE IInv'
<1>1. pc[t] = <<"create_fbo">> /\ pc[t] # <<"app">> /\ pc[t] \notin Pushed /\ ~Inside(t)
  BY PlainPlaces, OutsideOfTrap DEF create_fbo_surface, Plain
<1>2. arg[t] \in Surface /\ old_cs[t] = t
  BY <1>1, InCall
<1>3. TypeOK /\ UNCHANGED <<glx_vars, is_bound, bound, associated, depth, trap_vars>>
  BY DEF create_fbo_surface, IInv
<1>4. CASE Has(arg[t], Object) /\ Restores(t, "created")
  <2>1. objects' = [objects EXCEPT ![arg[t]] = Object] /\ "created" \in Status
    BY <1>4 DEF Has, Status
  <2>2. objects'[arg[t]] = Object /\ objects' \in [Surface -> SUBSET Object]
    BY <1>2, <1>3, <2>1 DEF TypeOK
  <2>3. TypeOK'
    BY <1>2, <1>3, <1>4, <2>1, <2>2, RestoresTypes DEF TypeOK, glx_vars, trap_vars
  <2>4. OthersKept(t)
    BY <1>2, <1>3, <1>4, <2>1, RestoresTypes DEF TypeOK, OthersKept, glx_vars
  <2>5. Ownership' /\ ~Inside(t)'
    BY <1>1, <1>3, <1>4, <2>1, <2>2, <2>3, <2>4, RestoresOwnership
  <2> QED
    BY <1>1, <1>3, <2>3, <2>4, <2>5, QuietIInv
<1>5. CASE DestroysPartial(t, arg[t]) /\ UNCHANGED old_cs
  BY <1>1, <1>3, <1>5, CreateFailsOwnership, QuietIInv, InsidePlaces
     DEF Inside, IInv, TypeOK, trap_vars, DestroysPartial
<1> QED
  BY <1>4, <1>5 DEF create_fbo_surface

-----------------------------------------------------------------------------
(* A copy goes on to another place with nothing changed that Ownership     *)
(* speaks of.                                                              *)
LEMMA MovesOn ==
  ASSUME IInv, TypeOK', NEW t \in Thread, NEW label \in Label, Goto(t, label),
         pc[t] # <<"app">>, label # <<"app">>,
         pc[t] \notin Contextless, label \notin Contextless,
         ObjectsAt(label) = ObjectsAt(pc[t]),
         UNCHANGED <<glx_vars, objects, current, old_cs, arg, returned>>,
         label \in Unbinding => is_bound'[arg[t]] = FALSE,
         depth'[arg[t]] = IF label \in Pushed THEN 1 ELSE 0,
         \A s \in Surface \ {arg[t]} : depth'[s] = depth[s] /\ is_bound'[s] = is_bound[s]
  PROVE  OthersKept(t) /\ Ownership' /\ pc'[t] = label
<1>1. TypeOK /\ pc' = [pc EXCEPT ![t] = label]
  BY DEF Goto, IInv
<1>2. pc'[t] = label /\ \A u \in Thread \ {t} : pc'[u] = pc[u]
  BY <1>1 DEF TypeOK
<1>3. OthersKept(t)
  BY <1>2 DEF OthersKept, glx_vars
<1>4. current[t] = arg[t] /\ objects[arg[t]] = ObjectsAt(pc[t])
  BY InCall
<1> QED
  BY <1>2, <1>3, <1>4, GoesOn

(* A thread only goes to places there are.                                 *)
LEMMA GotoTypes ==
  ASSUME TypeOK, NEW t \in Thread, NEW label \in Label, Goto(t, label)
  PROVE  pc' \in [Thread -> Label]
  BY DEF TypeOK, Goto

(* Between an unbind and the next step.                                    *)
LEMMA deassociate_surfaceIInv ==
  ASSUME IInv, NEW t \in Thread, deassociate_surface(t) PROVE IInv'
<1> DEFINE label == IF pc[t] = Unbound("associate") THEN Trap("put") ELSE <<"done">>
<1>1. /\ pc[t] \in {Unbound("associate"), Unbound("deassociate")} /\ Goto(t, label)
      /\ associated' = [associated EXCEPT ![arg[t]] = FALSE]
      /\ UNCHANGED <<glx_vars, objects, is_bound, bound, depth, trap_vars, current,
                     old_cs, arg, returned>>
  BY DEF deassociate_surface
<1>2. /\ pc[t] # <<"app">> /\ pc[t] \notin Contextless /\ pc[t] \notin Pushed /\ ~Inside(t)
      /\ ObjectsAt(pc[t]) = Object
      /\ pc[t] = Unbound("associate") => pc[t] \in Unbinding
  BY <1>1, UnboundPlaces, InsidePlaces DEF Inside
<1>3. /\ label \in Label /\ label # <<"app">> /\ label \notin Contextless
      /\ label \notin Pushed /\ ObjectsAt(label) = Object
      /\ label \in Unbinding => pc[t] \in Unbinding
  <2>1. CASE label = Trap("put") /\ pc[t] = Unbound("associate")
    BY <1>2, <2>1, TrapPlaces DEF Requests
  <2>2. CASE label = <<"done">>
    BY <2>2, PlainPlaces DEF Plain
  <2> QED
    BY <2>1, <2>2
<1>4. \A r \in Requests : label # Request(r) /\ label # Untrap(r)
  BY InsidePlaces DEF Plain
<1> HIDE DEF label
<1>5. arg[t] \in Surface /\ depth[arg[t]] = 0
      /\ (pc[t] \in Unbinding => is_bound[arg[t]] = FALSE)
  BY <1>2, InCall
<1>6. TypeOK'
  BY <1>1, <1>3, <1>5, GotoTypes DEF IInv, TypeOK, glx_vars, trap_vars
<1>7. OthersKept(t) /\ Ownership' /\ pc'[t] = label
  BY <1>1, <1>2, <1>3, <1>5, <1>6, MovesOn
<1>8. ~Inside(t)'
  BY <1>4, <1>7 DEF Inside
<1> QED
  BY <1>1, <1>2, <1>6, <1>7, <1>8, QuietIInv

(* The matrices are pushed.                                                *)
LEMMA fbo_enterIInv ==
  ASSUME IInv, NEW t \in Thread, fbo_enter(t) PROVE IInv'
<1> DEFINE label == <<"sync">>
<1>1. /\ pc[t] = <<"enter">> /\ Goto(t, label)
      /\ depth' = [depth EXCEPT ![arg[t]] = @ + 1]
      /\ UNCHANGED <<glx_vars, objects, is_bound, bound, associated, trap_vars, current,
                     old_cs, arg, returned>>
  BY DEF fbo_enter
<1>2. /\ pc[t] # <<"app">> /\ pc[t] \notin Contextless /\ pc[t] \notin Pushed /\ ~Inside(t)
      /\ pc[t] \in Unbinding /\ ObjectsAt(pc[t]) = Object
  BY <1>1, PlainPlaces, OutsideOfTrap DEF Plain
<1>3. /\ label \in Label /\ label # <<"app">> /\ label \notin Contextless
      /\ label \in Pushed /\ ObjectsAt(label) = Object
  BY PlainPlaces DEF Plain
<1>9. \A r \in Requests : label # Request(r) /\ label # Untrap(r)
  BY InsidePlaces DEF Plain
<1> HIDE DEF label
<1>4. arg[t] \in Surface /\ depth[arg[t]] = 0 /\ is_bound[arg[t]] = FALSE
  BY <1>2, InCall
<1>5. /\ depth'[arg[t]] = 1 /\ depth' \in [Surface -> Nat] /\ is_bound'[arg[t]] = FALSE
      /\ \A s \in Surface \ {arg[t]} : depth'[s] = depth[s] /\ is_bound'[s] = is_bound[s]
  BY <1>1, <1>4 DEF IInv, TypeOK
<1>6. TypeOK'
  BY <1>1, <1>3, <1>5, GotoTypes DEF IInv, TypeOK, glx_vars, trap_vars
<1>7. OthersKept(t) /\ Ownership' /\ pc'[t] = label
  <2>1. depth'[arg[t]] = IF label \in Pushed THEN 1 ELSE 0
    BY <1>3, <1>5
  <2>2. \A s \in Surface \ {arg[t]} : depth'[s] = depth[s] /\ is_bound'[s] = is_bound[s]
    BY <1>5
  <2>3. ObjectsAt(label) = ObjectsAt(pc[t]) /\ is_bound'[arg[t]] = FALSE
    BY <1>2, <1>3, <1>5
  <2>4. UNCHANGED <<glx_vars, objects, current, old_cs, arg, returned>>
    BY <1>1
  <2> QED
    BY <1>1, <1>2, <1>3, <1>6, <2>1, <2>2, <2>3, <2>4, MovesOn
<1>8. ~Inside(t)'
  BY <1>7, <1>9 DEF Inside
<1> QED
  BY <1>1, <1>2, <1>6, <1>7, <1>8, QuietIInv

(* The pixmap is not bound here, so that bind_pixmap has work to do.       *)
LEMMA begin_render_surfaceIInv ==
  ASSUME IInv, NEW t \in Thread, begin_render_surface(t) PROVE IInv'
<1>1. /\ pc[t] = <<"sync">> /\ begin_render(t)
      /\ UNCHANGED <<glx_vars, surface_vars, trap_vars, current, old_cs, arg, returned>>
  BY DEF begin_render_surface
<1>2. /\ pc[t] # <<"app">> /\ pc[t] \notin Contextless /\ pc[t] \in Pushed /\ ~Inside(t)
      /\ pc[t] \in Unbinding /\ ObjectsAt(pc[t]) = Object
  BY <1>1, PlainPlaces, OutsideOfTrap DEF Plain
<1>3. arg[t] \in Surface /\ depth[arg[t]] = 1 /\ is_bound[arg[t]] = FALSE
  BY <1>2, InCall
<1>4. PICK label \in {<<"leave failed">>, Trap("bind")} : Goto(t, label)
  BY <1>1, <1>3 DEF begin_render
<1>5. /\ label \in Label /\ label # <<"app">> /\ label \notin Contextless
      /\ label \in Pushed /\ ObjectsAt(label) = Object
  <2>1. CASE label = <<"leave failed">>
    BY <2>1, PlainPlaces DEF Plain
  <2>2. CASE label = Trap("bind")
    BY <2>2, TrapPlaces DEF Requests
  <2> QED
    BY <2>1, <2>2
<1>6. \A r \in Requests : label # Request(r) /\ label # Untrap(r)
  BY InsidePlaces DEF Plain
<1>7. TypeOK'
  BY <1>1, <1>4, <1>5, GotoTypes DEF IInv, TypeOK, glx_vars, surface_vars, trap_vars
<1>8. OthersKept(t) /\ Ownership' /\ pc'[t] = label
  BY <1>1, <1>2, <1>3, <1>4, <1>5, <1>7, MovesOn DEF surface_vars
<1>9. ~Inside(t)'
  BY <1>6, <1>8 DEF Inside
<1> QED
  BY <1>1, <1>2, <1>7, <1>8, <1>9, QuietIInv DEF surface_vars

(* The pixmap is drawn.                                                    *)
LEMMA render_pixmapIInv ==
  ASSUME IInv, NEW t \in Thread, render_pixmap(t) PROVE IInv'
<1> DEFINE label == Trap("end_render")
<1>1. /\ pc[t] = <<"render">> /\ Goto(t, label)
      /\ UNCHANGED <<glx_vars, surface_vars, trap_vars, current, old_cs, arg, returned>>
  BY DEF render_pixmap
<1>2. /\ pc[t] # <<"app">> /\ pc[t] \notin Contextless /\ pc[t] \in Pushed /\ ~Inside(t)
      /\ ObjectsAt(pc[t]) = Object
  BY <1>1, PlainPlaces, OutsideOfTrap DEF Plain
<1>3. /\ label \in Label /\ label # <<"app">> /\ label \notin Contextless
      /\ label \in Pushed /\ label \notin Unbinding /\ ObjectsAt(label) = Object
  BY TrapPlaces DEF Requests, Unbinds
<1>8. \A r \in Requests : label # Request(r) /\ label # Untrap(r)
  BY InsidePlaces
<1> HIDE DEF label
<1>4. arg[t] \in Surface /\ depth[arg[t]] = 1
  BY <1>2, InCall
<1>5. TypeOK'
  BY <1>1, <1>3, GotoTypes DEF IInv, TypeOK, glx_vars, surface_vars, trap_vars
<1>6. OthersKept(t) /\ Ownership' /\ pc'[t] = label
  BY <1>1, <1>2, <1>3, <1>4, <1>5, MovesOn DEF surface_vars
<1>7. ~Inside(t)'
  BY <1>6, <1>8 DEF Inside
<1> QED
  BY <1>1, <1>2, <1>5, <1>6, <1>7, QuietIInv DEF surface_vars

(* The matrices are popped.                                                *)
LEMMA fbo_leaveIInv ==
  ASSUME IInv, NEW t \in Thread, fbo_leave(t) PROVE IInv'
<1>1. /\ pc[t] \in {<<"leave">>, <<"leave failed">>}
      /\ depth' = [depth EXCEPT ![arg[t]] = @ - 1]
      /\ UNCHANGED <<glx_vars, objects, is_bound, bound, associated, trap_vars, current,
                     old_cs, arg, returned>>
  BY DEF fbo_leave
<1>2. PICK label \in {<<"fail">>, Trap("deassociate"), Unbound("deassociate")} :
        Goto(t, label)
  BY DEF fbo_leave, UnbindFrom
<1>3. /\ pc[t] # <<"app">> /\ pc[t] \notin Contextless /\ pc[t] \in Pushed /\ ~Inside(t)
      /\ ObjectsAt(pc[t]) = Object
  BY <1>1, PlainPlaces, OutsideOfTrap DEF Plain
<1>4. /\ label \in Label /\ label # <<"app">> /\ label \notin Contextless
      /\ label \notin Pushed /\ label \notin Unbinding /\ ObjectsAt(label) = Object
  <2>1. CASE label = <<"fail">>
    BY <2>1, PlainPlaces DEF Plain
  <2>2. CASE label = Trap("deassociate")
    BY <2>2, TrapPlaces DEF Requests, Unbinds
  <2>3. CASE label = Unbound("deassociate")
    BY <2>3, UnboundPlaces
  <2> QED
    BY <2>1, <2>2, <2>3
<1>5. \A r \in Requests : label # Request(r) /\ label # Untrap(r)
  BY InsidePlaces DEF Plain
<1>6. arg[t] \in Surface /\ depth[arg[t]] = 1
  BY <1>3, InCall
<1>7. /\ depth'[arg[t]] = 0 /\ depth' \in [Surface -> Nat]
      /\ \A s \in Surface \ {arg[t]} : depth'[s] = depth[s] /\ is_bound'[s] = is_bound[s]
  <2>1. depth \in [Surface -> Nat] /\ depth[arg[t]] - 1 = 0
    BY <1>6 DEF IInv, TypeOK
  <2>2. depth' = [depth EXCEPT ![arg[t]] = depth[arg[t]] - 1]
    BY <1>1
  <2>3. depth' = [depth EXCEPT ![arg[t]] = 0]
    BY <2>1, <2>2, Zenon
  <2>4. depth'[arg[t]] = 0 /\ depth' \in [Surface -> Nat]
    BY <1>6, <2>1, <2>3
  <2>5. ASSUME NEW s \in Surface \ {arg[t]} PROVE depth'[s] = depth[s] /\ is_bound'[s] = is_bound[s]
    BY <1>1, <2>1, <2>3, <2>5
  <2> QED
    BY <2>4, <2>5
<1>8. TypeOK'
  BY <1>1, <1>2, <1>4, <1>7, GotoTypes DEF IInv, TypeOK, glx_vars, trap_vars
<1>9. OthersKept(t) /\ Ownership' /\ pc'[t] = label
  BY <1>1, <1>2, <1>3, <1>4, <1>7, <1>8, MovesOn
<1>10. ~Inside(t)'
  BY <1>5, <1>9 DEF Inside
<1> QED
  BY <1>1, <1>3, <1>8, <1>9, <1>10, QuietIInv

(* The copy returns.                                                       *)
LEMMA CopyReturnsIInv ==
  ASSUME IInv, NEW t \in Thread, CopyReturns(t) PROVE IInv'
<1>1. /\ pc[t] \in {<<"done">>, <<"fail">>}
      /\ UNCHANGED <<glx_vars, surface_vars, trap_vars>>
  BY DEF CopyReturns
<1>2. PICK status \in Status : Restores(t, status)
  BY DEF CopyReturns, Status
<1>3. /\ pc[t] # <<"app">> /\ pc[t] \notin Pushed /\ ~Inside(t)
      /\ ObjectsAt(pc[t]) = Object
  BY <1>1, PlainPlaces, OutsideOfTrap DEF Plain
<1>4. arg[t] \in Surface /\ old_cs[t] = t /\ objects[arg[t]] = Object
  BY <1>3, InCall
<1>5. TypeOK'
  BY <1>1, <1>2, <1>4, RestoresTypes DEF IInv, TypeOK, glx_vars, surface_vars, trap_vars
<1>6. OthersKept(t)
  BY <1>1, <1>2, <1>4, RestoresTypes DEF IInv, OthersKept, glx_vars, surface_vars
<1>7. Ownership' /\ ~Inside(t)'
  BY <1>1, <1>2, <1>3, <1>4, <1>5, <1>6, RestoresOwnership DEF surface_vars
<1> QED
  BY <1>1, <1>3, <1>5, <1>6, <1>7, QuietIInv DEF surface_vars

-----------------------------------------------------------------------------
(* A thread that enters a call of libva's own implementation.              *)
LEMMA EntersFacts ==
  ASSUME IInv, NEW t \in Thread, NEW s \in Surface, NEW label \in Label,
         Enters(t, s, label)
  PROVE  /\ pc[t] = <<"app">> /\ current[t] = t /\ arg[t] = NULL /\ ~Inside(t) /\ ~vtable_glx
         /\ pc'[t] = label /\ arg'[t] = s /\ old_cs'[t] = t
         /\ pc' \in [Thread -> Label] /\ arg' \in [Thread -> Surface \cup {NULL}]
         /\ old_cs' \in [Thread -> Thread \cup {NULL}]
         /\ returned' \in [Thread -> Status]
         /\ \A u \in Thread \ {t} :
              /\ pc'[u] = pc[u] /\ arg'[u] = arg[u]
              /\ old_cs'[u] = old_cs[u] /\ returned'[u] = returned[u]
<1>1. TypeOK /\ WorksOn(t) /\ Implementation
  BY DEF IInv, Ownership
<1>2. /\ pc[t] = <<"app">> /\ current[t] = t /\ impl = "libva"
      /\ pc' = [pc EXCEPT ![t] = label] /\ arg' = [arg EXCEPT ![t] = s]
      /\ old_cs' = [old_cs EXCEPT ![t] = t]
      /\ returned' = [returned EXCEPT ![t] = "nothing"]
  BY DEF Enters, Goto
<1>3. arg[t] = NULL /\ ~vtable_glx
  BY <1>1, <1>2 DEF WorksOn, Implementation
<1>4. ~Inside(t)
  BY <1>2, InsidePlaces DEF Inside
<1>5. returned' \in [Thread -> Status] /\ \A u \in Thread \ {t} : returned'[u] = returned[u]
  BY <1>1, <1>2 DEF TypeOK, Status
<1>6. /\ pc'[t] = label /\ pc' \in [Thread -> Label]
      /\ \A u \in Thread \ {t} : pc'[u] = pc[u]
  BY <1>1, <1>2 DEF TypeOK
<1>7. /\ arg'[t] = s /\ arg' \in [Thread -> Surface \cup {NULL}]
      /\ \A u \in Thread \ {t} : arg'[u] = arg[u]
  BY <1>1, <1>2 DEF TypeOK
<1>8. /\ old_cs'[t] = t /\ old_cs' \in [Thread -> Thread \cup {NULL}]
      /\ \A u \in Thread \ {t} : old_cs'[u] = old_cs[u]
  BY <1>1, <1>2 DEF TypeOK
<1> QED
  BY <1>2, <1>3, <1>4, <1>5, <1>6, <1>7, <1>8

(* The surface to create is nobody's.                                      *)
LEMMA vaCreateSurfaceGLXIInv ==
  ASSUME IInv, NEW t \in Thread, NEW s \in Surface, vaCreateSurfaceGLX(t, s)
  PROVE  IInv'
<1> DEFINE label == <<"create_context">>
<1>1. /\ objects[s] = {} /\ (\A u \in Thread : arg[u] # s) /\ Enters(t, s, label)
      /\ UNCHANGED <<glx_vars, surface_vars, trap_vars, current>>
  BY DEF vaCreateSurfaceGLX
<1>2. /\ label \in Label /\ label # <<"app">> /\ label \in Contextless
      /\ label \notin Pushed /\ label \notin Unbinding /\ ObjectsAt(label) = {}
  BY PlainPlaces DEF Plain
<1>3. \A r \in Requests : label # Request(r) /\ label # Untrap(r)
  BY InsidePlaces DEF Plain
<1> HIDE DEF label
<1>4. /\ pc[t] = <<"app">> /\ current[t] = t /\ arg[t] = NULL /\ ~Inside(t) /\ ~vtable_glx
      /\ pc'[t] = label /\ arg'[t] = s /\ old_cs'[t] = t
  BY <1>1, <1>2, EntersFacts
<1>5. TypeOK'
  BY <1>1, <1>2, EntersFacts DEF IInv, TypeOK, glx_vars, surface_vars, trap_vars
<1>6. OthersKept(t)
  BY <1>1, <1>2, EntersFacts DEF OthersKept, glx_vars, surface_vars
<1>7. depth[s] = 0
  BY <1>1 DEF IInv, Ownership, StateBalanced
<1>8. WorksOn(t)'
  BY <1>1, <1>2, <1>4, <1>7 DEF WorksOn, surface_vars
<1>9. Ownership'
  BY <1>1, <1>4, <1>5, <1>6, <1>8, ThreadStep
<1>10. ~Inside(t)'
  BY <1>3, <1>4 DEF Inside
<1> QED
  BY <1>1, <1>4, <1>5, <1>6, <1>9, <1>10, QuietIInv DEF surface_vars

(* A surface whose context is current nowhere else is in no other call.    *)
LEMMA NotInUse ==
  ASSUME IInv, NEW t \in Thread, NEW s \in Surface, "fbo" \in objects[s],
         MayMakeCurrent(t, s), arg[t] = NULL
  PROVE  \A u \in Thread : arg[u] # s
<1> SUFFICES ASSUME NEW u \in Thread, arg[u] = s PROVE FALSE
  OBVIOUS
<1>1. u # t /\ arg[u] # NULL
  BY GlxAssumption
<1>2. WorksOn(u)
  BY DEF IInv, Ownership
<1>3. pc[u] # <<"app">>
  BY <1>1, <1>2 DEF WorksOn
<1>4. current[u] # s
  BY <1>1 DEF MayMakeCurrent
<1>5. pc[u] \in Contextless /\ objects[s] = ObjectsAt(pc[u])
  BY <1>3, <1>4, InCall
<1>6. CASE pc[u] = <<"create_context">>
  BY <1>5, <1>6 DEF ObjectsAt
<1>7. CASE pc[u] = <<"create_current">>
  BY <1>5, <1>7 DEF ObjectsAt
<1> QED
  BY <1>5, <1>6, <1>7 DEF Contextless

(* Copy and destroy begin with the surface's context.                      *)
LEMMA UsesSurfaceIInv ==
  ASSUME IInv, NEW t \in Thread, NEW s \in Surface, NEW label \in Label,
         UsesSurface(t, s, label),
         label # <<"app">>, label \notin Contextless, label \notin Pushed,
         label \in Unbinding => is_bound[s] = FALSE, ObjectsAt(label) = Object,
         \A r \in Requests : label # Request(r) /\ label # Untrap(r)
  PROVE  IInv'
<1>1. /\ "fbo" \in objects[s] /\ Enters(t, s, label) /\ MayMakeCurrent(t, s)
      /\ MakeCurrent(t, s) /\ UNCHANGED <<glx_vars, surface_vars, trap_vars>>
  BY DEF UsesSurface
<1>2. /\ pc[t] = <<"app">> /\ current[t] = t /\ arg[t] = NULL /\ ~Inside(t) /\ ~vtable_glx
      /\ pc'[t] = label /\ arg'[t] = s /\ old_cs'[t] = t
  BY <1>1, EntersFacts
<1>3. \A u \in Thread : arg[u] # s
  BY <1>1, <1>2, NotInUse
<1>4. depth[s] = 0 /\ objects[s] = Object
  BY <1>1, <1>3 DEF IInv, Ownership, StateBalanced, ObjectsOwned
<1>5. /\ current'[t] = s /\ current' \in [Thread -> Thread \cup Surface \cup {NULL}]
      /\ \A u \in Thread \ {t} : current'[u] = current[u]
  BY <1>1 DEF MakeCurrent, IInv, TypeOK
<1>6. TypeOK'
  BY <1>1, <1>5, EntersFacts DEF IInv, TypeOK, glx_vars, surface_vars, trap_vars
<1>7. OthersKept(t)
  BY <1>1, <1>5, EntersFacts DEF OthersKept, glx_vars, surface_vars
<1>8. WorksOn(t)'
  BY <1>1, <1>2, <1>4, <1>5 DEF WorksOn, surface_vars
<1>9. Ownership'
  BY <1>2, <1>3, <1>6, <1>7, <1>8, ThreadStep
<1>10. ~Inside(t)'
  BY <1>2 DEF Inside
<1> QED
  BY <1>1, <1>2, <1>6, <1>7, <1>9, <1>10, QuietIInv DEF surface_vars

(* A copy unbinds first what an earlier one left bound.                    *)
LEMMA vaCopySurfaceGLXIInv ==
  ASSUME IInv, NEW t \in Thread, NEW s \in Surface, vaCopySurfaceGLX(t, s)
  PROVE  IInv'
<1> DEFINE label == IF is_bound[s] THEN Trap("associate") ELSE Unbound("associate")
<1>1. UsesSurface(t, s, label)
  BY DEF vaCopySurfaceGLX, AssociateFrom, UnbindFrom
<1>2. is_bound[s] \in BOOLEAN
  BY DEF IInv, TypeOK
<1>3. /\ label \in Label /\ label # <<"app">> /\ label \notin Contextless
      /\ label \notin Pushed /\ (label \in Unbinding => is_bound[s] = FALSE)
      /\ ObjectsAt(label) = Object
  <2>1. CASE is_bound[s]
    BY <2>1, TrapPlaces DEF Requests, Unbinds
  <2>2. CASE is_bound[s] = FALSE
    BY <2>2, UnboundPlaces
  <2> QED
    BY <1>2, <2>1, <2>2
<1>4. \A r \in Requests : label # Request(r) /\ label # Untrap(r)
  BY InsidePlaces
<1> HIDE DEF label
<1> QED
  BY <1>1, <1>3, <1>4, UsesSurfaceIInv

(* So does destroy.                                                        *)
LEMMA vaDestroySurfaceGLXIInv ==
  ASSUME IInv, NEW t \in Thread, NEW s \in Surface, vaDestroySurfaceGLX(t, s)
  PROVE  IInv'
<1> DEFINE label == IF is_bound[s] THEN Trap("destroy") ELSE Unbound("destroy")
<1>1. UsesSurface(t, s, label)
  BY DEF vaDestroySurfaceGLX, UnbindFrom
<1>2. is_bound[s] \in BOOLEAN
  BY DEF IInv, TypeOK
<1>3. /\ label \in Label /\ label # <<"app">> /\ label \notin Contextless
      /\ label \notin Pushed /\ label \notin Unbinding /\ ObjectsAt(label) = Object
  <2>1. CASE is_bound[s]
    BY <2>1, TrapPlaces DEF Requests, Unbinds
  <2>2. CASE is_bound[s] = FALSE
    BY <2>2, UnboundPlaces
  <2> QED
    BY <1>2, <2>1, <2>2
<1>4. \A r \in Requests : label # Request(r) /\ label # Untrap(r)
  BY InsidePlaces
<1> HIDE DEF label
<1> QED
  BY <1>1, <1>3, <1>4, UsesSurfaceIInv

(* A call that finds the surface in use returns.                           *)
LEMMA SurfaceBusyIInv ==
  ASSUME IInv, NEW t \in Thread, NEW s \in Surface, SurfaceBusy(t, s) PROVE IInv'
<1>1. /\ pc[t] = <<"app">> /\ current[t] = t
      /\ returned' = [returned EXCEPT ![t] = "failed"]
      /\ UNCHANGED <<glx_vars, surface_vars, trap_vars, current, old_cs, pc, arg>>
  BY DEF SurfaceBusy
<1>2. ~Inside(t) /\ ~Inside(t)'
  BY <1>1, InsidePlaces DEF Inside
<1>3. \A u \in Thread \ {t} : returned'[u] = returned[u]
  BY <1>1 DEF IInv, TypeOK
<1>4. TypeOK'
  BY <1>1 DEF IInv, TypeOK, Status, surface_vars, trap_vars, glx_vars
<1>5. OthersKept(t)
  BY <1>1, <1>3 DEF OthersKept, surface_vars, glx_vars
<1>6. ASSUME NEW u \in Thread PROVE WorksOn(u)'
  <2>1. WorksOn(u)
    BY DEF IInv, Ownership
  <2>2. CASE u = t
    BY <1>1, <2>1, <2>2 DEF WorksOn, surface_vars
  <2>3. CASE u # t
    BY <1>1, <1>3, <2>1, <2>3 DEF WorksOn, surface_vars
  <2> QED
    BY <2>2, <2>3
<1>7. Ownership'
  BY <1>1, <1>6 DEF IInv, Ownership, Implementation, Exclusive, StateBalanced,
              ObjectsOwned, glx_vars, surface_vars
<1> QED
  BY <1>1, <1>2, <1>4, <1>5, <1>7, QuietIInv DEF surface_vars

-----------------------------------------------------------------------------
(* The trap is set: whoever is inside already is one too many.             *)
LEMMA x11_trap_errorsIInv ==
  ASSUME IInv, NEW t \in Thread, x11_trap_errors(t) PROVE IInv'
<1>1. PICK r \in Requests :
        /\ pc[t] = Trap(r) /\ Goto(t, Request(r))
        /\ x11_error_code' = FALSE /\ old_error_handler' = handler
        /\ handler' = "error_handler"
        /\ overlapped' = (overlapped \/ \E u \in Thread : Inside(u))
        /\ UNCHANGED <<glx_vars, surface_vars, current, old_cs, arg, returned, misread>>
  BY DEF x11_trap_errors
<1> DEFINE label == Request(r)
<1>2. /\ pc[t] # <<"app">> /\ pc[t] \notin Contextless
      /\ (label \in Unbinding => pc[t] \in Unbinding)
      /\ (label \in Pushed <=> pc[t] \in Pushed)
      /\ ObjectsAt(label) = ObjectsAt(pc[t])
      /\ label \in Label /\ label # <<"app">> /\ label \notin Contextless
  BY <1>1, TrapPlaces
<1>3. ~Inside(t)
  BY <1>1, InsidePlaces DEF Inside
<1>4. \A q \in Requests : label = Request(q) => q = r
  BY InsidePlaces
<1>5. \A q \in Requests : label # Untrap(q)
  BY InsidePlaces
<1> HIDE DEF label
<1>6. /\ (label \in Unbinding => is_bound[arg[t]] = FALSE)
      /\ depth[arg[t]] = IF label \in Pushed THEN 1 ELSE 0
  BY <1>2, InCall
<1>7. Goto(t, label)
  BY <1>1 DEF label
<1>8. TypeOK'
  <2>1. overlapped' \in BOOLEAN
    BY <1>1
  <2> QED
    BY <1>1, <1>2, <1>7, <2>1, GotoTypes DEF IInv, TypeOK, glx_vars, surface_vars
<1>9. OthersKept(t) /\ Ownership' /\ pc'[t] = label
  BY <1>1, <1>2, <1>6, <1>7, <1>8, MovesOn DEF surface_vars
<1>10. CASE overlapped'
  BY <1>8, <1>9, <1>10 DEF IInv, TrapInv, PixmapInv
<1>11. CASE ~overlapped'
  <2>1. ~overlapped /\ \A u \in Thread : ~Inside(u)
    BY <1>1, <1>11
  <2>2. handler = "application"
    BY <2>1 DEF IInv, TrapInv
  <2>3. Inside(t)'
    BY <1>9 DEF Inside, label
  <2>4. \A u \in Thread \ {t} : pc'[u] = pc[u] /\ ~Inside(u)'
    BY <1>9, <2>1 DEF OthersKept, Inside
  <2>5. TrapInv'
    <3>1. \A u, v \in Thread : Inside(u)' /\ Inside(v)' => u = v
      BY <2>4
    <3>2. (\E u \in Thread : Inside(u)') /\ handler' = "error_handler"
      BY <1>1, <2>3
    <3>3. old_error_handler' = "application"
      BY <1>1, <2>2
    <3> QED
      BY <3>1, <3>2, <3>3 DEF TrapInv
  <2>6. \A u \in Thread, q \in Requests : pc[u] # Untrap(q) /\ pc'[u] # Untrap(q)
    <3> SUFFICES ASSUME NEW u \in Thread, NEW q \in Requests
                 PROVE  pc[u] # Untrap(q) /\ pc'[u] # Untrap(q)
      OBVIOUS
    <3>1. pc[u] # Untrap(q)
      BY <2>1 DEF Inside
    <3>2. CASE u = t
      BY <1>5, <1>9, <3>1, <3>2
    <3>3. CASE u # t
      BY <2>4, <3>1, <3>3
    <3> QED
      BY <3>2, <3>3
  <2>7. \A s \in bound \ misread : is_bound[s] = TRUE
    BY <2>1, <2>6 DEF IInv, PixmapInv, JustBound, Requests
  <2>8. PixmapInv'
    BY <1>1, <2>6, <2>7 DEF PixmapInv, Requests, surface_vars
  <2> QED
    BY <1>8, <1>9, <2>5, <2>8 DEF IInv
<1> QED
  BY <1>10, <1>11

(* The request is made by the only thread inside, so that its error is     *)
(* noted.                                                                  *)
LEMMA XRequestIInv ==
  ASSUME IInv, NEW t \in Thread, XRequest(t) PROVE IInv'
<1>1. PICK r \in Requests, error \in BOOLEAN :
        /\ pc[t] = Request(r) /\ Goto(t, Untrap(r))
        /\ x11_error_code' = (x11_error_code \/ (error /\ handler = "error_handler"))
        /\ bound' = IF error \/ r \notin Unbinds \cup {"bind"} THEN bound
                    ELSE IF r = "bind" THEN bound \cup {arg[t]}
                    ELSE bound \ {arg[t]}
        /\ UNCHANGED <<glx_vars, objects, is_bound, associated, depth, current, old_cs, arg,
                       returned, handler, old_error_handler, overlapped, misread>>
  BY DEF XRequest
<1> DEFINE label == Untrap(r)
<1>2. /\ pc[t] # <<"app">> /\ pc[t] \notin Contextless
      /\ (label \in Unbinding => pc[t] \in Unbinding)
      /\ (label \in Pushed <=> pc[t] \in Pushed)
      /\ ObjectsAt(label) = ObjectsAt(pc[t])
      /\ label \in Label /\ label # <<"app">> /\ label \notin Contextless
  BY <1>1, TrapPlaces
<1>3. Inside(t)
  BY <1>1 DEF Inside
<1>4. \A q \in Requests : (label = Untrap(q) => q = r) /\ label # Request(q)
  BY InsidePlaces
<1>5. \A q : pc[t] # Untrap(q)
  BY <1>1, InsidePlaces
<1> HIDE DEF label
<1>6. /\ arg[t] \in Surface
      /\ (label \in Unbinding => is_bound[arg[t]] = FALSE)
      /\ depth[arg[t]] = IF label \in Pushed THEN 1 ELSE 0
  BY <1>2, InCall
<1>7. Goto(t, label)
  BY <1>1 DEF label
<1>8. TypeOK'
  <2>1. x11_error_code' \in BOOLEAN
    BY <1>1
  <2>2. bound' \subseteq Surface
    BY <1>1, <1>6 DEF IInv, TypeOK
  <2>3. pc' \in [Thread -> Label]
    BY <1>2, <1>7, GotoTypes DEF IInv
  <2> QED
    BY <1>1, <2>1, <2>2, <2>3 DEF IInv, TypeOK, glx_vars
<1>9. OthersKept(t) /\ Ownership' /\ pc'[t] = label
  BY <1>1, <1>2, <1>6, <1>7, <1>8, MovesOn
<1>10. CASE overlapped
  BY <1>1, <1>8, <1>9, <1>10 DEF IInv, TrapInv, PixmapInv
<1>11. CASE ~overlapped
  <2>1. /\ handler = "error_handler" /\ old_error_handler = "application"
        /\ \A u \in Thread \ {t} : ~Inside(u)
    BY <1>1, <1>3, <1>11 DEF IInv, TrapInv
  <2>2. \A u \in Thread \ {t} : pc'[u] = pc[u] /\ ~Inside(u)'
    BY <1>9, <2>1 DEF OthersKept, Inside
  <2>3. Inside(t)' /\ \A q \in Requests : pc'[t] # Request(q)
    BY <1>4, <1>9 DEF Inside, label
  <2>4. TrapInv'
    <3>1. \A u, v \in Thread : Inside(u)' /\ Inside(v)' => u = v
      BY <2>2
    <3>2. (\E u \in Thread : Inside(u)') /\ handler' = "error_handler"
      BY <1>1, <2>1, <2>3
    <3>3. old_error_handler' = "application"
      BY <1>1, <2>1
    <3> QED
      BY <3>1, <3>2, <3>3 DEF TrapInv
  <2>5. \A u \in Thread, q \in Requests : pc[u] # Untrap(q)
    BY <1>5, <2>1 DEF Inside
  <2>6. \A s \in bound \ misread : is_bound[s] = TRUE
    BY <1>11, <2>5 DEF IInv, PixmapInv, JustBound, Requests
  <2>7. x11_error_code' = (x11_error_code \/ error) /\ x11_error_code \in BOOLEAN
    BY <1>1, <2>1 DEF IInv, TypeOK
  <2>8. \A u \in Thread, q \in Requests : pc'[u] = Untrap(q) => u = t /\ q = r
    <3> SUFFICES ASSUME NEW u \in Thread, NEW q \in Requests, pc'[u] = Untrap(q)
                 PROVE  u = t /\ q = r
      OBVIOUS
    <3>1. u = t
      BY <2>2 DEF Inside
    <3> QED
      BY <1>4, <1>9, <3>1
  <2>9. \A s \in bound' \ misread' : \/ is_bound'[s] = TRUE
                                     \/ arg'[t] = s /\ JustBound(t)'
    <3> SUFFICES ASSUME NEW s \in bound' \ misread', s \notin bound
                 PROVE  arg'[t] = s /\ JustBound(t)'
      BY <1>1, <2>6
    <3>1. r = "bind" /\ error = FALSE /\ s = arg[t] /\ s \notin misread
      BY <1>1
    <3>2. x11_error_code = FALSE
      BY <1>1, <1>11, <2>7, <3>1 DEF IInv, PixmapInv
    <3> QED
      BY <1>1, <1>9, <2>7, <3>1, <3>2 DEF JustBound, label
  <2>10. ASSUME NEW u \in Thread, NEW q \in Unbinds,
                pc'[u] = Untrap(q), x11_error_code' = FALSE
         PROVE  arg'[u] \notin bound'
    <3>1. u = t /\ q = r /\ error = FALSE
      BY <2>7, <2>8, <2>10 DEF Requests
    <3>2. r # "bind" /\ r \in Unbinds
      BY <2>10, <3>1 DEF Unbinds
    <3> QED
      BY <1>1, <3>1, <3>2
  <2>11. \A u \in Thread : pc'[u] # Request("bind")
    BY <2>2, <2>3 DEF Inside, Requests
  <2>12. PixmapInv'
    BY <2>9, <2>10, <2>11 DEF PixmapInv
  <2> QED
    BY <1>8, <1>9, <2>4, <2>12 DEF IInv
<1> QED
  BY <1>10, <1>11

(* The trap is reset: if no other was set meanwhile, the application's     *)
(* handler is back, nobody is inside, and the pixmaps that are bound are   *)
(* those that the library knew of before or that the request has bound.    *)
LEMMA UntrapsTrap ==
  ASSUME IInv, NEW t \in Thread, NEW r \in Requests, Untraps(t, r), ~Inside(t)',
         \A u \in Thread \ {t} : pc'[u] = pc[u]
  PROVE  /\ TrapInv'
         /\ ~overlapped =>
              /\ \A u \in Thread : ~Inside(u)'
              /\ \A u \in Thread, q \in Requests : pc'[u] # Untrap(q) /\ pc'[u] # Request(q)
              /\ \A s \in bound \ misread :
                   \/ is_bound[s] = TRUE
                   \/ arg[t] = s /\ r = "bind" /\ x11_error_code = FALSE
              /\ r \in Unbinds /\ x11_error_code = FALSE => arg[t] \notin bound
<1>1. /\ pc[t] = Untrap(r) /\ handler' = old_error_handler
      /\ UNCHANGED <<old_error_handler, x11_error_code, overlapped, misread, glx_vars>>
  BY DEF Untraps, x11_untrap_errors
<1>2. Inside(t)
  BY <1>1 DEF Inside
<1>3. CASE overlapped
  BY <1>1, <1>3 DEF TrapInv
<1>4. CASE ~overlapped
  <2>1. old_error_handler = "application" /\ \A u \in Thread \ {t} : ~Inside(u)
    BY <1>2, <1>4 DEF IInv, TrapInv
  <2>2. \A u \in Thread : ~Inside(u)'
    BY <2>1 DEF Inside
  <2>3. \A u \in Thread, q \in Requests : pc'[u] # Untrap(q) /\ pc'[u] # Request(q)
    BY <2>2 DEF Inside
  <2>4. TrapInv'
    BY <1>1, <2>1, <2>2, <2>3 DEF TrapInv
  <2>5. \A u \in Thread : JustBound(u) => u = t /\ r = "bind" /\ x11_error_code = FALSE
    <3> SUFFICES ASSUME NEW u \in Thread, JustBound(u)
                 PROVE  u = t /\ r = "bind" /\ x11_error_code = FALSE
      OBVIOUS
    <3>1. pc[u] = Untrap("bind") /\ x11_error_code = FALSE /\ "bind" \in Requests
      BY DEF JustBound, Requests
    <3>2. u = t
      BY <2>1, <3>1 DEF Inside
    <3> QED
      BY <1>1, <3>1, <3>2, InsidePlaces
  <2>6. \A s \in bound \ misread :
          \/ is_bound[s] = TRUE
          \/ arg[t] = s /\ r = "bind" /\ x11_error_code = FALSE
    BY <1>4, <2>5 DEF IInv, PixmapInv
  <2>7. r \in Unbinds /\ x11_error_code = FALSE => arg[t] \notin bound
    BY <1>1, <1>4 DEF IInv, PixmapInv
  <2> QED
    BY <2>2, <2>3, <2>4, <2>6, <2>7
<1> QED
  BY <1>3, <1>4

(* The pixmap is bound to its texture, or the surface given up.            *)
LEMMA create_tfp_surfaceIInv ==
  ASSUME IInv, NEW t \in Thread, create_tfp_surface(t) PROVE IInv'
<1> DEFINE r == "create_tfp"
<1>1. /\ Untraps(t, r) /\ pc[t] = Untrap(r)
      /\ UNCHANGED <<glx_vars, is_bound, bound, associated, depth, old_cs,
                     old_error_handler, x11_error_code, overlapped, misread>>
  BY DEF create_tfp_surface, Untraps
<1>2. /\ r \in Requests /\ pc[t] # <<"app">> /\ pc[t] \notin Pushed /\ pc[t] \notin Contextless
      /\ ObjectsAt(pc[t]) = {"context", "struct", "pixmap"}
  BY <1>1, TrapPlaces DEF Requests
<1> HIDE DEF r
<1>3. /\ arg[t] \in Surface /\ depth[arg[t]] = 0 /\ current[t] = arg[t]
      /\ objects[arg[t]] = {"context", "struct", "pixmap"}
  BY <1>2, InCall
<1>4. TypeOK
  BY DEF IInv
<1>5. TypeOK' /\ OthersKept(t) /\ Ownership' /\ ~Inside(t)'
  <2>1. CASE DestroysPartial(t, arg[t])
    <3>1. /\ x11_error_code' \in BOOLEAN /\ overlapped' \in BOOLEAN
          /\ misread' \subseteq Surface
      BY <1>1, <1>4 DEF TypeOK
    <3>2. TypeOK' /\ OthersKept(t) /\ Ownership' /\ pc'[t] = <<"app">>
      BY <1>1, <1>2, <2>1, <3>1, CreateFailsOwnership DEF DestroysPartial
    <3> QED
      BY <3>2, InsidePlaces DEF Inside
  <2>2. CASE /\ Has(arg[t], objects[arg[t]] \cup {"glx_pixmap", "pix_texture"})
             /\ Goto(t, <<"create_fbo">>) /\ UNCHANGED <<current, arg, returned>>
    <3>1. /\ pc' = [pc EXCEPT ![t] = <<"create_fbo">>]
          /\ objects' = [objects EXCEPT ![arg[t]] = Object \ {"fbo"}]
      BY <1>3, <2>2 DEF Goto, Has, Object
    <3>2. /\ pc'[t] = <<"create_fbo">> /\ pc' \in [Thread -> Label]
          /\ objects'[arg[t]] = Object \ {"fbo"}
          /\ objects' \in [Surface -> SUBSET Object]
      BY <1>3, <1>4, <3>1, PlainPlaces DEF TypeOK, Plain
    <3>3. TypeOK'
      BY <1>1, <1>4, <2>2, <3>2 DEF TypeOK, glx_vars
    <3>4. OthersKept(t)
      BY <1>1, <1>4, <2>2, <3>1 DEF TypeOK, OthersKept, glx_vars
    <3>5. /\ pc'[t] # <<"app">> /\ pc'[t] \notin Contextless /\ pc'[t] \notin Pushed
          /\ pc'[t] \notin Unbinding /\ ObjectsAt(pc'[t]) = Object \ {"fbo"}
      BY <3>2, PlainPlaces DEF Plain
    <3>6. Ownership'
      BY <1>1, <1>2, <1>3, <2>2, <3>2, <3>3, <3>4, <3>5, GoesOn
    <3>7. ~Inside(t)'
      BY <3>2, InsidePlaces DEF Inside, Plain
    <3> QED
      BY <3>3, <3>4, <3>6, <3>7
  <2> QED
    BY <2>1, <2>2 DEF create_tfp_surface
<1>6. \A u \in Thread \ {t} : pc'[u] = pc[u]
  BY <1>5 DEF OthersKept
<1>7. TrapInv'
  BY <1>1, <1>2, <1>5, <1>6, UntrapsTrap
<1>8. PixmapInv'
  <2>1. r \notin Unbinds /\ r # "bind"
    BY DEF r, Unbinds
  <2> SUFFICES ASSUME ~overlapped PROVE PixmapInv'
    BY <1>1 DEF PixmapInv
  <2>2. /\ \A s \in bound \ misread : is_bound[s] = TRUE
        /\ \A u \in Thread, q \in Requests : pc'[u] # Untrap(q) /\ pc'[u] # Request(q)
    BY <1>1, <1>2, <1>5, <1>6, <2>1, UntrapsTrap
  <2> QED
    BY <1>1, <2>2 DEF PixmapInv, Requests
<1> QED
  BY <1>5, <1>7, <1>8 DEF IInv

(* After the request of a copy or of a destroy the thread goes on to       *)
(* another place with the same surface.                                    *)
LEMMA UntrapsIInv ==
  ASSUME IInv, NEW t \in Thread, NEW r \in Requests, r # "create_tfp", Untraps(t, r),
         NEW label \in Label, Goto(t, label),
         label # <<"app">>, label \notin Contextless, ObjectsAt(label) = Object,
         label \in Pushed <=> r \in {"bind", "end_render"},
         label \in Unbinding => is_bound'[arg[t]] = FALSE,
         \A q \in Requests : label # Request(q) /\ label # Untrap(q),
         UNCHANGED <<objects, bound, depth, current, old_cs, arg, returned>>,
         associated' \in [Surface -> BOOLEAN], is_bound' \in [Surface -> BOOLEAN],
         \A s \in Surface \ {arg[t]} : is_bound'[s] = is_bound[s],
         ~overlapped => (is_bound'[arg[t]] = TRUE \/ arg[t] \notin bound \ misread)
  PROVE  IInv'
<1>1. /\ pc[t] = Untrap(r)
      /\ handler' = old_error_handler
      /\ UNCHANGED <<old_error_handler, x11_error_code, overlapped, misread, glx_vars>>
  BY DEF Untraps, x11_untrap_errors
<1>2. /\ pc[t] # <<"app">> /\ pc[t] \notin Contextless
      /\ (label \in Pushed <=> pc[t] \in Pushed) /\ ObjectsAt(pc[t]) = Object
  BY <1>1, TrapPlaces
<1>3. arg[t] \in Surface /\ depth'[arg[t]] = IF label \in Pushed THEN 1 ELSE 0
  BY <1>2, InCall
<1>4. TypeOK'
  BY <1>1, GotoTypes DEF IInv, TypeOK, glx_vars
<1>5. \A s \in Surface \ {arg[t]} : depth'[s] = depth[s] /\ is_bound'[s] = is_bound[s]
  OBVIOUS
<1>6. OthersKept(t) /\ Ownership' /\ pc'[t] = label
  BY <1>1, <1>2, <1>3, <1>4, <1>5, MovesOn
<1>7. ~Inside(t)' /\ \A u \in Thread \ {t} : pc'[u] = pc[u]
  BY <1>6 DEF Inside, OthersKept
<1>8. TrapInv'
  BY <1>7, UntrapsTrap
<1>9. PixmapInv'
  <2> SUFFICES ASSUME ~overlapped PROVE PixmapInv'
    BY <1>1 DEF PixmapInv
  <2>1. \A u \in Thread, q \in Requests : pc'[u] # Untrap(q) /\ pc'[u] # Request(q)
    BY <1>7, UntrapsTrap
  <2>2. \A s \in bound \ misread : is_bound[s] = TRUE \/ arg[t] = s
    BY <1>7, UntrapsTrap
  <2>3. \A s \in bound \ misread : is_bound'[s] = TRUE
    BY <2>2 DEF IInv, TypeOK
  <2> QED
    BY <1>1, <2>1, <2>3 DEF PixmapInv, Requests
<1> QED
  BY <1>4, <1>6, <1>8, <1>9 DEF IInv

(* What the requests of an unbind have found, unbind_pixmap notes.         *)
LEMMA unbind_pixmapIInv ==
  ASSUME IInv, NEW t \in Thread, unbind_pixmap(t) PROVE IInv'
<1>1. PICK r \in Unbinds :
        /\ Untraps(t, r)
        /\ Goto(t, IF x11_error_code THEN UnbindFailed[r] ELSE AfterUnbind[r])
        /\ is_bound' = [is_bound EXCEPT ![arg[t]] = x11_error_code]
        /\ UNCHANGED <<objects, bound, associated, depth, current, old_cs, arg, returned>>
  BY DEF unbind_pixmap
<1>2. /\ r \in Requests /\ r # "create_tfp" /\ r # "bind" /\ r # "put"
      /\ pc[t] = Untrap(r) /\ pc[t] # <<"app">>
  BY <1>1, TrapPlaces DEF Untraps, Requests, Unbinds
<1>3. arg[t] \in Surface /\ x11_error_code \in BOOLEAN /\ is_bound \in [Surface -> BOOLEAN]
      /\ associated \in [Surface -> BOOLEAN]
  BY <1>2, InCall DEF IInv, TypeOK
<1>4. /\ is_bound'[arg[t]] = x11_error_code /\ is_bound' \in [Surface -> BOOLEAN]
      /\ \A s \in Surface \ {arg[t]} : is_bound'[s] = is_bound[s]
  BY <1>1, <1>3
<1> DEFINE label == IF x11_error_code THEN UnbindFailed[r] ELSE AfterUnbind[r]
<1>5. /\ label \in Label /\ label # <<"app">> /\ label \notin Contextless
      /\ ObjectsAt(label) = Object
      /\ (label \in Pushed <=> r \in {"bind", "end_render"})
      /\ label \in Unbinding => x11_error_code = FALSE
      /\ \A q \in Requests : label # Request(q) /\ label # Untrap(q)
  <2>1. CASE r = "associate"
    <3>1. label = IF x11_error_code THEN <<"fail">> ELSE Unbound("associate")
      BY <2>1 DEF UnbindFailed, AfterUnbind
    <3> HIDE DEF label
    <3> QED
      BY <1>3, <2>1, <3>1, PlainPlaces, UnboundPlaces, InsidePlaces DEF Plain
  <2>2. CASE r = "end_render"
    <3>1. label = IF x11_error_code THEN <<"leave failed">> ELSE <<"leave">>
      BY <2>2 DEF UnbindFailed, AfterUnbind
    <3> HIDE DEF label
    <3> QED
      BY <1>3, <2>2, <3>1, PlainPlaces, UnboundPlaces, InsidePlaces DEF Plain
  <2>3. CASE r = "deassociate"
    <3>1. label = IF x11_error_code THEN <<"fail">> ELSE Unbound("deassociate")
      BY <2>3 DEF UnbindFailed, AfterUnbind
    <3> HIDE DEF label
    <3> QED
      BY <1>3, <2>3, <3>1, PlainPlaces, UnboundPlaces, InsidePlaces DEF Plain
  <2>4. CASE r = "destroy"
    <3>1. label = Unbound("destroy")
      BY <2>4 DEF UnbindFailed, AfterUnbind
    <3> HIDE DEF label
    <3> QED
      BY <2>4, <3>1, UnboundPlaces, InsidePlaces
  <2> QED
    BY <2>1, <2>2, <2>3, <2>4 DEF Unbinds
<1>6. Goto(t, label)
  BY <1>1
<1> HIDE DEF label
<1>7. \A u \in Thread \ {t} : pc'[u] = pc[u]
  BY <1>6 DEF Goto, IInv, TypeOK
<1>8. ~Inside(t)'
  BY <1>5, <1>6 DEF Goto, IInv, TypeOK, Inside
<1>9. ~overlapped => (is_bound'[arg[t]] = TRUE \/ arg[t] \notin bound \ misread)
  <2> SUFFICES ASSUME ~overlapped, x11_error_code = FALSE PROVE arg[t] \notin bound
    BY <1>3, <1>4
  <2> QED
    BY <1>1, <1>2, <1>7, <1>8, UntrapsTrap
<1>10. label \in Unbinding => is_bound'[arg[t]] = FALSE
  BY <1>4, <1>5
<1> QED
  BY <1>1, <1>2, <1>3, <1>4, <1>5, <1>6, <1>9, <1>10, UntrapsIInv

(* The VA surface is in the pixmap, or not.                                *)
LEMMA associate_surfaceIInv ==
  ASSUME IInv, NEW t \in Thread, associate_surface(t) PROVE IInv'
<1>1. /\ Untraps(t, "put")
      /\ UNCHANGED <<objects, is_bound, bound, depth, current, old_cs, arg, returned>>
  BY DEF associate_surface
<1>2. PICK label \in {<<"enter">>, <<"fail">>} : Goto(t, label)
  BY DEF associate_surface
<1>3. /\ "put" \in Requests /\ "put" \notin Unbinds
      /\ pc[t] = Untrap("put") /\ pc[t] # <<"app">> /\ pc[t] \in Unbinding
  BY <1>1, TrapPlaces DEF Untraps, Requests, Unbinds
<1>4. arg[t] \in Surface /\ is_bound[arg[t]] = FALSE
  BY <1>3, InCall
<1>5. /\ label \in Label /\ label # <<"app">> /\ label \notin Contextless
      /\ ObjectsAt(label) = Object /\ label \notin Pushed
      /\ \A q \in Requests : label # Request(q) /\ label # Untrap(q)
  BY PlainPlaces, InsidePlaces DEF Plain
<1>6. associated' \in [Surface -> BOOLEAN]
  BY <1>4 DEF associate_surface, IInv, TypeOK
<1>7. \A u \in Thread \ {t} : pc'[u] = pc[u]
  BY <1>2 DEF Goto, IInv, TypeOK
<1>8. ~Inside(t)'
  BY <1>2, <1>5 DEF Goto, IInv, TypeOK, Inside
<1>9. ~overlapped => arg[t] \notin bound \ misread
  BY <1>1, <1>3, <1>4, <1>7, <1>8, UntrapsTrap
<1>10. /\ is_bound'[arg[t]] = FALSE /\ is_bound' \in [Surface -> BOOLEAN]
       /\ \A s \in Surface \ {arg[t]} : is_bound'[s] = is_bound[s]
  BY <1>1, <1>4 DEF IInv, TypeOK
<1> QED
  BY <1>1, <1>2, <1>3, <1>5, <1>6, <1>9, <1>10, UntrapsIInv

(* The pixmap is bound, or its error noted.                                *)
LEMMA bind_pixmapIInv ==
  ASSUME IInv, NEW t \in Thread, bind_pixmap(t) PROVE IInv'
<1>1. /\ Untraps(t, "bind")
      /\ is_bound' = [is_bound EXCEPT ![arg[t]] = ~x11_error_code]
      /\ UNCHANGED <<objects, bound, associated, depth, current, old_cs, arg, returned>>
  BY DEF bind_pixmap
<1>2. PICK label \in {<<"leave failed">>, <<"render">>} : Goto(t, label)
  BY DEF bind_pixmap
<1>3. /\ "bind" \in Requests
      /\ pc[t] = Untrap("bind") /\ pc[t] # <<"app">> /\ pc[t] \in Unbinding
  BY <1>1, TrapPlaces DEF Untraps, Requests, Unbinds
<1>4. arg[t] \in Surface /\ is_bound[arg[t]] = FALSE /\ x11_error_code \in BOOLEAN
      /\ is_bound \in [Surface -> BOOLEAN] /\ associated \in [Surface -> BOOLEAN]
  BY <1>3, InCall DEF IInv, TypeOK
<1>5. /\ label \in Label /\ label # <<"app">> /\ label \notin Contextless
      /\ ObjectsAt(label) = Object /\ label \in Pushed /\ label \notin Unbinding
      /\ \A q \in Requests : label # Request(q) /\ label # Untrap(q)
  <2>1. CASE label = <<"leave failed">>
    BY <2>1, PlainPlaces, InsidePlaces DEF Plain
  <2>2. CASE label = <<"render">>
    BY <2>2, PlainPlaces, InsidePlaces DEF Plain
  <2> QED
    BY <2>1, <2>2
<1>6. /\ is_bound'[arg[t]] = ~x11_error_code /\ is_bound' \in [Surface -> BOOLEAN]
      /\ \A s \in Surface \ {arg[t]} : is_bound'[s] = is_bound[s]
  BY <1>1, <1>4
<1>7. \A u \in Thread \ {t} : pc'[u] = pc[u]
  BY <1>2 DEF Goto, IInv, TypeOK
<1>8. ~Inside(t)'
  BY <1>2, <1>5 DEF Goto, IInv, TypeOK, Inside
<1>9. ~overlapped => (is_bound'[arg[t]] = TRUE \/ arg[t] \notin bound \ misread)
  <2> SUFFICES ASSUME ~overlapped, arg[t] \in bound \ misread PROVE x11_error_code = FALSE
    BY <1>6
  <2> QED
    BY <1>1, <1>3, <1>4, <1>7, <1>8, UntrapsTrap
<1> QED
  BY <1>1, <1>2, <1>3, <1>4, <1>5, <1>6, <1>9, UntrapsIInv

(* The surface is gone, and what the X server had bound of it.             *)
LEMMA destroy_surfaceIInv ==
  ASSUME IInv, NEW t \in Thread, destroy_surface(t) PROVE IInv'
<1>1. /\ pc[t] = Unbound("destroy")
      /\ objects' = [objects EXCEPT ![arg[t]] = {}]
      /\ is_bound' = [is_bound EXCEPT ![arg[t]] = FALSE]
      /\ bound' = bound \ {arg[t]}
      /\ associated' = [associated EXCEPT ![arg[t]] = FALSE]
      /\ Restores(t, "destroyed") /\ "destroyed" \in Status
      /\ misread' = misread \ {arg[t]}
      /\ UNCHANGED <<glx_vars, depth, handler, old_error_handler, x11_error_code, overlapped>>
  BY DEF destroy_surface, Has, Status
<1>2. pc[t] # <<"app">> /\ pc[t] \notin Pushed /\ ~Inside(t)
  BY <1>1, UnboundPlaces, OutsideOfTrap
<1>3. arg[t] \in Surface /\ old_cs[t] = t /\ TypeOK
  BY <1>2, InCall DEF IInv
<1>4. /\ objects'[arg[t]] = {} /\ objects' \in [Surface -> SUBSET Object]
      /\ is_bound' \in [Surface -> BOOLEAN] /\ associated' \in [Surface -> BOOLEAN]
      /\ \A s \in Surface \ {arg[t]} : objects'[s] = objects[s] /\ is_bound'[s] = is_bound[s]
  BY <1>1, <1>3 DEF TypeOK
<1>5. /\ pc' \in [Thread -> Label] /\ arg' \in [Thread -> Surface \cup {NULL}]
      /\ current' \in [Thread -> Thread \cup Surface \cup {NULL}]
      /\ old_cs' \in [Thread -> Thread \cup {NULL}]
      /\ returned' \in [Thread -> Status]
      /\ \A u \in Thread \ {t} :
              /\ pc'[u] = pc[u] /\ arg'[u] = arg[u] /\ current'[u] = current[u]
              /\ old_cs'[u] = old_cs[u] /\ returned'[u] = returned[u]
  BY <1>1, <1>3, RestoresTypes
<1>6. TypeOK'
  BY <1>1, <1>3, <1>4, <1>5 DEF TypeOK, glx_vars
<1>7. OthersKept(t)
  BY <1>1, <1>4, <1>5 DEF OthersKept, glx_vars
<1>8. Ownership' /\ ~Inside(t)' /\ pc'[t] = <<"app">>
  BY <1>1, <1>2, <1>4, <1>6, <1>7, RestoresOwnership
<1>9. TrapInv'
  <2>1. \A u \in Thread : Inside(u)' <=> Inside(u)
    BY <1>2, <1>5, <1>8 DEF Inside
  <2> QED
    BY <1>1, <2>1 DEF IInv, TrapInv
<1>10. PixmapInv'
  <2> SUFFICES ASSUME ~overlapped PROVE PixmapInv'
    BY <1>1 DEF PixmapInv
  <2>1. ASSUME NEW u \in Thread, NEW q \in Requests, pc'[u] = Untrap(q)
        PROVE  u # t /\ pc[u] = Untrap(q) /\ arg'[u] = arg[u]
    BY <1>5, <1>8, <2>1 DEF Inside
  <2>2. ASSUME NEW u \in Thread, JustBound(u)
        PROVE  u # t /\ JustBound(u)' /\ arg'[u] = arg[u]
    <3>1. u # t
      BY <1>2, <2>2 DEF JustBound, Inside, Requests
    <3> QED
      BY <1>1, <1>5, <2>2, <3>1 DEF JustBound
  <2>3. ASSUME NEW s \in bound' \ misread'
        PROVE  is_bound'[s] = TRUE \/ \E u \in Thread : arg'[u] = s /\ JustBound(u)'
    <3>1. s \in bound \ misread /\ s # arg[t] /\ s \in Surface
      BY <1>1, <1>3, <2>3 DEF TypeOK
    <3>2. is_bound'[s] = is_bound[s]
      BY <1>4, <3>1
    <3> QED
      BY <2>2, <3>1, <3>2 DEF IInv, PixmapInv
  <2>4. ASSUME NEW u \in Thread, NEW q \in Unbinds, pc'[u] = Untrap(q), x11_error_code' = FALSE
        PROVE  arg'[u] \notin bound'
    BY <1>1, <2>1, <2>4 DEF IInv, PixmapInv, Requests
  <2>5. ASSUME NEW u \in Thread, pc'[u] = Request("bind"), x11_error_code' = TRUE
        PROVE  arg'[u] \in misread'
    <3>1. u # t /\ pc[u] = Request("bind") /\ arg'[u] = arg[u]
      BY <1>5, <1>8, <2>5 DEF Inside, Requests
    <3>2. arg[u] \in Surface /\ arg[u] # arg[t]
      BY <1>3, <3>1, InCall, TrapPlaces DEF IInv, Ownership, Exclusive, Requests
    <3> QED
      BY <1>1, <2>5, <3>1, <3>2 DEF IInv, PixmapInv
  <2> QED
    BY <2>3, <2>4, <2>5 DEF PixmapInv
<1> QED
  BY <1>6, <1>8, <1>9, <1>10 DEF IInv

(* The error of a request that the trap of a bind did not make.            *)
LEMMA LateErrorIInv == IInv /\ LateError => IInv'
<1> SUFFICES ASSUME IInv, LateError PROVE IInv'
  OBVIOUS
<1> DEFINE Binding == {u \in Thread : pc[u] \in {Request("bind"), Untrap("bind")}}
<1>1. /\ x11_error_code' = TRUE /\ misread' = misread \cup {arg[u] : u \in Binding}
      /\ UNCHANGED <<glx_vars, surface_vars, thread_vars, handler, old_error_handler,
                     overlapped>>
      /\ handler = "error_handler"
  BY DEF LateError
<1>2. \A u \in Binding : arg[u] \in Surface
  BY InCall, TrapPlaces DEF Requests
<1> HIDE DEF Binding
<1>3. TypeOK'
  <2>1. misread' \subseteq Surface
    BY <1>1, <1>2 DEF IInv, TypeOK
  <2> QED
    BY <1>1, <2>1 DEF IInv, TypeOK, glx_vars, surface_vars, thread_vars
<1>4. Ownership'
  BY <1>1 DEF IInv, Ownership, Implementation, WorksOn, Exclusive, StateBalanced, ObjectsOwned,
              glx_vars, surface_vars, thread_vars
<1>5. TrapInv'
  BY <1>1 DEF IInv, TrapInv, Inside, thread_vars
<1>6. PixmapInv'
  <2> SUFFICES ASSUME ~overlapped PROVE PixmapInv'
    BY <1>1 DEF PixmapInv
  <2>1. UNCHANGED <<pc, arg, bound, is_bound, overlapped>>
    BY <1>1 DEF surface_vars, thread_vars
  <2>2. ASSUME NEW s \in bound' \ misread' PROVE is_bound'[s] = TRUE
    <3>1. s \in bound \ misread /\ \A u \in Binding : arg[u] # s
      BY <1>1, <2>1, <2>2
    <3>2. \A u \in Thread : arg[u] = s => ~JustBound(u)
      BY <3>1 DEF JustBound, Binding
    <3> QED
      BY <2>1, <3>1, <3>2 DEF IInv, PixmapInv
  <2>3. ASSUME NEW u \in Thread, pc'[u] = Request("bind") PROVE arg'[u] \in misread'
    BY <1>1, <2>1, <2>3 DEF Binding
  <2> QED
    BY <1>1, <2>2, <2>3 DEF PixmapInv
<1> QED
  BY <1>3, <1>4, <1>5, <1>6 DEF IInv

-----------------------------------------------------------------------------
(* Nothing changes when nothing happens.                                   *)
LEMMA StutterIInv == IInv /\ UNCHANGED vars => IInv'
<1> SUFFICES ASSUME IInv, UNCHANGED vars PROVE IInv'
  OBVIOUS
<1> USE DEF vars, glx_vars, surface_vars, trap_vars, thread_vars
<1>1. TypeOK'
  BY DEF IInv, TypeOK
<1>2. Ownership'
  BY DEF IInv, Ownership, Implementation, WorksOn, Exclusive, StateBalanced, ObjectsOwned
<1>3. TrapInv' /\ PixmapInv'
  BY DEF IInv, TrapInv, PixmapInv, Inside, JustBound
<1> QED
  BY <1>1, <1>2, <1>3 DEF IInv

(* Every step keeps the invariant.                                         *)
LEMMA NextIInv == IInv /\ [Next]_vars => IInv'
<1> SUFFICES ASSUME IInv, Next PROVE IInv'
  BY StutterIInv
<1>1. CASE vaGetDisplayGLX \/ va_glx_init_context \/ va_DisplayContextDestroy
  BY <1>1, DisplayIInv
<1>7. CASE LateError
  BY <1>7, LateErrorIInv
<1>2. ASSUME NEW t \in Thread, AppMakeCurrent(t) \/ Forwarded(t) PROVE IInv'
  BY <1>2, AppMakeCurrentIInv, ForwardedIInv
<1>3. ASSUME NEW t \in Thread,
             \/ gl_create_context(t) \/ gl_set_current_context(t) \/ create_surface(t)
             \/ create_tfp_surface(t) \/ create_fbo_surface(t)
      PROVE  IInv'
  BY <1>3, gl_create_contextIInv, gl_set_current_contextIInv, create_surfaceIInv,
     create_tfp_surfaceIInv, create_fbo_surfaceIInv
<1>4. ASSUME NEW t \in Thread,
             \/ x11_trap_errors(t) \/ XRequest(t)
             \/ unbind_pixmap(t) \/ deassociate_surface(t) \/ associate_surface(t)
      PROVE  IInv'
  BY <1>4, x11_trap_errorsIInv, XRequestIInv, unbind_pixmapIInv, deassociate_surfaceIInv,
     associate_surfaceIInv
<1>5. ASSUME NEW t \in Thread,
             \/ fbo_enter(t) \/ begin_render_surface(t) \/ bind_pixmap(t)
             \/ render_pixmap(t) \/ fbo_leave(t) \/ CopyReturns(t) \/ destroy_surface(t)
      PROVE  IInv'
  BY <1>5, fbo_enterIInv, begin_render_surfaceIInv, bind_pixmapIInv, render_pixmapIInv,
     fbo_leaveIInv, CopyReturnsIInv, destroy_surfaceIInv
<1>6. ASSUME NEW t \in Thread, NEW s \in Surface,
             \/ vaCreateSurfaceGLX(t, s) \/ vaCopySurfaceGLX(t, s)
             \/ SurfaceBusy(t, s) \/ vaDestroySurfaceGLX(t, s)
      PROVE  IInv'
  BY <1>6, vaCreateSurfaceGLXIInv, vaCopySurfaceGLXIInv, SurfaceBusyIInv,
     vaDestroySurfaceGLXIInv
<1> QED
  BY <1>1, <1>2, <1>3, <1>4, <1>5, <1>6, <1>7, Zenon DEF Next

(* No two threads ever work on the same surface, whatever they call: all   *)
(* the properties below follow from this invariant.                        *)
THEOREM Inductive == Spec => []IInv
  BY InitIInv, NextIInv, PTL DEF Spec

(* A call returns with the GL context of its thread, unless it could not   *)
(* create the surface.                                                     *)
THEOREM ContextIsReturned == Spec => []ContextReturned
<1>1. IInv => ContextReturned
  BY DEF IInv, Ownership, WorksOn, ContextReturned
<1> QED
  BY <1>1, Inductive, PTL

(* A surface that no call works on has its matrices balanced ...           *)
THEOREM StateIsBalanced == Spec => []StateBalanced
<1>1. IInv => StateBalanced
  BY DEF IInv, Ownership
<1> QED
  BY <1>1, Inductive, PTL

(* ... and all its objects or none.                                        *)
THEOREM ObjectsAreOwned == Spec => []ObjectsOwned
<1>1. IInv => ObjectsOwned
  BY DEF IInv, Ownership
<1> QED
  BY <1>1, Inductive, PTL

(* When no call is inside a trap the application's handler is set, as long *)
(* as no two traps overlapped.                                             *)
THEOREM HandlerIsRestored == Spec => []HandlerRestored
<1>1. IInv => HandlerRestored
  BY DEF IInv, TrapInv, HandlerRestored
<1> QED
  BY <1>1, Inductive, PTL

(* The driver puts a VA surface in a pixmap only while it is not bound,    *)
(* unless traps overlapped or a bind of the surface met another's error.   *)
THEOREM PutsUnbound == Spec => []PutUnbound
<1>1. ASSUME IInv, NEW t \in Thread, pc[t] = Request("put"), ~overlapped,
             arg[t] \in bound \ misread
      PROVE  FALSE
  <2>1. pc[t] # <<"app">> /\ pc[t] \in Unbinding /\ Inside(t)
    BY <1>1, TrapPlaces DEF Requests, Inside
  <2>2. is_bound[arg[t]] = FALSE /\ arg[t] \in Surface
    BY <1>1, <2>1, InCall
  <2>3. PICK u \in Thread : arg[u] = arg[t] /\ JustBound(u)
    BY <1>1, <2>2 DEF IInv, PixmapInv
  <2>4. u = t
    BY <1>1, <2>2, <2>3 DEF IInv, Ownership, Exclusive
  <2> QED
    BY <1>1, <2>3, <2>4, InsidePlaces DEF JustBound
<1>2. IInv => PutUnbound
  BY <1>1 DEF PutUnbound
<1> QED
  BY <1>2, Inductive, PTL
=============================================================================
