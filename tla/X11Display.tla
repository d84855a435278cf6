----------------------------- MODULE X11Display -----------------------------
(***************************************************************************)
(* The DRM device descriptor of X11 displays (va/x11/va_x11.c, va_dri3.c,  *)
(* dri2_util.c, va_dri2.c): how vaInitialize gets one from DRI3 or DRI2,   *)
(* what a failed or a repeated attempt does with the one before, and how   *)
(* vaTerminate closes it; and the table of drawables that va_dricommon.c   *)
(* keeps for the driver.  Every display has a thread of its own; they      *)
(* share the descriptor numbers of the process.                            *)
(***************************************************************************)
EXTENDS DescriptorTable, Sequences, SequencesExt

CONSTANTS
  Display,
  Drawable,    \* X drawables, all with one value of the hash
  MaxInit      \* bound on the calls of vaInitialize on one display

ASSUME X11Assumption == MaxInit \in Nat

VARIABLES
  drm_state,   \* of each display: descriptor, auth_type, whether the DRI2
               \* hooks (close among them) are set
  source,      \* which extension gave the names of the driver
  opened,      \* whether the display has an open driver
  pc, inits,
  chain,       \* of each display: the drawables in the bucket of the table
  allocated    \* and those whose dri_drawable is allocated

connection_vars == <<drm_state, source, opened, pc, inits>>
drawable_vars == <<chain, allocated>>
x11_vars == <<connection_vars, drawable_vars>>
vars == <<file, x11_vars>>

(* vaGetDisplay.                                                           *)
X11Init == /\ drm_state = [d \in Display |->
                             [fd |-> -1, auth_type |-> "NONE", hooks |-> FALSE]]
           /\ source = [d \in Display |-> "none"]
           /\ opened = [d \in Display |-> FALSE]
           /\ pc = [d \in Display |-> "app"]
           /\ inits = [d \in Display |-> 0]
           /\ chain = [d \in Display |-> << >>]
           /\ allocated = [d \in Display |-> {}]

Goto(d, label) == pc' = [pc EXCEPT ![d] = label]

-----------------------------------------------------------------------------
(* LIBVA_DRI3_DISABLE is read at every call.                               *)
vaInitialize(d) ==
  /\ pc[d] = "app" /\ ~opened[d] /\ inits[d] < MaxInit
  /\ inits' = [inits EXCEPT ![d] = @ + 1]
  /\ \E start \in {"dri3", "dri2"} : Goto(d, start)
  /\ UNCHANGED <<drm_state, file, source, opened, drawable_vars>>

(* The driver's names are known: va_openDriver comes next.                 *)
Named(d, extension) == Goto(d, "open") /\ source' = [source EXCEPT ![d] = extension]

(* va_DRI3_GetDriverNames: a failed connection stores descriptor -1 and    *)
(* goes on, and VA_DRM_GetDriverNames refuses it; with a descriptor it     *)
(* fails when drmGetVersion does.  A primary node from the server has been *)
(* closed and its render node opened.                                      *)
va_DRI3_GetDriverNames(d) ==
  /\ pc[d] = "dri3"
  /\ LET Store(fd) == drm_state' = [drm_state EXCEPT ![d].fd = fd,
                                                    ![d].auth_type = "CUSTOM"]
     IN  \/ /\ Store(-1)
            /\ Goto(d, "dri2")
            /\ UNCHANGED <<file, source>>
         \/ /\ Free # {}
            /\ Store(Min(Free))
            /\ file' = Open(d, "render")
            /\ \/ Named(d, "DRI3")
               \/ Goto(d, "dri2") /\ UNCHANGED source
  /\ UNCHANGED <<opened, inits, drawable_vars>>

LeavesNumber(d) == drm_state   \* mutant: a closed descriptor keeps its number

(* A descriptor that an earlier attempt, or DRI3, left authenticated.      *)
Authenticated(d) == drm_state[d].fd # -1 /\ drm_state[d].auth_type # "NONE"

(* err_out forgets the descriptor it has closed.                           *)
Forgotten(d) == [drm_state EXCEPT ![d].fd = -1]

(* va_DRI2_GetDriverNames.  A device that cannot be opened or              *)
(* authenticated is closed again before anyone else sees it.               *)
va_DRI2_GetDriverNames(d) ==
  /\ pc[d] = "dri2"
  /\ \/ /\ drm_state' = Forgotten(d)
        /\ file' = Close(drm_state[d].fd)
        /\ Goto(d, "other")
        /\ UNCHANGED source
     \/ /\ Authenticated(d)
        /\ Named(d, "DRI2")
        /\ UNCHANGED <<drm_state, file>>
     \/ /\ ~Authenticated(d) /\ Free # {}
        /\ file' \in {Open(d, node) : node \in {"render", "authenticated"}}
        /\ drm_state' = [drm_state EXCEPT
             ![d] = [fd |-> Min(Free), auth_type |-> "DRI2", hooks |-> TRUE]]
        /\ Named(d, "DRI2")
  /\ UNCHANGED <<opened, inits, drawable_vars>>

(* NV-CONTROL and ATI's extension need no descriptor, nor does a driver    *)
(* that is requested by name, which va_new_opendriver opens without any    *)
(* names of theirs; without that vaInitialize fails.                       *)
va_DisplayContextGetDriverNames(d) ==
  /\ pc[d] = "other"
  /\ \/ Named(d, "other")
     \/ Goto(d, "app") /\ UNCHANGED source
  /\ UNCHANGED <<drm_state, file, opened, inits, drawable_vars>>

va_openDriver(d) ==
  /\ pc[d] = "open"
  /\ \E ok \in BOOLEAN : opened' = [opened EXCEPT ![d] = ok]
  /\ Goto(d, "app")
  /\ UNCHANGED <<drm_state, file, source, inits, drawable_vars>>

-----------------------------------------------------------------------------
(* The driver draws to x: the dri_drawable of the table, or a new one that *)
(* goes before the others of its bucket.                                   *)
va_dri_get_drawable(d, x) ==
  /\ opened[d] /\ pc[d] = "app" /\ drm_state[d].hooks
  /\ x \notin ToSet(chain[d])
  /\ chain' = [chain EXCEPT ![d] = <<x>> \o @]
  /\ allocated' = [allocated EXCEPT ![d] = @ \cup {x}]
  /\ UNCHANGED <<file, connection_vars>>

\* Mutant: the bucket keeps the drawable that was freed.
BucketKept(d) == chain[d]
BucketLeft(d) == << >>

(* The driver is done with x.  The bucket is emptied when x is its first   *)
(* drawable, and what comes behind x is never freed; when x is not the     *)
(* first, nothing happens.                                                 *)
va_dri_free_drawable(d, x) ==
  /\ opened[d] /\ pc[d] = "app"
  /\ chain[d] # << >> /\ x = Head(chain[d])
  /\ chain' = [chain EXCEPT ![d] = BucketLeft(d)]
  /\ allocated' = [allocated EXCEPT ![d] = @ \ {x}]
  /\ UNCHANGED <<file, connection_vars>>

-----------------------------------------------------------------------------
(* vaTerminate, with an open driver or without: va_DisplayContextDestroy   *)
(* runs the close hook and then closes the descriptor itself.              *)
vaTerminate(d) ==
  /\ pc[d] = "app"
  /\ opened' = [opened EXCEPT ![d] = FALSE]
  /\ Goto(d, IF drm_state[d].hooks THEN "dri2Close" ELSE "destroy")
  /\ UNCHANGED <<drm_state, file, source, inits, drawable_vars>>

(* It frees the table with all its drawables; the number stays in          *)
(* dri_state.                                                              *)
dri2Close(d) ==
  /\ pc[d] = "dri2Close"
  /\ chain' = [chain EXCEPT ![d] = << >>]
  /\ allocated' = [allocated EXCEPT ![d] = @ \ ToSet(chain[d])]
  /\ file' = Close(drm_state[d].fd)
  /\ Goto(d, "destroy")
  /\ UNCHANGED <<drm_state, source, opened, inits>>

va_DisplayContextDestroy(d) ==
  /\ pc[d] = "destroy"
  /\ file' = Close(drm_state[d].fd)
  /\ Goto(d, "destroyed")
  /\ UNCHANGED <<drm_state, source, opened, inits, drawable_vars>>

X11Next == \E d \in Display :
  \/ vaInitialize(d)
  \/ va_DRI3_GetDriverNames(d)
  \/ va_DRI2_GetDriverNames(d)
  \/ va_DisplayContextGetDriverNames(d)
  \/ va_openDriver(d)
  \/ vaTerminate(d)
  \/ dri2Close(d)
  \/ va_DisplayContextDestroy(d)
  \/ \E x \in Drawable : va_dri_get_drawable(d, x) \/ va_dri_free_drawable(d, x)

X11Spec == file = AllClosed /\ X11Init /\ [][X11Next]_vars

-----------------------------------------------------------------------------
(* A driver found through DRI has, from va_openDriver on, a descriptor     *)
(* that this display has open: an auth_type that a failed attempt left     *)
(* behind is never taken for a working connection.                         *)
X11HasDevice ==
  \A d \in Display :
    (pc[d] = "open" \/ opened[d]) /\ source[d] \in {"DRI3", "DRI2"}
      => Usable(drm_state[d].fd, d)

(* A terminated display that was initialised once has no descriptor open,  *)
(* whichever extension gave it and wherever the attempt failed.            *)
X11Returned ==
  \A d \in Display : pc[d] = "destroyed" /\ inits[d] <= 1
                       => \A n \in FD : file[n].by # d

(* No dri_drawable that has been freed is in the table, where the driver   *)
(* would be given it and dri2Close would free it again.                    *)
DrawablesOwned == \A d \in Display : ToSet(chain[d]) \subseteq allocated[d]

(* Some display used DRI2 and is destroyed: it has closed a number twice.  *)
ClosedTwice == \E d \in Display : pc[d] = "destroyed" /\ drm_state[d].hooks

(* va.h:147-149 promises that calls of concurrent threads do not corrupt   *)
(* VAAPI's data: the descriptor of an open display is the one it opened,   *)
(* whatever other displays do.                                             *)
DescriptorIntact ==
  \A d \in Display : opened[d] /\ drm_state[d].fd # -1
                       => file[drm_state[d].fd].by = d
=============================================================================
