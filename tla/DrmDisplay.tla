----------------------------- MODULE DrmDisplay -----------------------------
(***************************************************************************)
(* Displays of va/drm: the application opens the node and gives its        *)
(* descriptor to vaGetDisplayDRM; vaInitialize authenticates it unless it  *)
(* is a render node, with the help of an X server or as the master; a      *)
(* driver that is asked for by name is opened without that as well.  The   *)
(* application closes the descriptor when it is done with the display.     *)
(***************************************************************************)
EXTENDS DescriptorTable

CONSTANT DrmApp     \* applications' threads with a DRM display each

VARIABLES
  drm_pc,
  drm_fd,           \* the application's descriptor, given to the display
  display_type,
  drm_auth          \* auth_type of drm_state

drm_vars == <<drm_pc, drm_fd, display_type, drm_auth>>

DrmInit == /\ drm_pc = [a \in DrmApp |-> "none"]
           /\ drm_fd = [a \in DrmApp |-> -1]
           /\ display_type = [a \in DrmApp |-> "none"]
           /\ drm_auth = [a \in DrmApp |-> "NONE"]

DrmGoto(a, label) == drm_pc' = [drm_pc EXCEPT ![a] = label]

(* The application opens a node and calls vaGetDisplayDRM.                 *)
vaGetDisplayDRM(a) ==
  /\ drm_pc[a] = "none" /\ Free # {}
  /\ \E node \in {"render", "primary"} :
       /\ file' = Open(a, node)
       /\ display_type' = [display_type EXCEPT ![a] =
            IF node = "render" THEN "DRM_RENDERNODES" ELSE "DRM"]
  /\ drm_fd' = [drm_fd EXCEPT ![a] = Min(Free)]
  /\ drm_auth' = [drm_auth EXCEPT ![a] = "NONE"]
  /\ DrmGoto(a, "display")

(* No authentication is needed.                                            *)
Exempt(a) == display_type[a] = "DRM_RENDERNODES"

(* va_DisplayContextConnect; the kernel authenticates what is open there.  *)
(* When it fails there are no names, but a driver that the application or  *)
(* the environment requested is opened all the same (va_new_opendriver).   *)
va_DisplayContextConnect(a) ==
  /\ drm_pc[a] = "display"
  /\ \/ /\ ~Exempt(a)
        /\ \E requested \in BOOLEAN : DrmGoto(a, IF requested THEN "open" ELSE "display")
        /\ UNCHANGED <<file, drm_auth>>
     \/ /\ file' = IF Exempt(a) THEN file
                   ELSE [file EXCEPT ![drm_fd[a]].node = "authenticated"]
        /\ drm_auth' = [drm_auth EXCEPT ![a] = "CUSTOM"]
        /\ DrmGoto(a, "open")
  /\ UNCHANGED <<drm_fd, display_type>>

(* VA_DRM_GetDriverNames and va_openDriver, which may fail.                *)
DrmOpenDriver(a) ==
  /\ drm_pc[a] = "open"
  /\ \E label \in {"display", "driver"} : DrmGoto(a, label)
  /\ UNCHANGED <<file, drm_fd, display_type, drm_auth>>

(* vaTerminate frees drm_state; the descriptor is the application's.       *)
DrmTerminate(a) ==
  /\ drm_pc[a] \in {"display", "driver"}
  /\ DrmGoto(a, "terminated")
  /\ UNCHANGED <<file, drm_fd, display_type, drm_auth>>

AppCloses(a) ==
  /\ drm_pc[a] = "terminated"
  /\ file' = Close(drm_fd[a])
  /\ DrmGoto(a, "closed")
  /\ UNCHANGED <<drm_fd, display_type, drm_auth>>

DrmNext == \E a \in DrmApp :
  \/ vaGetDisplayDRM(a) \/ va_DisplayContextConnect(a) \/ DrmOpenDriver(a)
  \/ DrmTerminate(a) \/ AppCloses(a)

-----------------------------------------------------------------------------
(* What drm_state tells a driver is true: with an auth_type it has a node  *)
(* it may use.  A requested driver may find NONE, and a primary node that  *)
(* nobody authenticated.                                                   *)
DrmHasDevice ==
  \A a \in DrmApp :
    drm_pc[a] \in {"open", "driver"} /\ drm_auth[a] # "NONE" => Usable(drm_fd[a], a)

(* The library never closes the application's descriptor.                  *)
DrmReturned ==
  \A a \in DrmApp : drm_pc[a] \in {"display", "open", "driver", "terminated"}
                      => file[drm_fd[a]].by = a
=============================================================================
