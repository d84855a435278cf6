------------------------------ MODULE Backends ------------------------------
(***************************************************************************)
(* A process with displays of several window systems at once: the X11,     *)
(* Wayland and DRM displays run side by side and meet in the descriptor    *)
(* table of the process.                                                   *)
(***************************************************************************)
EXTENDS X11Display, WaylandDisplay, DrmDisplay

CONSTANT MaxInUse     \* bound on the displays that a process uses

ASSUME BackendsAssumption == MaxInUse \in Nat

(* Displays are objects of their own, of one window system each.           *)
ASSUME OwnersAssumption ==
  /\ Display \cap (WlDisplay \cup DrmApp) = {} /\ WlDisplay \cap DrmApp = {}
  /\ "nobody" \notin Display \cup WlDisplay \cup DrmApp

Init == file = AllClosed /\ X11Init /\ WlInit /\ DrmInit

Next ==
  \/ X11Next /\ UNCHANGED <<wl_vars, drm_vars>>
  \/ WlNext /\ UNCHANGED <<x11_vars, drm_vars>>
  \/ DrmNext /\ UNCHANGED <<x11_vars, wl_vars>>

Spec == Init /\ [][Next]_<<vars, wl_vars, drm_vars>>

(* The bounds of the run: how many window systems a process uses, and      *)
(* nothing after the second close of a number (see DescriptorIntact).      *)
InUse == {d \in Display : inits[d] > 0 \/ pc[d] # "app"}
           \cup {d \in WlDisplay : wl_pc[d] # "none"}
           \cup {a \in DrmApp : drm_pc[a] # "none"}
Bounds == Cardinality(InUse) <= MaxInUse /\ ~ClosedTwice

-----------------------------------------------------------------------------
(* A driver whose name the device gave, or on DRM whose drm_state has an   *)
(* auth_type, runs with a device that its display has open and may use,    *)
(* whatever the displays of other window systems open and close at the     *)
(* same time, as long as no display that used DRI2 has been destroyed (see *)
(* DescriptorIntact).                                                      *)
DriverHasDevice ==
  ~ClosedTwice => X11HasDevice /\ WlHasDevice /\ DrmHasDevice

(* Displays that are gone have no descriptor open, and the application's   *)
(* own is closed by nobody else.                                           *)
DescriptorsReturned ==
  ~ClosedTwice => X11Returned /\ WlReturned /\ DrmReturned
=============================================================================
