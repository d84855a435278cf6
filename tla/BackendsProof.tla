---------------------------- MODULE BackendsProof ----------------------------
(***************************************************************************)
(* Proofs about the displays of a process: every descriptor has one owner, *)
(* for any numbers of displays of each window system.                      *)
(***************************************************************************)
EXTENDS Backends, LeastElement

-----------------------------------------------------------------------------
(* Who owns what.                                                          *)

Owner == Display \cup WlDisplay \cup DrmApp

Node == {"none", "render", "primary", "authenticated"}

FileType == file \in [FD -> [by : Owner \cup {"nobody"}, node : Node]]

X11Type ==
  /\ drm_state \in [Display -> [fd : FD \cup {-1},
                                auth_type : {"NONE", "CUSTOM", "DRI2"}, hooks : BOOLEAN]]
  /\ source \in [Display -> {"none", "DRI3", "DRI2", "other"}]
  /\ opened \in [Display -> BOOLEAN]
  /\ pc \in [Display -> {"app", "dri3", "dri2", "other", "open", "dri2Close",
                         "destroy", "destroyed"}]
  /\ inits \in [Display -> Nat]
  /\ chain \in [Display -> Seq(Drawable)]
  /\ allocated \in [Display -> SUBSET Drawable]

Event == {"linux_dmabuf", "wl_drm", "sync", "format_table", "main_device", "done",
          "device", "capabilities", "authenticated"}

Fact == {"has_linux_dmabuf", "default_feedback_done", "is_authenticated"}
Proxy == {"queue", "wrapper", "registry", "feedback", "drm"}

WlType ==
  /\ wl_pc \in [WlDisplay -> {"none", "create", "failed", "dispatch", "created",
                              "display", "no display", "crashed", "terminated"}]
  /\ backend \in [WlDisplay -> {"none", "linux_dmabuf", "wl_drm"}]
  /\ stage \in [WlDisplay -> Nat]
  /\ opaque \in [WlDisplay -> {"none", "linux_dmabuf", "wl_drm"}]
  /\ wl_drm_state \in [WlDisplay -> [fd : FD \cup {-2, -1},
                                     auth_type : {"NONE", "CUSTOM"}]]
  /\ got \in [WlDisplay -> SUBSET Fact]
  /\ proxies \in [WlDisplay -> SUBSET Proxy]
  /\ events \in [WlDisplay -> [private : Seq(Event), default : Seq({"app"})]]
  /\ offers \in [WlDisplay -> Compositors]
  /\ faults \in [WlDisplay -> BOOLEAN]
  /\ wl_opened \in [WlDisplay -> BOOLEAN]

DrmType ==
  /\ drm_pc \in [DrmApp -> {"none", "display", "open", "driver", "terminated", "closed"}]
  /\ drm_fd \in [DrmApp -> FD \cup {-1}]
  /\ display_type \in [DrmApp -> {"none", "DRM", "DRM_RENDERNODES"}]
  /\ drm_auth \in [DrmApp -> {"NONE", "CUSTOM"}]

TypeOK == FileType /\ X11Type /\ WlType /\ DrmType

-----------------------------------------------------------------------------
(* X11 displays.  A display that has run its close hook has a number that  *)
(* it does not have open, until it is destroyed.                           *)
Over(d) == pc[d] = "destroyed" \/ (pc[d] = "destroy" /\ drm_state[d].hooks)

X11Local(d) ==
  /\ drm_state[d].fd # -1 => drm_state[d].auth_type # "NONE"
  /\ inits[d] = 0 => drm_state[d].fd = -1
  /\ inits[d] = 0 => pc[d] \in {"app", "dri2Close", "destroy", "destroyed"}
  /\ pc[d] = "dri3" /\ inits[d] <= 1 => drm_state[d].fd = -1
  /\ opened[d] => pc[d] = "app"
  /\ (pc[d] = "open" \/ opened[d]) /\ source[d] \in {"DRI3", "DRI2"}
       => drm_state[d].fd # -1
  /\ pc[d] = "dri2Close" => drm_state[d].hooks

X11Owns(d) ==
  /\ drm_state[d].fd # -1 /\ ~Over(d) => Usable(drm_state[d].fd, d)
  /\ inits[d] <= 1 => \A n \in FD : file[n].by = d => n = drm_state[d].fd /\ ~Over(d)

-----------------------------------------------------------------------------
(* Wayland displays.                                                       *)
Has(q, S) == \E i \in 1 .. Len(q) : q[i] \in S
AtMostOne(q, S) == \A i, j \in 1 .. Len(q) : q[i] \in S /\ q[j] \in S => i = j
Before(q, S, e) == \A i \in 1 .. Len(q) : q[i] = e => \E j \in 1 .. i : j # i /\ q[j] \in S

Queue(d) == events[d].private
WlFd(d) == wl_drm_state[d].fd

Opening(b) == {b, "main_device", "device"}
Finishing(b) == {b, "done"}

QueueInv(d) ==
  /\ AtMostOne(Queue(d), Opening(backend[d]))
  /\ Has(Queue(d), Opening(backend[d])) => WlFd(d) = -1
  /\ AtMostOne(Queue(d), Finishing(backend[d]))
  /\ Has(Queue(d), Finishing(backend[d])) => "default_feedback_done" \notin got[d]
  /\ AtMostOne(Queue(d), {"sync"})
  /\ Has(Queue(d), {"main_device", "done"}) => backend[d] = "linux_dmabuf"
  /\ Has(Queue(d), {"device", "authenticated"}) => backend[d] = "wl_drm"
  /\ Has(Queue(d), {"authenticated"}) => WlFd(d) \in FD

WlLocal(d) ==
  /\ wl_pc[d] \in {"none", "create", "display"} => Queue(d) = << >>
  /\ wl_pc[d] \in {"none", "create"} => got[d] = {} /\ proxies[d] \subseteq {"feedback"}
  /\ wl_pc[d] \in {"none", "create"} \/ WlOver(d) => wl_drm_state[d] = NoState
  /\ wl_pc[d] = "none" => backend[d] = "none"
  /\ wl_pc[d] \notin {"none", "no display", "terminated"} => backend[d] # "none"
  /\ wl_pc[d] \in {"dispatch", "created", "display"} => opaque[d] = backend[d]
  /\ wl_pc[d] = "dispatch" =>
       stage[d] >= 1 /\ stage[d] <= (IF backend[d] = "wl_drm" THEN 3 ELSE 2)
  /\ wl_drm_state[d].auth_type = "CUSTOM" => WlFd(d) \in FD
  /\ backend[d] = "linux_dmabuf" /\ WlFd(d) \in FD => wl_drm_state[d].auth_type = "CUSTOM"
  /\ backend[d] = "wl_drm" /\ wl_drm_state[d].auth_type = "CUSTOM"
       => "is_authenticated" \in got[d]
  /\ "is_authenticated" \in got[d] => wl_drm_state[d].auth_type = "CUSTOM"
  /\ wl_pc[d] \in {"created", "display"} => wl_drm_state[d].auth_type = "CUSTOM"

FeedbackInv(d) ==
  /\ "feedback" \in proxies[d] /\ ~faults[d] =>
       /\ backend[d] = "linux_dmabuf" /\ wl_pc[d] = "dispatch"
       /\ "has_linux_dmabuf" \in got[d] /\ "default_feedback_done" \notin got[d]
  /\ WlOver(d) \/ wl_pc[d] = "display" => proxies[d] \subseteq {"feedback"}

DmabufProgress(d) ==
  backend[d] = "linux_dmabuf" =>
    /\ "linux_dmabuf" \in offers[d] /\ "has_linux_dmabuf" \notin got[d]
         => Before(Queue(d), {"linux_dmabuf"}, "sync")
    /\ "render_node" \in offers[d] /\ WlFd(d) \notin FD =>
         /\ Before(Queue(d), {"main_device"}, "done")
         /\ "default_feedback_done" \notin got[d]
    /\ wl_pc[d] = "failed" => "render_node" \notin offers[d]

WlDrmProgress(d) ==
  backend[d] = "wl_drm" =>
    /\ "render_node" \notin offers[d]
    /\ "wl_drm" \in offers[d] /\ "drm" \notin proxies[d]
         => Before(Queue(d), {"wl_drm"}, "sync")
    /\ "drm" \in proxies[d] => ~ Has(Queue(d), {"wl_drm"})
    /\ wl_pc[d] = "dispatch" /\ stage[d] >= 2 => "drm" \in proxies[d]
    /\ "drm" \in proxies[d] /\ WlFd(d) \notin FD =>
         Has(Queue(d), {"device"}) /\ (stage[d] = 2 => Before(Queue(d), {"device"}, "sync"))
    /\ wl_pc[d] = "dispatch" /\ stage[d] = 3 => WlFd(d) \in FD
    /\ WlFd(d) \in FD /\ "is_authenticated" \notin got[d] =>
         /\ Has(Queue(d), {"authenticated"})
         /\ stage[d] = 3 => Before(Queue(d), {"authenticated"}, "sync")
    /\ wl_pc[d] \in {"failed", "no display"} => "wl_drm" \notin offers[d]

ProgressInv(d) ==
  ~faults[d] => /\ DmabufProgress(d) /\ WlDrmProgress(d)
                /\ wl_pc[d] = "no display" => backend[d] = "wl_drm"

WlOwns(d) ==
  /\ \A n \in FD : file[n].by = d <=> n = WlFd(d)
  /\ wl_drm_state[d].auth_type = "CUSTOM" => Usable(WlFd(d), d)

-----------------------------------------------------------------------------
(* DRM displays.                                                           *)
DrmOwns(a) ==
  drm_pc[a] \in {"display", "open", "driver", "terminated"} =>
    /\ drm_fd[a] \in FD /\ file[drm_fd[a]].by = a
    /\ display_type[a] = "DRM_RENDERNODES" => file[drm_fd[a]].node = "render"
    /\ drm_auth[a] # "NONE" => Usable(drm_fd[a], a)

-----------------------------------------------------------------------------
IInv ==
  /\ TypeOK
  /\ \A d \in Display : X11Local(d)
  /\ \A d \in WlDisplay : QueueInv(d) /\ WlLocal(d) /\ FeedbackInv(d) /\ ProgressInv(d)
  /\ ~ClosedTwice =>
       /\ \A d \in Display : X11Owns(d)
       /\ \A d \in WlDisplay : WlOwns(d)
       /\ \A a \in DrmApp : DrmOwns(a)

-----------------------------------------------------------------------------
(* The descriptor table.                                                   *)

(* A step of owner o changes only descriptors that are o's or closed, and  *)
(* leaves them o's or closed.                                              *)
Touches(o) ==
  \A n \in FD : \/ file'[n] = file[n]
                \/ file[n].by \in {o, "nobody"} /\ file'[n].by \in {o, "nobody"}

(* The owners of different window systems are different.                   *)
LEMMA Owners ==
  /\ \A d \in Display : d \notin WlDisplay /\ d \notin DrmApp
  /\ \A d \in WlDisplay : d \notin DrmApp
  /\ \A o \in Owner : o # "nobody"
BY OwnersAssumption DEF Owner

(* Opening takes a number that was closed, and no other.                   *)
LEMMA OpensLeast ==
  ASSUME FileType, NEW o \in Owner, NEW node \in Node, Free # {}, file' = Open(o, node)
  PROVE  /\ FileType' /\ Touches(o)
         /\ \E m \in FD : /\ m = Min(Free)
                          /\ file[m].by = "nobody"
                          /\ file'[m] = [by |-> o, node |-> node]
                          /\ \A n \in FD : n # m => file'[n] = file[n]
<1>1. Free \in SUBSET Nat
  BY FDAssumption DEF Free
<1>2. Min(Free) \in Free
  BY <1>1, MinIsLeast
<1> DEFINE m == Min(Free)
<1> HIDE DEF m
<1>3. m \in FD /\ file[m] = Closed
  BY <1>2 DEF Free, m
<1>4. file' = [file EXCEPT ![m] = [by |-> o, node |-> node]]
  BY DEF Open, m
<1>5. /\ file'[m] = [by |-> o, node |-> node]
      /\ \A n \in FD : n # m => file'[n] = file[n]
  BY <1>3, <1>4 DEF FileType
<1>6. file[m].by = "nobody"
  BY <1>3 DEF Closed
<1>7. FileType'
  BY <1>3, <1>4 DEF FileType
<1>8. file'[m].by = o
  BY <1>5
<1>9. Touches(o)
  BY <1>5, <1>6, <1>8 DEF Touches
<1> QED
  BY <1>3, <1>5, <1>6, <1>7, <1>9 DEF m

(* Closing keeps the table well typed, whatever is closed.                 *)
LEMMA ClosesTyped ==
  ASSUME FileType, NEW n, file' = Close(n)
  PROVE  FileType' /\ (n \in FD => file'[n] = Closed)
         /\ \A j \in FD : j # n => file'[j] = file[j]
<1>1. Closed \in [by : Owner \cup {"nobody"}, node : Node]
  BY DEF Closed, Node
<1> QED
  BY <1>1 DEF FileType, Close

(* Closing one's own descriptor, or a number that is none, touches no other. *)
LEMMA ClosesOwn ==
  ASSUME FileType, NEW o \in Owner, NEW n, n \in FD => file[n].by = o, file' = Close(n)
  PROVE  Touches(o) /\ (n \in FD => file'[n].by = "nobody")
<1>1. n \in FD => file'[n] = Closed
  BY ClosesTyped
<1>2. \A j \in FD : j # n => file'[j] = file[j]
  BY ClosesTyped
<1>3. Closed.by = "nobody"
  BY DEF Closed
<1> QED
  BY <1>1, <1>2, <1>3 DEF Touches

-----------------------------------------------------------------------------
(* What a step leaves of the displays that do not take it.                 *)

(* Another owner's step leaves an X11 display its descriptors.             *)
LEMMA X11Frame ==
  ASSUME FileType, NEW o \in Owner, NEW d \in Display, d # o, Touches(o), X11Owns(d),
         drm_state'[d] = drm_state[d], pc'[d] = pc[d], inits'[d] = inits[d]
  PROVE  X11Owns(d)'
<1>1. d # "nobody"
  BY Owners DEF Owner
<1>2. \A n \in FD : file[n].by = d \/ file'[n].by = d => file'[n] = file[n]
  BY <1>1 DEF Touches
<1>3. Over(d)' = Over(d)
  BY DEF Over
<1> QED
  BY <1>2, <1>3 DEF X11Owns, Usable

(* And a Wayland display.                                                  *)
LEMMA WlFrame ==
  ASSUME FileType, NEW o \in Owner, NEW d \in WlDisplay, d # o, Touches(o), WlOwns(d),
         wl_drm_state'[d] = wl_drm_state[d]
  PROVE  WlOwns(d)'
<1>1. d # "nobody"
  BY Owners DEF Owner
<1>2. \A n \in FD : file[n].by = d \/ file'[n].by = d => file'[n] = file[n]
  BY <1>1 DEF Touches
<1> QED
  BY <1>2 DEF WlOwns, WlFd, Usable

(* And a DRM display.                                                      *)
LEMMA DrmFrame ==
  ASSUME FileType, NEW o \in Owner, NEW a \in DrmApp, a # o, Touches(o), DrmOwns(a),
         drm_pc'[a] = drm_pc[a], drm_fd'[a] = drm_fd[a],
         display_type'[a] = display_type[a], drm_auth'[a] = drm_auth[a]
  PROVE  DrmOwns(a)'
<1>1. a # "nobody"
  BY Owners DEF Owner
<1>2. \A n \in FD : file[n].by = a \/ file'[n].by = a => file'[n] = file[n]
  BY <1>1 DEF Touches
<1> QED
  BY <1>2 DEF DrmOwns, Usable

-----------------------------------------------------------------------------
(* Steps of X11 displays.                                                  *)

(* The display has closed a number twice.                                  *)
Gone(d) == pc[d] = "destroyed" /\ drm_state[d].hooks

(* The other displays are as they were.                                    *)
X11Alone(d) ==
  \A e \in Display : e # d => /\ drm_state'[e] = drm_state[e] /\ source'[e] = source[e]
                              /\ opened'[e] = opened[e] /\ pc'[e] = pc[e]
                              /\ inits'[e] = inits[e]

(* What every step of an X11 display does.                                 *)
X11Good(d) ==
  /\ FileType' /\ X11Type'
  /\ X11Alone(d)
  /\ X11Local(d)'
  /\ pc[d] # "destroyed"
  /\ X11Owns(d) /\ ~Gone(d)' => Touches(d) /\ X11Owns(d)'

(* A step that leaves the table and the descriptor alone.                  *)
LEMMA X11Quiet ==
  ASSUME FileType, X11Type', NEW d \in Display, file' = file,
         drm_state'[d] = drm_state[d], inits'[d] = inits[d] \/ drm_state[d].fd = -1,
         inits'[d] >= inits[d] /\ inits[d] \in Nat /\ inits'[d] \in Nat,
         Over(d)' = Over(d),
         X11Alone(d), X11Local(d)', pc[d] # "destroyed"
  PROVE  X11Good(d)
<1>1. FileType'
  BY DEF FileType
<1>2. Touches(d)
  BY DEF Touches
<1>3. X11Owns(d) => X11Owns(d)'
  BY DEF X11Owns, Usable
<1> QED
  BY <1>1, <1>2, <1>3 DEF X11Good

(* A new attempt keeps the descriptor of the one before.                   *)
LEMMA InitializeGood ==
  ASSUME FileType, X11Type, NEW d \in Display, X11Local(d), vaInitialize(d)
  PROVE  X11Good(d)
<1>1. PICK start \in {"dri3", "dri2"} :
        /\ pc' = [pc EXCEPT ![d] = start]
        /\ inits' = [inits EXCEPT ![d] = @ + 1]
        /\ UNCHANGED <<drm_state, file, source, opened, chain, allocated>>
        /\ pc[d] = "app" /\ ~opened[d]
  BY DEF vaInitialize, Goto, drawable_vars
<1>2. inits[d] \in Nat /\ inits'[d] = inits[d] + 1 /\ pc'[d] = start
  BY <1>1 DEF X11Type
<1>3. X11Type'
  BY <1>1 DEF X11Type
<1>4. X11Alone(d)
  BY <1>1 DEF X11Alone, X11Type
<1>5. X11Local(d)'
  BY <1>1, <1>2 DEF X11Local
<1>6. ~Over(d) /\ ~Over(d)'
  BY <1>1, <1>2 DEF Over
<1>7. inits[d] = 0 => drm_state[d].fd = -1
  BY DEF X11Local
<1>8. X11Owns(d) => X11Owns(d)'
  BY <1>1, <1>2, <1>6, <1>7 DEF X11Owns, Usable
<1>9. FileType' /\ Touches(d)
  BY <1>1 DEF FileType, Touches
<1> QED
  BY <1>1, <1>3, <1>4, <1>5, <1>8, <1>9 DEF X11Good

(* The first attempt finds no descriptor, and a later one forgets it.      *)
LEMMA DRI3Good ==
  ASSUME FileType, X11Type, NEW d \in Display, X11Local(d), va_DRI3_GetDriverNames(d)
  PROVE  X11Good(d)
<1> DEFINE Store(n) == drm_state' = [drm_state EXCEPT ![d].fd = n, ![d].auth_type = "CUSTOM"]
<1>1. pc[d] = "dri3" /\ UNCHANGED <<opened, inits, chain, allocated>>
  BY DEF va_DRI3_GetDriverNames, drawable_vars
<1>2. d \in Owner
  BY DEF Owner
<1>3. ASSUME NEW n \in FD \cup {-1}, Store(n)
      PROVE  /\ drm_state'[d].fd = n /\ drm_state'[d].auth_type = "CUSTOM"
             /\ drm_state' \in [Display -> [fd : FD \cup {-1},
                                 auth_type : {"NONE", "CUSTOM", "DRI2"}, hooks : BOOLEAN]]
             /\ \A e \in Display : e # d => drm_state'[e] = drm_state[e]
  BY <1>3, ZenonT(60) DEF X11Type
<1>4. inits[d] # 0 /\ inits[d] \in Nat /\ ~opened[d]
  BY <1>1 DEF X11Local, X11Type
<1>5. inits[d] <= 1 => drm_state[d].fd = -1
  BY <1>1 DEF X11Local
<1>6. CASE /\ Store(-1) /\ pc' = [pc EXCEPT ![d] = "dri2"]
           /\ UNCHANGED <<file, source>>
  <2>1. pc'[d] = "dri2" /\ \A e \in Display : e # d => pc'[e] = pc[e]
    BY <1>6 DEF X11Type
  <2>2. /\ drm_state'[d].fd = -1 /\ drm_state'[d].auth_type = "CUSTOM"
        /\ X11Type' /\ X11Alone(d)
    <3>1. -1 \in FD \cup {-1}
      OBVIOUS
    <3> QED
      BY <1>1, <1>3, <1>6, <2>1, <3>1 DEF X11Alone, X11Type
  <2>3. X11Local(d)'
    BY <1>1, <1>4, <2>1, <2>2 DEF X11Local
  <2>4. X11Owns(d) => X11Owns(d)'
    BY <1>1, <1>5, <1>6, <2>1, <2>2 DEF X11Owns, Over
  <2>5. FileType' /\ Touches(d)
    BY <1>6 DEF FileType, Touches
  <2> QED
    BY <1>1, <2>2, <2>3, <2>4, <2>5 DEF X11Good
<1>7. CASE /\ Free # {} /\ Store(Min(Free)) /\ file' = Open(d, "render")
           /\ \/ pc' = [pc EXCEPT ![d] = "open"] /\ source' = [source EXCEPT ![d] = "DRI3"]
              \/ pc' = [pc EXCEPT ![d] = "dri2"] /\ UNCHANGED source
  <2>0. FileType' /\ Touches(d)
    BY <1>2, <1>7, OpensLeast DEF Node
  <2>1. PICK m \in FD : /\ m = Min(Free) /\ file[m].by = "nobody"
                        /\ file'[m] = [by |-> d, node |-> "render"]
                        /\ \A n \in FD : n # m => file'[n] = file[n]
    BY <1>2, <1>7, OpensLeast DEF Node
  <2>2. /\ drm_state'[d].fd = m /\ drm_state'[d].auth_type = "CUSTOM"
        /\ drm_state' \in [Display -> [fd : FD \cup {-1},
                            auth_type : {"NONE", "CUSTOM", "DRI2"}, hooks : BOOLEAN]]
        /\ \A e \in Display : e # d => drm_state'[e] = drm_state[e]
    BY <1>3, <1>7, <2>1
  <2>3. /\ pc'[d] \in {"open", "dri2"} /\ \A e \in Display : e # d => pc'[e] = pc[e]
        /\ \A e \in Display : e # d => source'[e] = source[e]
        /\ pc' \in [Display -> {"app", "dri3", "dri2", "other", "open", "dri2Close",
                                "destroy", "destroyed"}]
        /\ source' \in [Display -> {"none", "DRI3", "DRI2", "other"}]
    BY <1>7 DEF X11Type
  <2>4. X11Type' /\ X11Alone(d)
    BY <1>1, <2>2, <2>3 DEF X11Alone, X11Type
  <2>5. m # -1
    BY <2>1, FDAssumption
  <2>6. X11Local(d)'
    BY <1>1, <1>4, <2>2, <2>3, <2>5 DEF X11Local
  <2>7. Usable(m, d)'
    BY <2>1 DEF Usable
  <2>8. X11Owns(d) => X11Owns(d)'
    <3>1. ASSUME X11Owns(d), inits[d] <= 1, NEW n \in FD, file'[n].by = d
          PROVE  n = m
      BY <1>5, <2>1, <3>1, FDAssumption DEF X11Owns
    <3>2. ~Over(d)'
      BY <2>3 DEF Over
    <3> QED
      BY <1>1, <2>2, <2>7, <3>1, <3>2 DEF X11Owns
  <2> QED
    BY <1>1, <2>0, <2>4, <2>6, <2>8 DEF X11Good
<1> QED
  BY <1>6, <1>7 DEF va_DRI3_GetDriverNames, Goto, Named

(* An unauthenticated display has no descriptor to lose.                   *)
LEMMA DRI2Good ==
  ASSUME FileType, X11Type, NEW d \in Display, X11Local(d), va_DRI2_GetDriverNames(d)
  PROVE  X11Good(d)
<1>1. pc[d] = "dri2" /\ UNCHANGED <<opened, inits, chain, allocated>>
  BY DEF va_DRI2_GetDriverNames, drawable_vars
<1>2. d \in Owner
  BY DEF Owner
<1>3. inits[d] # 0 /\ inits[d] \in Nat /\ ~opened[d]
  BY <1>1 DEF X11Local, X11Type
<1>4. ~Over(d)
  BY <1>1 DEF Over
<1>5. CASE /\ drm_state' = Forgotten(d) /\ file' = Close(drm_state[d].fd)
           /\ pc' = [pc EXCEPT ![d] = "other"] /\ UNCHANGED source
  <2>1. /\ drm_state'[d] = [drm_state[d] EXCEPT !.fd = -1]
        /\ \A e \in Display : e # d => drm_state'[e] = drm_state[e]
        /\ drm_state' \in [Display -> [fd : FD \cup {-1},
                            auth_type : {"NONE", "CUSTOM", "DRI2"}, hooks : BOOLEAN]]
    BY <1>5, ZenonT(60) DEF Forgotten, X11Type
  <2>2. drm_state'[d].fd = -1
    BY <2>1 DEF X11Type
  <2>3. pc'[d] = "other" /\ \A e \in Display : e # d => pc'[e] = pc[e]
    BY <1>5 DEF X11Type
  <2>4. X11Type'
    BY <1>1, <1>5, <2>1 DEF X11Type
  <2>5. X11Alone(d)
    BY <1>1, <1>5, <2>1, <2>3 DEF X11Alone
  <2>6. X11Local(d)'
    BY <1>1, <1>3, <2>2, <2>3 DEF X11Local
  <2>7. /\ FileType' /\ (drm_state[d].fd \in FD => file'[drm_state[d].fd] = Closed)
        /\ \A j \in FD : j # drm_state[d].fd => file'[j] = file[j]
    BY <1>5, ClosesTyped
  <2>8. ASSUME X11Owns(d)
        PROVE  Touches(d) /\ X11Owns(d)'
    <3>1. drm_state[d].fd \in FD => file[drm_state[d].fd].by = d
      BY <1>4, <2>8, FDAssumption DEF X11Owns, Usable
    <3>2. Touches(d)
      BY <1>2, <1>5, <3>1, ClosesOwn
    <3>3. Closed.by # d
      BY <1>2, Owners DEF Closed
    <3>4. inits[d] <= 1 => \A n \in FD : file'[n].by # d
      BY <2>7, <2>8, <3>3 DEF X11Owns
    <3> QED
      BY <1>1, <2>2, <3>2, <3>4 DEF X11Owns
  <2> QED
    BY <1>1, <2>4, <2>5, <2>6, <2>7, <2>8 DEF X11Good
<1>6. CASE /\ Authenticated(d) /\ UNCHANGED <<drm_state, file>>
           /\ pc' = [pc EXCEPT ![d] = "open"] /\ source' = [source EXCEPT ![d] = "DRI2"]
  <2>1. /\ pc'[d] = "open" /\ \A e \in Display : e # d => pc'[e] = pc[e]
        /\ \A e \in Display : e # d => source'[e] = source[e]
    BY <1>6 DEF X11Type
  <2>2. X11Type' /\ X11Alone(d)
    BY <1>1, <1>6, <2>1 DEF X11Type, X11Alone
  <2>3. X11Local(d)'
    BY <1>1, <1>3, <1>6, <2>1 DEF X11Local, Authenticated
  <2>4. Over(d)' = Over(d)
    BY <1>4, <2>1 DEF Over
  <2> QED
    BY <1>1, <1>3, <1>6, <2>2, <2>3, <2>4, X11Quiet
<1>7. CASE /\ ~Authenticated(d) /\ Free # {}
           /\ file' \in {Open(d, node) : node \in {"render", "authenticated"}}
           /\ drm_state' = [drm_state EXCEPT
                ![d] = [fd |-> Min(Free), auth_type |-> "DRI2", hooks |-> TRUE]]
           /\ pc' = [pc EXCEPT ![d] = "open"] /\ source' = [source EXCEPT ![d] = "DRI2"]
  <2>1. PICK node \in {"render", "authenticated"} : file' = Open(d, node)
    BY <1>7
  <2>2. node \in Node
    BY DEF Node
  <2>3. FileType' /\ Touches(d)
    BY <1>2, <1>7, <2>1, <2>2, OpensLeast
  <2>4. PICK m \in FD : /\ m = Min(Free) /\ file[m].by = "nobody"
                        /\ file'[m] = [by |-> d, node |-> node]
                        /\ \A n \in FD : n # m => file'[n] = file[n]
    BY <1>2, <1>7, <2>1, <2>2, OpensLeast
  <2>5. /\ drm_state'[d] = [fd |-> m, auth_type |-> "DRI2", hooks |-> TRUE]
        /\ \A e \in Display : e # d => drm_state'[e] = drm_state[e]
        /\ drm_state' \in [Display -> [fd : FD \cup {-1},
                            auth_type : {"NONE", "CUSTOM", "DRI2"}, hooks : BOOLEAN]]
    BY <1>7, <2>4 DEF X11Type
  <2>6. /\ pc'[d] = "open" /\ \A e \in Display : e # d => pc'[e] = pc[e]
        /\ \A e \in Display : e # d => source'[e] = source[e]
    BY <1>7 DEF X11Type
  <2>7. X11Type'
    BY <1>1, <1>7, <2>5 DEF X11Type
  <2>8. X11Alone(d)
    BY <1>1, <2>5, <2>6 DEF X11Alone
  <2>9. m # -1 /\ drm_state'[d].fd = m /\ drm_state'[d].auth_type = "DRI2"
    BY <2>5, FDAssumption
  <2>10. X11Local(d)'
    BY <1>1, <1>3, <2>6, <2>9 DEF X11Local
  <2>11. drm_state[d].fd = -1
    BY <1>7 DEF Authenticated, X11Local
  <2>12. ASSUME X11Owns(d)
         PROVE  X11Owns(d)'
    <3>1. Usable(m, d)'
      BY <2>4 DEF Usable
    <3>2. ~Over(d)'
      BY <2>6 DEF Over
    <3>3. ASSUME inits[d] <= 1, NEW n \in FD, file'[n].by = d
          PROVE  n = m
      BY <2>4, <2>11, <2>12, <3>3, FDAssumption DEF X11Owns
    <3> QED
      BY <1>1, <2>9, <3>1, <3>2, <3>3 DEF X11Owns
  <2> QED
    BY <1>1, <2>3, <2>7, <2>8, <2>10, <2>12 DEF X11Good
<1> QED
  BY <1>5, <1>6, <1>7 DEF va_DRI2_GetDriverNames, Goto, Named

(* The other extensions need no descriptor.                                *)
LEMMA DriverNamesGood ==
  ASSUME FileType, X11Type, NEW d \in Display, X11Local(d),
         va_DisplayContextGetDriverNames(d)
  PROVE  X11Good(d)
<1>1. /\ pc[d] = "other"
      /\ UNCHANGED <<drm_state, file, opened, inits, chain, allocated>>
      /\ \/ pc' = [pc EXCEPT ![d] = "open"] /\ source' = [source EXCEPT ![d] = "other"]
         \/ pc' = [pc EXCEPT ![d] = "app"] /\ UNCHANGED source
  BY DEF va_DisplayContextGetDriverNames, Goto, Named, drawable_vars
<1>2. /\ pc'[d] = "app" \/ (pc'[d] = "open" /\ source'[d] = "other")
      /\ \A e \in Display : e # d => pc'[e] = pc[e] /\ source'[e] = source[e]
  BY <1>1 DEF X11Type
<1>3. X11Type' /\ X11Alone(d)
  BY <1>1, <1>2, ZenonT(60) DEF X11Type, X11Alone
<1>4. inits[d] # 0 /\ inits[d] \in Nat /\ ~opened[d]
  BY <1>1 DEF X11Local, X11Type
<1>5. X11Local(d)'
  BY <1>1, <1>2, <1>4 DEF X11Local
<1>6. Over(d)' = Over(d)
  BY <1>1, <1>2 DEF Over
<1> QED
  BY <1>1, <1>3, <1>4, <1>5, <1>6, X11Quiet

(* The driver is opened, or not.                                           *)
LEMMA OpenDriverGood ==
  ASSUME FileType, X11Type, NEW d \in Display, X11Local(d), va_openDriver(d)
  PROVE  X11Good(d)
<1>1. /\ pc[d] = "open" /\ pc' = [pc EXCEPT ![d] = "app"]
      /\ UNCHANGED <<drm_state, file, source, inits, chain, allocated>>
      /\ \E ok \in BOOLEAN : opened' = [opened EXCEPT ![d] = ok]
  BY DEF va_openDriver, Goto, drawable_vars
<1>2. /\ pc'[d] = "app"
      /\ \A e \in Display : e # d => pc'[e] = pc[e] /\ opened'[e] = opened[e]
  BY <1>1 DEF X11Type
<1>3. X11Type' /\ X11Alone(d)
  BY <1>1, <1>2 DEF X11Type, X11Alone
<1>4. inits[d] # 0 /\ inits[d] \in Nat
  BY <1>1 DEF X11Local, X11Type
<1>5. X11Local(d)'
  BY <1>1, <1>2, <1>4 DEF X11Local
<1>6. Over(d)' = Over(d)
  BY <1>1, <1>2 DEF Over
<1> QED
  BY <1>1, <1>3, <1>4, <1>5, <1>6, X11Quiet

(* vaTerminate starts: nothing is closed yet.                              *)
LEMMA TerminateGood ==
  ASSUME FileType, X11Type, NEW d \in Display, X11Local(d), vaTerminate(d)
  PROVE  X11Good(d)
<1>1. /\ pc[d] = "app" /\ opened' = [opened EXCEPT ![d] = FALSE]
      /\ UNCHANGED <<drm_state, file, source, inits, chain, allocated>>
      /\ pc' = [pc EXCEPT ![d] = IF drm_state[d].hooks THEN "dri2Close" ELSE "destroy"]
  BY DEF vaTerminate, Goto, drawable_vars
<1>2. /\ pc'[d] = IF drm_state[d].hooks THEN "dri2Close" ELSE "destroy"
      /\ opened'[d] = FALSE
      /\ \A e \in Display : e # d => pc'[e] = pc[e] /\ opened'[e] = opened[e]
  BY <1>1 DEF X11Type
<1>3. X11Type'
  BY <1>1 DEF X11Type
<1>4. X11Alone(d)
  BY <1>1, <1>2 DEF X11Alone
<1>5. inits[d] \in Nat
  BY DEF X11Type
<1>6. X11Local(d)'
  BY <1>1, <1>2 DEF X11Local
<1>7. Over(d)' = Over(d)
  BY <1>1, <1>2 DEF Over
<1> QED
  BY <1>1, <1>3, <1>4, <1>5, <1>6, <1>7, X11Quiet

(* The close hook closes the display's own descriptor and keeps the number. *)
LEMMA CloseGood ==
  ASSUME FileType, X11Type, NEW d \in Display, X11Local(d), dri2Close(d)
  PROVE  X11Good(d)
<1>1. /\ pc[d] = "dri2Close" /\ pc' = [pc EXCEPT ![d] = "destroy"]
      /\ UNCHANGED <<drm_state, source, opened, inits>>
      /\ chain' = [chain EXCEPT ![d] = << >>]
      /\ allocated' = [allocated EXCEPT ![d] = @ \ ToSet(chain[d])]
      /\ file' = Close(drm_state[d].fd)
  BY DEF dri2Close, Goto
<1>2. d \in Owner
  BY DEF Owner
<1>3. pc'[d] = "destroy" /\ \A e \in Display : e # d => pc'[e] = pc[e]
  BY <1>1 DEF X11Type
<1>4. X11Type'
  BY <1>1 DEF X11Type
<1>5. X11Alone(d)
  BY <1>1, <1>3 DEF X11Alone
<1>6. X11Local(d)'
  BY <1>1, <1>3 DEF X11Local
<1>7. drm_state[d].hooks /\ ~Over(d) /\ Over(d)'
  BY <1>1, <1>3 DEF X11Local, Over
<1>8. /\ FileType' /\ (drm_state[d].fd \in FD => file'[drm_state[d].fd] = Closed)
      /\ \A j \in FD : j # drm_state[d].fd => file'[j] = file[j]
  BY <1>1, ClosesTyped
<1>9. ASSUME X11Owns(d)
      PROVE  Touches(d) /\ X11Owns(d)'
  <2>1. drm_state[d].fd \in FD => file[drm_state[d].fd].by = d
    BY <1>7, <1>9, FDAssumption DEF X11Owns, Usable
  <2>2. Touches(d)
    BY <1>1, <1>2, <2>1, ClosesOwn
  <2>3. Closed.by # d
    BY <1>2, Owners DEF Closed
  <2>4. inits[d] <= 1 => \A n \in FD : file'[n].by # d
    BY <1>8, <1>9, <2>3 DEF X11Owns
  <2> QED
    BY <1>1, <1>7, <2>2, <2>4 DEF X11Owns
<1> QED
  BY <1>1, <1>4, <1>5, <1>6, <1>8, <1>9 DEF X11Good

(* Without the hook the descriptor is closed here; with it, this is the    *)
(* second close of the number.                                             *)
LEMMA DestroyGood ==
  ASSUME FileType, X11Type, NEW d \in Display, X11Local(d), va_DisplayContextDestroy(d)
  PROVE  X11Good(d)
<1>1. /\ pc[d] = "destroy" /\ pc' = [pc EXCEPT ![d] = "destroyed"]
      /\ UNCHANGED <<drm_state, source, opened, inits, chain, allocated>>
      /\ file' = Close(drm_state[d].fd)
  BY DEF va_DisplayContextDestroy, Goto, drawable_vars
<1>2. d \in Owner
  BY DEF Owner
<1>3. pc'[d] = "destroyed" /\ \A e \in Display : e # d => pc'[e] = pc[e]
  BY <1>1 DEF X11Type
<1>4. X11Type'
  BY <1>1 DEF X11Type
<1>5. X11Alone(d)
  BY <1>1, <1>3 DEF X11Alone
<1>6. X11Local(d)'
  BY <1>1, <1>3 DEF X11Local
<1>7. Over(d)'
  BY <1>3 DEF Over
<1>8. /\ FileType' /\ (drm_state[d].fd \in FD => file'[drm_state[d].fd] = Closed)
      /\ \A j \in FD : j # drm_state[d].fd => file'[j] = file[j]
  BY <1>1, ClosesTyped
<1>9. ASSUME X11Owns(d), ~Gone(d)'
      PROVE  Touches(d) /\ X11Owns(d)'
  <2>0. ~Over(d)
    BY <1>1, <1>3, <1>9 DEF Gone, Over
  <2>1. drm_state[d].fd \in FD => file[drm_state[d].fd].by = d
    BY <1>9, <2>0, FDAssumption DEF X11Owns, Usable
  <2>2. Touches(d)
    BY <1>1, <1>2, <2>1, ClosesOwn
  <2>3. Closed.by # d
    BY <1>2, Owners DEF Closed
  <2>4. inits[d] <= 1 => \A n \in FD : file'[n].by # d
    BY <1>8, <1>9, <2>3 DEF X11Owns
  <2> QED
    BY <1>1, <1>7, <2>2, <2>4 DEF X11Owns
<1> QED
  BY <1>1, <1>4, <1>5, <1>6, <1>8, <1>9 DEF X11Good

(* The table of drawables has no part in this.                             *)
LEMMA DrawablesGood ==
  ASSUME FileType, X11Type, NEW d \in Display, X11Local(d), NEW x \in Drawable,
         va_dri_get_drawable(d, x) \/ va_dri_free_drawable(d, x)
  PROVE  X11Good(d)
<1>1. UNCHANGED <<file, drm_state, source, opened, pc, inits>> /\ pc[d] = "app"
  BY DEF va_dri_get_drawable, va_dri_free_drawable, connection_vars
<1>2. chain[d] \in Seq(Drawable) /\ <<x>> \o chain[d] \in Seq(Drawable)
  BY DEF X11Type
<1>3. chain' \in [Display -> Seq(Drawable)] /\ allocated' \in [Display -> SUBSET Drawable]
  <2>1. CASE va_dri_get_drawable(d, x)
    <3>1. /\ chain' = [chain EXCEPT ![d] = <<x>> \o chain[d]]
          /\ allocated' = [allocated EXCEPT ![d] = allocated[d] \cup {x}]
      BY <2>1 DEF va_dri_get_drawable
    <3> DEFINE longer == <<x>> \o chain[d]
    <3>2. longer \in Seq(Drawable)
      BY <1>2
    <3>3. chain' = [chain EXCEPT ![d] = longer]
      BY <3>1
    <3> HIDE DEF longer
    <3>4. chain' \in [Display -> Seq(Drawable)]
      BY <3>2, <3>3 DEF X11Type
    <3>5. allocated' \in [Display -> SUBSET Drawable]
      BY <3>1 DEF X11Type
    <3> QED
      BY <3>4, <3>5
  <2>2. CASE va_dri_free_drawable(d, x)
    <3>1. /\ chain' = [chain EXCEPT ![d] = << >>]
          /\ allocated' = [allocated EXCEPT ![d] = allocated[d] \ {x}]
      BY <2>2 DEF va_dri_free_drawable, BucketLeft
    <3> QED
      BY <3>1 DEF X11Type
  <2> QED
    BY <2>1, <2>2
<1>4. X11Type' /\ X11Alone(d)
  BY <1>1, <1>3 DEF X11Type, X11Alone
<1>5. X11Local(d)' /\ Over(d)' = Over(d) /\ inits[d] \in Nat
  BY <1>1 DEF X11Local, Over, X11Type
<1> QED
  BY <1>1, <1>4, <1>5, X11Quiet

(* Every step of an X11 display is one of these.                           *)
LEMMA X11StepGood ==
  ASSUME FileType, X11Type, X11Next, \A d \in Display : X11Local(d)
  PROVE  \E d \in Display : X11Good(d)
BY InitializeGood, DRI3Good, DRI2Good, DriverNamesGood, OpenDriverGood, TerminateGood,
   CloseGood, DestroyGood, DrawablesGood DEF X11Next

-----------------------------------------------------------------------------
(* Queues: what taking the first event and adding a last one do.           *)

(* Nothing is on an empty queue.                                           *)
LEMMA NothingQueued ==
  ASSUME NEW S, NEW e
  PROVE  ~ Has(<< >>, S) /\ AtMostOne(<< >>, S) /\ Before(<< >>, S, e)
BY DEF Has, AtMostOne, Before

(* The first event is taken.                                               *)
LEMMA Popping ==
  ASSUME NEW E, NEW q \in Seq(E), q # << >>, NEW S, NEW e
  PROVE  /\ Tail(q) \in Seq(E) /\ Head(q) \in E
         /\ Has(Tail(q), S) => Has(q, S)
         /\ Head(q) \in S => Has(q, S)
         /\ Has(q, S) => Head(q) \in S \/ Has(Tail(q), S)
         /\ AtMostOne(q, S) => AtMostOne(Tail(q), S)
         /\ AtMostOne(q, S) /\ Head(q) \in S => ~ Has(Tail(q), S)
         /\ Before(q, S, e) => Head(q) # e
         /\ Before(q, S, e) /\ Head(q) \notin S => Before(Tail(q), S, e)
<1> DEFINE r == Tail(q)
<1>1. /\ r \in Seq(E) /\ Len(r) = Len(q) - 1 /\ Len(q) \in Nat /\ Len(q) >= 1
      /\ \A i \in 1 .. Len(r) : r[i] = q[i + 1]
  OBVIOUS
<1>2. Head(q) = q[1] /\ Head(q) \in E
  OBVIOUS
<1> HIDE DEF r
<1>3. \A i \in 1 .. Len(q) : i # 1 => i - 1 \in 1 .. Len(r) /\ r[i - 1] = q[i]
  BY <1>1
<1>4. \A i \in 1 .. Len(r) : i + 1 \in 1 .. Len(q) /\ i + 1 # 1 /\ r[i] = q[i + 1]
  BY <1>1
<1>5. 1 \in 1 .. Len(q)
  BY <1>1
<1>6. Has(r, S) => Has(q, S)
  BY <1>4 DEF Has
<1>7. Head(q) \in S => Has(q, S)
  BY <1>2, <1>5 DEF Has
<1>8. Has(q, S) => Head(q) \in S \/ Has(r, S)
  BY <1>2, <1>3 DEF Has
<1>9. AtMostOne(q, S) => AtMostOne(r, S)
  BY <1>4 DEF AtMostOne
<1>10. AtMostOne(q, S) /\ Head(q) \in S => ~ Has(r, S)
  BY <1>2, <1>4, <1>5 DEF AtMostOne, Has
<1>11. Before(q, S, e) => Head(q) # e
  BY <1>2, <1>5 DEF Before
<1>12. ASSUME Before(q, S, e), Head(q) \notin S
       PROVE  Before(r, S, e)
  <2>1. ASSUME NEW i \in 1 .. Len(r), r[i] = e
        PROVE  \E j \in 1 .. i : j # i /\ r[j] \in S
    <3>1. i + 1 \in 1 .. Len(q) /\ q[i + 1] = e
      BY <1>4, <2>1
    <3>2. PICK j \in 1 .. i + 1 : j # i + 1 /\ q[j] \in S
      BY <1>12, <3>1 DEF Before
    <3>3. j # 1
      BY <1>2, <1>12, <3>2
    <3>4. j \in 1 .. Len(q)
      BY <3>1, <3>2
    <3>5. r[j - 1] \in S
      BY <1>3, <3>2, <3>3, <3>4
    <3>6. j - 1 \in 1 .. i /\ j - 1 # i
      BY <2>1, <3>2, <3>3
    <3> QED
      BY <3>5, <3>6
  <2> QED
    BY <2>1 DEF Before
<1> QED
  BY <1>1, <1>2, <1>6, <1>7, <1>8, <1>9, <1>10, <1>11, <1>12 DEF r

(* One event more.                                                         *)
LEMMA Pushing ==
  ASSUME NEW E, NEW q \in Seq(E), NEW x \in E, NEW S, NEW e
  PROVE  /\ Append(q, x) \in Seq(E)
         /\ Has(Append(q, x), S) <=> Has(q, S) \/ x \in S
         /\ AtMostOne(q, S) /\ (x \in S => ~ Has(q, S)) => AtMostOne(Append(q, x), S)
         /\ Before(q, S, e) /\ (x = e => Has(q, S)) => Before(Append(q, x), S, e)
<1> DEFINE r == Append(q, x)
<1>1. /\ r \in Seq(E) /\ Len(q) \in Nat /\ Len(r) = Len(q) + 1 /\ r[Len(q) + 1] = x
      /\ \A i \in 1 .. Len(q) : r[i] = q[i]
  OBVIOUS
<1> HIDE DEF r
<1>2. \A i \in 1 .. Len(r) : i # Len(q) + 1 => i \in 1 .. Len(q)
  BY <1>1
<1>3. 1 .. Len(q) \subseteq 1 .. Len(r) /\ Len(q) + 1 \in 1 .. Len(r)
  BY <1>1
<1>4. Has(r, S) <=> Has(q, S) \/ x \in S
  BY <1>1, <1>2, <1>3 DEF Has
<1>5. AtMostOne(q, S) /\ (x \in S => ~ Has(q, S)) => AtMostOne(r, S)
  BY <1>1, <1>2 DEF AtMostOne, Has
<1>6. ASSUME Before(q, S, e), x = e => Has(q, S)
      PROVE  Before(r, S, e)
  <2>1. ASSUME NEW i \in 1 .. Len(r), r[i] = e
        PROVE  \E j \in 1 .. i : j # i /\ r[j] \in S
    <3>1. CASE i = Len(q) + 1
      <4>1. PICK j \in 1 .. Len(q) : q[j] \in S
        BY <1>1, <1>6, <2>1, <3>1 DEF Has
      <4>2. j \in 1 .. i /\ j # i /\ r[j] = q[j]
        BY <1>1, <3>1, <4>1
      <4> QED
        BY <4>1, <4>2
    <3>2. CASE i # Len(q) + 1
      <4>1. i \in 1 .. Len(q) /\ q[i] = e
        BY <1>1, <1>2, <2>1, <3>2
      <4>2. PICK j \in 1 .. i : j # i /\ q[j] \in S
        BY <1>6, <4>1 DEF Before
      <4>3. j \in 1 .. Len(q)
        BY <4>1, <4>2
      <4> QED
        BY <1>1, <4>2, <4>3
    <3> QED
      BY <3>1, <3>2
  <2> QED
    BY <2>1 DEF Before
<1> QED
  BY <1>1, <1>4, <1>5, <1>6 DEF r

(* Several events are appended one by one.                                 *)
LEMMA Appending ==
  ASSUME NEW E, NEW q \in Seq(E), NEW x \in E, NEW y \in E, NEW z \in E
  PROVE  /\ q \o <<x>> = Append(q, x)
         /\ q \o <<x, y>> = Append(Append(q, x), y)
         /\ q \o <<x, y, z>> = Append(Append(Append(q, x), y), z)
         /\ << >> \o q = q
OBVIOUS

(* Two events more.                                                        *)
LEMMA PushingTwo ==
  ASSUME NEW E, NEW q \in Seq(E), NEW x \in E, NEW y \in E, NEW S, NEW e
  PROVE  LET r == q \o <<x, y>>
         IN  /\ Has(r, S) <=> Has(q, S) \/ x \in S \/ y \in S
             /\ AtMostOne(q, S) /\ (x \in S => ~ Has(q, S))
                  /\ (y \in S => ~ Has(q, S) /\ x \notin S) => AtMostOne(r, S)
             /\ Before(q, S, e) /\ (x = e => Has(q, S))
                  /\ (y = e => Has(q, S) \/ x \in S) => Before(r, S, e)
<1> DEFINE q1 == Append(q, x)
           r == q \o <<x, y>>
<1>1. /\ q1 \in Seq(E)
      /\ Has(q1, S) <=> Has(q, S) \/ x \in S
      /\ AtMostOne(q, S) /\ (x \in S => ~ Has(q, S)) => AtMostOne(q1, S)
      /\ Before(q, S, e) /\ (x = e => Has(q, S)) => Before(q1, S, e)
  BY Pushing
<1>2. r = Append(q1, y)
  BY Appending
<1> HIDE DEF q1, r
<1>3. /\ Has(r, S) <=> Has(q1, S) \/ y \in S
      /\ AtMostOne(q1, S) /\ (y \in S => ~ Has(q1, S)) => AtMostOne(r, S)
      /\ Before(q1, S, e) /\ (y = e => Has(q1, S)) => Before(r, S, e)
  BY <1>1, <1>2, Pushing
<1>4. /\ Has(r, S) <=> Has(q, S) \/ x \in S \/ y \in S
      /\ AtMostOne(q, S) /\ (x \in S => ~ Has(q, S))
           /\ (y \in S => ~ Has(q, S) /\ x \notin S) => AtMostOne(r, S)
      /\ Before(q, S, e) /\ (x = e => Has(q, S))
           /\ (y = e => Has(q, S) \/ x \in S) => Before(r, S, e)
  BY <1>1, <1>3
<1> QED
  BY <1>4 DEF r

(* Three events more.                                                      *)
LEMMA PushingThree ==
  ASSUME NEW E, NEW q \in Seq(E), NEW x \in E, NEW y \in E, NEW z \in E, NEW S, NEW e
  PROVE  LET r == q \o <<x, y, z>>
         IN  /\ Has(r, S) <=> Has(q, S) \/ x \in S \/ y \in S \/ z \in S
             /\ AtMostOne(q, S) /\ (x \in S => ~ Has(q, S))
                  /\ (y \in S => ~ Has(q, S) /\ x \notin S)
                  /\ (z \in S => ~ Has(q, S) /\ x \notin S /\ y \notin S)
                  => AtMostOne(r, S)
             /\ Before(q, S, e) /\ (x = e => Has(q, S))
                  /\ (y = e => Has(q, S) \/ x \in S)
                  /\ (z = e => Has(q, S) \/ x \in S \/ y \in S) => Before(r, S, e)
<1> DEFINE q2 == q \o <<x, y>>
           r == q \o <<x, y, z>>
<1>1. q2 = Append(Append(q, x), y) /\ q \o <<x, y, z>> = Append(q2, z)
  BY Appending
<1>2. q2 \in Seq(E)
  BY <1>1, Pushing
<1>3. /\ Has(q2, S) <=> Has(q, S) \/ x \in S \/ y \in S
      /\ AtMostOne(q, S) /\ (x \in S => ~ Has(q, S))
           /\ (y \in S => ~ Has(q, S) /\ x \notin S) => AtMostOne(q2, S)
      /\ Before(q, S, e) /\ (x = e => Has(q, S))
           /\ (y = e => Has(q, S) \/ x \in S) => Before(q2, S, e)
  BY PushingTwo
<1>4. r = Append(q2, z)
  BY <1>1
<1> HIDE DEF q2, r
<1>5. /\ Has(r, S) <=> Has(q2, S) \/ z \in S
      /\ AtMostOne(q2, S) /\ (z \in S => ~ Has(q2, S)) => AtMostOne(r, S)
      /\ Before(q2, S, e) /\ (z = e => Has(q2, S)) => Before(r, S, e)
  BY <1>2, <1>4, Pushing
<1>6. /\ Has(r, S) <=> Has(q, S) \/ x \in S \/ y \in S \/ z \in S
      /\ AtMostOne(q, S) /\ (x \in S => ~ Has(q, S))
           /\ (y \in S => ~ Has(q, S) /\ x \notin S)
           /\ (z \in S => ~ Has(q, S) /\ x \notin S /\ y \notin S) => AtMostOne(r, S)
      /\ Before(q, S, e) /\ (x = e => Has(q, S))
           /\ (y = e => Has(q, S) \/ x \in S)
           /\ (z = e => Has(q, S) \/ x \in S \/ y \in S) => Before(r, S, e)
  BY <1>3, <1>5
<1> QED
  BY <1>6 DEF r

(* What holds of a larger set of events, and of an event that is not there. *)
LEMMA Queued ==
  ASSUME NEW q, NEW S, NEW T, NEW e
  PROVE  /\ S \subseteq T /\ Has(q, S) => Has(q, T)
         /\ ~ Has(q, {e}) => Before(q, S, e)
BY DEF Has, Before

-----------------------------------------------------------------------------
(* Steps of Wayland displays.                                              *)

(* The library's queue becomes s, and no other queue changes.              *)
Arrives(d, s) ==
  /\ events' \in [WlDisplay -> [private : Seq(Event), default : Seq({"app"})]]
  /\ Queue(d)' = s
  /\ \A e \in WlDisplay : e # d => events'[e] = events[e]

(* The queue of one display is replaced.                                   *)
LEMMA QueueSet ==
  ASSUME WlType, NEW d \in WlDisplay, NEW s \in Seq(Event),
         events' = [events EXCEPT ![d].private = s]
  PROVE  Arrives(d, s)
<1>1. events[d] \in [private : Seq(Event), default : Seq({"app"})]
  BY DEF WlType
<1>2. events'[d] = [events[d] EXCEPT !.private = s]
  BY DEF WlType
<1> QED
  BY <1>1, <1>2 DEF WlType, Arrives, Queue

(* A queue holds events.                                                   *)
LEMMA QueueTyped ==
  ASSUME WlType, NEW d \in WlDisplay
  PROVE  Queue(d) \in Seq(Event) /\ (Queue(d) # << >> => Tail(Queue(d)) \in Seq(Event))
<1>1. Queue(d) \in Seq(Event)
  BY DEF WlType, Queue
<1> QED
  BY <1>1, Popping

(* An event is dispatched.                                                 *)
LEMMA QueueTaken ==
  ASSUME WlType, NEW d \in WlDisplay, Queue(d) # << >>, events' = Popped(d)
  PROVE  Arrives(d, Tail(Queue(d)))
<1>1. Tail(Queue(d)) \in Seq(Event)
  BY QueueTyped
<1>2. events' = [events EXCEPT ![d].private = Tail(Queue(d))]
  BY DEF Popped, Queue
<1> QED
  BY <1>1, <1>2, QueueSet

(* An event is dispatched whose handler sends requests.                    *)
LEMMA QueueAnswered ==
  ASSUME WlType, NEW d \in WlDisplay, Queue(d) # << >>, NEW s \in Seq(Event),
         events' = Appended(Popped(d), d, s)
  PROVE  Arrives(d, Tail(Queue(d)) \o s)
<1>1. Tail(Queue(d)) \in Seq(Event)
  BY QueueTyped
<1> DEFINE longer == Tail(Queue(d)) \o s
<1>2. longer \in Seq(Event)
  BY <1>1
<1>3. events[d] \in [private : Seq(Event), default : Seq({"app"})]
  BY DEF WlType
<1>4. Popped(d)[d] = [events[d] EXCEPT !.private = Tail(Queue(d))]
  BY DEF Popped, Queue, WlType
<1>5. Popped(d)[d].private = Tail(Queue(d))
  BY <1>3, <1>4
<1>6. events' = [Popped(d) EXCEPT ![d]["private"] = Popped(d)[d].private \o s]
  BY DEF Appended, EventQueue
<1>7. events' = [events EXCEPT ![d].private = longer]
  BY <1>3, <1>5, <1>6 DEF Popped, WlType
<1> HIDE DEF longer
<1> QED
  BY <1>2, <1>7, QueueSet DEF longer

(* An event is dispatched and a roundtrip follows.                         *)
LEMMA QueueSynced ==
  ASSUME WlType, NEW d \in WlDisplay, Queue(d) # << >>, events' = Sync(Popped(d), d)
  PROVE  Arrives(d, Append(Tail(Queue(d)), "sync"))
<1>1. Tail(Queue(d)) \in Seq(Event) /\ "sync" \in Event
  BY QueueTyped DEF Event
<1> DEFINE longer == Append(Tail(Queue(d)), "sync")
<1>2. longer \in Seq(Event)
  BY <1>1, Pushing
<1>3. events[d] \in [private : Seq(Event), default : Seq({"app"})]
  BY DEF WlType
<1>4. Popped(d)[d] = [events[d] EXCEPT !.private = Tail(Queue(d))]
  BY DEF Popped, Queue, WlType
<1>5. Popped(d)[d].private = Tail(Queue(d))
  BY <1>3, <1>4
<1>6. events' = [Popped(d) EXCEPT ![d].private = Append(Popped(d)[d].private, "sync")]
  BY DEF Sync
<1>7. events' = [events EXCEPT ![d].private = longer]
  BY <1>3, <1>5, <1>6 DEF Popped, WlType
<1> HIDE DEF longer
<1> QED
  BY <1>2, <1>7, QueueSet DEF longer

(* The registry answers on an empty queue.                                 *)
LEMMA QueueStarted ==
  ASSUME WlType, NEW d \in WlDisplay, NEW s \in Seq(Event), Queue(d) = << >>,
         events' = Sync(Appended(events, d, s), d)
  PROVE  Arrives(d, Append(s, "sync"))
<1>1. "sync" \in Event
  BY DEF Event
<1> DEFINE longer == Append(s, "sync")
<1>2. longer \in Seq(Event)
  BY <1>1, Pushing
<1>3. events[d] \in [private : Seq(Event), default : Seq({"app"})]
  BY DEF WlType
<1> DEFINE evs == Appended(events, d, s)
<1>4. evs = [events EXCEPT ![d]["private"] = Queue(d) \o s]
  BY DEF Appended, EventQueue, Queue
<1>5. Queue(d) \o s = s
  OBVIOUS
<1> HIDE DEF evs
<1>6. evs = [events EXCEPT ![d].private = s]
  BY <1>4, <1>5
<1>7. evs[d] = [events[d] EXCEPT !.private = s]
  BY <1>6 DEF WlType
<1>8. evs[d].private = s
  BY <1>3, <1>7
<1>9. events' = [evs EXCEPT ![d].private = Append(evs[d].private, "sync")]
  BY DEF Sync, evs
<1>10. events' = [events EXCEPT ![d].private = longer]
  BY <1>3, <1>6, <1>8, <1>9 DEF WlType
<1> HIDE DEF longer
<1> QED
  BY <1>2, <1>10, QueueSet DEF longer

(* The other displays are as they were.                                    *)
WlAlone(d) ==
  \A e \in WlDisplay : e # d =>
    /\ wl_pc'[e] = wl_pc[e] /\ backend'[e] = backend[e] /\ stage'[e] = stage[e]
    /\ opaque'[e] = opaque[e] /\ wl_drm_state'[e] = wl_drm_state[e] /\ got'[e] = got[e]
    /\ proxies'[e] = proxies[e] /\ events'[e] = events[e] /\ offers'[e] = offers[e]
    /\ faults'[e] = faults[e]

WlInv(d) == QueueInv(d) /\ WlLocal(d) /\ FeedbackInv(d) /\ ProgressInv(d)

(* What every step of a Wayland display does.                              *)
WlGood(d) ==
  /\ FileType' /\ WlType'
  /\ WlAlone(d)
  /\ WlInv(d)'
  /\ WlOwns(d) => Touches(d) /\ WlOwns(d)'

(* -1 and -2 are no descriptors.                                           *)
LEMMA Numbers ==
  /\ -1 \notin FD /\ -2 \notin FD
  /\ NoState.fd = -2 /\ NoState.auth_type = "NONE"
BY FDAssumption DEF NoState

(* A step that leaves the descriptor alone.                                *)
LEMMA WlQuiet ==
  ASSUME FileType, NEW d \in WlDisplay, file' = file,
         wl_drm_state'[d] = wl_drm_state[d]
  PROVE  FileType' /\ (WlOwns(d) => Touches(d) /\ WlOwns(d)')
BY DEF FileType, Touches, WlOwns, WlFd, Usable

(* With no events there is nothing to go wrong.                            *)
LEMMA WlEmpty ==
  ASSUME NEW d \in WlDisplay, Queue(d)' = << >>
  PROVE  QueueInv(d)'
<1>1. \A S : ~ Has(<< >>, S) /\ AtMostOne(<< >>, S)
  BY NothingQueued
<1> QED
  BY <1>1 DEF QueueInv

(* vaGetDisplayWl starts with linux-dmabuf.                                *)
LEMMA GetDisplayGood ==
  ASSUME FileType, WlType, NEW d \in WlDisplay, WlInv(d), vaGetDisplayWl(d)
  PROVE  WlGood(d)
<1>1. /\ wl_pc[d] = "none" /\ wl_pc'[d] = "create" /\ backend'[d] = "linux_dmabuf"
      /\ UNCHANGED <<file, stage, opaque, wl_drm_state, got, proxies, events, offers,
                     faults>>
      /\ WlType' /\ WlAlone(d)
  BY DEF vaGetDisplayWl, Create, WlGoto, WlType, WlAlone
<1>2. Queue(d) = << >> /\ got[d] = {} /\ wl_drm_state[d] = NoState /\ Queue(d)' = Queue(d)
  BY <1>1 DEF WlInv, WlLocal, Queue
<1>3. QueueInv(d)'
  BY <1>2, WlEmpty
<1>4. WlLocal(d)'
  BY <1>1, <1>2, FDAssumption DEF WlInv, WlLocal, WlFd, NoState, WlOver
<1>5. FeedbackInv(d)'
  BY <1>1, <1>2 DEF WlInv, FeedbackInv, WlOver
<1>6. ProgressInv(d)'
  <2>1. \A S, e : Before(<< >>, S, e)
    BY NothingQueued
  <2> QED
    BY <1>1, <1>2, <2>1 DEF ProgressInv, DmabufProgress, WlDrmProgress
<1> QED
  BY <1>1, <1>3, <1>4, <1>5, <1>6, WlQuiet DEF WlGood, WlInv

(* A create function fails before it sends a request.                      *)
LEMMA CreateFailsGood ==
  ASSUME FileType, WlType, NEW d \in WlDisplay, WlInv(d), CreateFails(d)
  PROVE  WlGood(d)
<1>1. /\ wl_pc[d] = "create" /\ wl_pc' = [wl_pc EXCEPT ![d] = "failed"]
      /\ faults' = [faults EXCEPT ![d] = TRUE]
      /\ UNCHANGED <<file, backend, stage, proxies, events, offers, wl_opened>>
      /\ \/ UNCHANGED <<opaque, wl_drm_state, got>>
         \/ /\ opaque' = [opaque EXCEPT ![d] = backend[d]]
            /\ got' = [got EXCEPT ![d] = {}]
            /\ \/ UNCHANGED wl_drm_state
               \/ wl_drm_state' = [wl_drm_state EXCEPT ![d] = [fd |-> -1, auth_type |-> "NONE"]]
  BY DEF CreateFails, Fault, WlGoto
<1>2. /\ Queue(d)' = << >> /\ got[d] = {} /\ wl_drm_state[d] = NoState
      /\ backend[d] # "none"
  BY <1>1 DEF WlInv, WlLocal, Queue
<1>3. /\ wl_drm_state' \in [WlDisplay -> [fd : FD \cup {-2, -1}, auth_type : {"NONE", "CUSTOM"}]]
      /\ \A e \in WlDisplay : e # d => wl_drm_state'[e] = wl_drm_state[e]
      /\ wl_drm_state'[d].fd \in {-2, -1} /\ wl_drm_state'[d].auth_type = "NONE"
  <2>1. CASE UNCHANGED wl_drm_state
    <3>1. wl_drm_state'[d] = NoState
      BY <1>2, <2>1
    <3> QED
      BY <2>1, <3>1, Numbers DEF WlType
  <2>2. CASE wl_drm_state' = [wl_drm_state EXCEPT ![d] = [fd |-> -1, auth_type |-> "NONE"]]
    <3>1. wl_drm_state'[d] = [fd |-> -1, auth_type |-> "NONE"]
      BY <2>2 DEF WlType
    <3> QED
      BY <2>2, <3>1 DEF WlType
  <2> QED
    BY <1>1, <2>1, <2>2
<1>4. /\ wl_pc'[d] = "failed" /\ faults'[d] = TRUE /\ got'[d] = {}
      /\ WlType' /\ WlAlone(d)
  <2>1. /\ opaque' \in [WlDisplay -> {"none", "linux_dmabuf", "wl_drm"}]
        /\ \A e \in WlDisplay : e # d => opaque'[e] = opaque[e]
    BY <1>1 DEF WlType
  <2>2. /\ got' \in [WlDisplay -> SUBSET Fact]
        /\ got'[d] = {} /\ \A e \in WlDisplay : e # d => got'[e] = got[e]
    BY <1>1, <1>2 DEF WlType
  <2>3. /\ wl_pc'[d] = "failed" /\ faults'[d] = TRUE
        /\ \A e \in WlDisplay : e # d => wl_pc'[e] = wl_pc[e] /\ faults'[e] = faults[e]
    BY <1>1 DEF WlType
  <2>4. WlType'
    BY <1>1, <1>3, <2>1, <2>2 DEF WlType
  <2> QED
    BY <1>1, <1>3, <2>1, <2>2, <2>3, <2>4 DEF WlAlone
<1>5. QueueInv(d)'
  BY <1>2, WlEmpty
<1>6. WlLocal(d)'
  BY <1>1, <1>2, <1>3, <1>4, Numbers DEF WlLocal, WlFd, WlOver
<1>7. FeedbackInv(d)' /\ ProgressInv(d)'
  BY <1>4 DEF FeedbackInv, ProgressInv, WlOver
<1>8. WlOwns(d) => Touches(d) /\ WlOwns(d)'
  BY <1>1, <1>2, <1>3, Numbers DEF WlOwns, Touches, WlFd, NoState
<1>9. FileType'
  BY <1>1 DEF FileType
<1> QED
  BY <1>5, <1>6, <1>4, <1>7, <1>8, <1>9 DEF WlGood, WlInv

(* The globals that the registry announces.                                *)
LEMMA Announced ==
  ASSUME NEW offered, NEW s \in Announcements(offered),
         NEW b \in {"linux_dmabuf", "wl_drm"}
  PROVE  /\ s \in Seq(Event)
         /\ AtMostOne(s, Opening(b)) /\ AtMostOne(s, Finishing(b)) /\ AtMostOne(s, {"sync"})
         /\ ~ Has(s, {"main_device", "done"}) /\ ~ Has(s, {"device", "authenticated"})
         /\ ~ Has(s, {"sync"}) /\ ~ Has(s, {"authenticated"})
         /\ ~ Has(s, {"done"}) /\ (Has(s, {b}) <=> b \in offered)
<1>1. /\ s \in Seq({"linux_dmabuf", "wl_drm"})
      /\ \A i, j \in 1 .. Len(s) : s[i] = s[j] => i = j
  <2> DEFINE G == {"linux_dmabuf", "wl_drm"}
  <2>1. CASE s = << >>
    BY <2>1
  <2>2. ASSUME NEW x \in G, s = <<x>>
        PROVE  s \in Seq(G) /\ \A k, l \in 1 .. Len(s) : s[k] = s[l] => k = l
    BY <2>2
  <2>3. ASSUME NEW x \in G, NEW y \in G, x # y, s = <<x, y>>
        PROVE  s \in Seq(G) /\ \A k, l \in 1 .. Len(s) : s[k] = s[l] => k = l
    BY <2>3
  <2>4. \/ s = << >>
        \/ \E x \in G : s = <<x>>
        \/ \E x \in G, y \in G : x # y /\ s = <<x, y>>
    BY DEF Announcements
  <2> HIDE DEF G
  <2>5. s \in Seq(G) /\ \A k, l \in 1 .. Len(s) : s[k] = s[l] => k = l
    BY <2>1, <2>2, <2>3, <2>4
  <2> QED
    BY <2>5 DEF G
<1>2. \A g \in {"linux_dmabuf", "wl_drm"} : g \in offered <=> \E i \in 1 .. Len(s) : s[i] = g
  BY DEF Announcements
<1>3. \A i \in 1 .. Len(s) : s[i] \in {"linux_dmabuf", "wl_drm"}
  BY <1>1
<1>4. s \in Seq(Event)
  BY <1>1 DEF Event
<1>5. \A i \in 1 .. Len(s) : s[i] \in Opening(b) \/ s[i] \in Finishing(b) => s[i] = b
  BY <1>3 DEF Opening, Finishing
<1>6. /\ AtMostOne(s, Opening(b)) /\ AtMostOne(s, Finishing(b)) /\ AtMostOne(s, {"sync"})
  BY <1>1, <1>3, <1>5 DEF AtMostOne
<1>7. Has(s, {b}) <=> b \in offered
  BY <1>2 DEF Has
<1> QED
  BY <1>3, <1>4, <1>6, <1>7 DEF Has


(* The globals come before the answer that ends the roundtrip.             *)
LEMMA RegistryGood ==
  ASSUME FileType, WlType, NEW d \in WlDisplay, WlInv(d), wl_display_get_registry(d)
  PROVE  WlGood(d)
<1>1. /\ wl_pc[d] = "create" /\ wl_pc' = [wl_pc EXCEPT ![d] = "dispatch"]
      /\ stage' = [stage EXCEPT ![d] = 1]
      /\ opaque' = [opaque EXCEPT ![d] = backend[d]]
      /\ wl_drm_state' = [wl_drm_state EXCEPT ![d] = [fd |-> -1, auth_type |-> "NONE"]]
      /\ got' = [got EXCEPT ![d] = {}]
      /\ proxies' = [proxies EXCEPT ![d] = @ \cup {"queue", "wrapper", "registry"}]
      /\ UNCHANGED <<file, backend, offers, faults, wl_opened>>
  BY DEF wl_display_get_registry, WlGoto
<1>2. /\ Queue(d) = << >> /\ proxies[d] \subseteq {"feedback"}
      /\ wl_drm_state[d] = NoState /\ backend[d] \in {"linux_dmabuf", "wl_drm"}
  BY <1>1 DEF WlInv, WlLocal, WlType
<1>3. PICK globals \in Announcements(offers[d]) :
        events' = Sync(Appended(events, d, globals), d)
  BY DEF wl_display_get_registry
<1> DEFINE b == backend[d]
           r == Append(globals, "sync")
<1>4. /\ globals \in Seq(Event)
      /\ AtMostOne(globals, Opening(b)) /\ AtMostOne(globals, Finishing(b))
      /\ AtMostOne(globals, {"sync"})
      /\ ~ Has(globals, {"main_device", "done"}) /\ ~ Has(globals, {"device", "authenticated"})
      /\ ~ Has(globals, {"sync"}) /\ ~ Has(globals, {"authenticated"})
      /\ ~ Has(globals, {"done"}) /\ (Has(globals, {b}) <=> b \in offers[d])
  <2>1. globals \in Announcements(offers[d]) /\ b \in {"linux_dmabuf", "wl_drm"}
    BY <1>2, <1>3
  <2> HIDE DEF b
  <2> DEFINE offered == offers[d]
  <2> HIDE DEF offered
  <2>2. globals \in Announcements(offered)
    BY <2>1 DEF offered
  <2>3. /\ globals \in Seq(Event)
        /\ AtMostOne(globals, Opening(b)) /\ AtMostOne(globals, Finishing(b))
        /\ AtMostOne(globals, {"sync"})
        /\ ~ Has(globals, {"main_device", "done"})
        /\ ~ Has(globals, {"device", "authenticated"})
        /\ ~ Has(globals, {"sync"}) /\ ~ Has(globals, {"authenticated"})
        /\ ~ Has(globals, {"done"}) /\ (Has(globals, {b}) <=> b \in offered)
    BY <2>1, <2>2, Announced
  <2> QED
    BY <2>3 DEF offered
<1>5. Arrives(d, r)
  BY <1>2, <1>3, <1>4, QueueStarted
<1>6. \A S, e : /\ Has(r, S) <=> Has(globals, S) \/ "sync" \in S
                /\ AtMostOne(globals, S) /\ ("sync" \in S => ~ Has(globals, S)) => AtMostOne(r, S)
                /\ Before(globals, S, e) /\ ("sync" = e => Has(globals, S)) => Before(r, S, e)
  BY <1>4, Pushing DEF Event
<1> HIDE DEF r
<1>7. /\ Queue(d)' = r /\ backend'[d] = b /\ got'[d] = {} /\ WlFd(d)' = -1
      /\ wl_drm_state'[d].auth_type = "NONE" /\ wl_pc'[d] = "dispatch" /\ stage'[d] = 1
      /\ opaque'[d] = b /\ "drm" \notin proxies'[d]
      /\ "feedback" \in proxies'[d] => "feedback" \in proxies[d]
      /\ UNCHANGED <<file, backend, offers, faults>>
  BY <1>1, <1>2, <1>5 DEF Arrives, WlType, WlFd
<1>8. WlType'
  <2> DEFINE new == proxies[d] \cup {"queue", "wrapper", "registry"}
  <2>1. new \in SUBSET Proxy
    BY DEF WlType, Proxy
  <2>2. proxies' = [proxies EXCEPT ![d] = new]
    BY <1>1
  <2> HIDE DEF new
  <2>3. proxies' \in [WlDisplay -> SUBSET Proxy]
    BY <2>1, <2>2 DEF WlType
  <2>4. got' \in [WlDisplay -> SUBSET Fact]
    BY <1>1 DEF WlType
  <2> QED
    BY <1>1, <1>5, <2>3, <2>4 DEF Arrives, WlType
<1>9. WlAlone(d)
  BY <1>1, <1>5 DEF Arrives, WlAlone
<1>10. "sync" \notin Opening(b) /\ "sync" \notin Finishing(b)
  BY <1>2 DEF Opening, Finishing
<1>11. QueueInv(d)'
  <2>1. /\ AtMostOne(r, Opening(b)) /\ AtMostOne(r, Finishing(b)) /\ AtMostOne(r, {"sync"})
        /\ ~ Has(r, {"main_device", "done"}) /\ ~ Has(r, {"device", "authenticated"})
        /\ ~ Has(r, {"authenticated"})
    BY <1>4, <1>6, <1>10
  <2> QED
    BY <1>7, <2>1 DEF QueueInv
<1>12. WlLocal(d)'
  BY <1>2, <1>7, Numbers DEF WlLocal, WlOver
<1>13. FeedbackInv(d)'
  BY <1>1, <1>7 DEF WlInv, FeedbackInv, WlOver
<1>14. b \in offers[d] => Before(r, {b}, "sync")
  BY <1>4, <1>6, Queued
<1>15. Before(r, {"main_device"}, "done")
  BY <1>4, <1>6, Queued
<1>16. ~ faults[d] => (b = "wl_drm" => "render_node" \notin offers[d])
  BY DEF WlInv, ProgressInv, WlDrmProgress
<1>17. ProgressInv(d)'
  <2>1. DmabufProgress(d)'
    BY <1>7, <1>14, <1>15 DEF DmabufProgress
  <2>2. ~ faults[d] => WlDrmProgress(d)'
    BY <1>7, <1>14, <1>16, Numbers DEF WlDrmProgress
  <2> QED
    BY <1>7, <2>1, <2>2 DEF ProgressInv
<1>18. WlOwns(d) => Touches(d) /\ WlOwns(d)'
  BY <1>2, <1>7, Numbers DEF WlOwns, Touches, WlFd
<1>19. FileType'
  BY <1>1 DEF FileType
<1> QED
  BY <1>8, <1>9, <1>11, <1>12, <1>13, <1>17, <1>18, <1>19 DEF WlGood, WlInv

(* Nothing of the display changes but its queue, and whether it failed.    *)
Same(d) ==
  /\ wl_pc'[d] = wl_pc[d] /\ backend'[d] = backend[d] /\ stage'[d] = stage[d]
  /\ opaque'[d] = opaque[d] /\ wl_drm_state'[d] = wl_drm_state[d] /\ got'[d] = got[d]
  /\ proxies'[d] = proxies[d] /\ offers'[d] = offers[d]

(* An event that the back end does not wait for can be taken.              *)
LEMMA Ignoring ==
  ASSUME WlType, NEW d \in WlDisplay, WlInv(d), Queue(d) # << >>,
         Queue(d)' = Tail(Queue(d)),
         Head(Queue(d)) \notin {backend[d], "main_device", "device", "authenticated"},
         Same(d), faults'[d] = faults[d]
  PROVE  WlInv(d)'
<1> DEFINE q == Queue(d)
           t == Tail(q)
<1>1. \A S, e : /\ Has(t, S) => Has(q, S)
                /\ Has(q, S) => Head(q) \in S \/ Has(t, S)
                /\ AtMostOne(q, S) => AtMostOne(t, S)
                /\ Before(q, S, e) /\ Head(q) \notin S => Before(t, S, e)
  BY QueueTyped, Popping
<1> HIDE DEF q, t
<1>2. Queue(d)' = t /\ Queue(d) = q /\ WlFd(d)' = WlFd(d)
  BY DEF q, t, WlFd, Same
<1>3. QueueInv(d)'
  BY <1>1, <1>2 DEF WlInv, QueueInv, Same
<1>4. WlLocal(d)'
  <2>1. wl_pc[d] \notin {"none", "create", "display"}
    BY DEF WlInv, WlLocal
  <2> QED
    BY <1>2, <2>1 DEF WlInv, WlLocal, WlOver, Same
<1>5. FeedbackInv(d)'
  BY DEF WlInv, FeedbackInv, WlOver, Same
<1>6. DmabufProgress(d) => DmabufProgress(d)'
  BY <1>1, <1>2 DEF q, DmabufProgress, Same
<1>7. WlDrmProgress(d) => WlDrmProgress(d)'
  BY <1>1, <1>2 DEF q, WlDrmProgress, Same
<1>8. ProgressInv(d)'
  BY <1>6, <1>7 DEF WlInv, ProgressInv, Same
<1> QED
  BY <1>3, <1>4, <1>5, <1>8 DEF WlInv

(* After a fault only the descriptor matters.                              *)
LEMMA Faulty ==
  ASSUME WlType, NEW d \in WlDisplay, WlInv(d), Queue(d) # << >>,
         Queue(d)' = Tail(Queue(d)), faults'[d] = TRUE,
         Same(d)
  PROVE  WlInv(d)'
<1> DEFINE q == Queue(d)
           t == Tail(q)
<1>1. \A S : /\ Has(t, S) => Has(q, S)
             /\ AtMostOne(q, S) => AtMostOne(t, S)
  BY QueueTyped, Popping
<1> HIDE DEF q, t
<1>2. Queue(d)' = t /\ Queue(d) = q /\ WlFd(d)' = WlFd(d)
  BY DEF q, t, WlFd, Same
<1>3. QueueInv(d)'
  BY <1>1, <1>2 DEF WlInv, QueueInv, Same
<1>4. WlLocal(d)'
  <2>1. wl_pc[d] \notin {"none", "create", "display"}
    BY DEF WlInv, WlLocal
  <2> QED
    BY <1>2, <2>1 DEF WlInv, WlLocal, WlOver, Same
<1>5. FeedbackInv(d)' /\ ProgressInv(d)'
  BY DEF WlInv, FeedbackInv, ProgressInv, WlOver, Same
<1> QED
  BY <1>3, <1>4, <1>5 DEF WlInv

(* The library's queue is not the application's.                           *)
LEMMA Unaffected ==
  ASSUME NEW d \in WlDisplay, WlInv(d), Queue(d)' = Queue(d),
         Same(d), faults'[d] = faults[d]
  PROVE  WlInv(d)'
<1>1. QueueInv(d)'
  BY DEF WlInv, QueueInv, WlFd, Same
<1>2. WlLocal(d)'
  BY DEF WlInv, WlLocal, WlFd, WlOver, Same
<1>3. FeedbackInv(d)'
  BY DEF WlInv, FeedbackInv, WlOver, Same
<1>4. DmabufProgress(d) => DmabufProgress(d)'
  BY DEF DmabufProgress, WlFd, Same
<1>5. WlDrmProgress(d) => WlDrmProgress(d)'
  BY DEF WlDrmProgress, WlFd, Same
<1> QED
  BY <1>1, <1>2, <1>3, <1>4, <1>5 DEF WlInv, ProgressInv, Same

(* What the first event of the queue says of the rest.                     *)
LEMMA First ==
  ASSUME WlType, NEW d \in WlDisplay, WlInv(d), Queue(d) # << >>, NEW t, t = Tail(Queue(d))
  PROVE  /\ t \in Seq(Event)
         /\ AtMostOne(t, Opening(backend[d])) /\ AtMostOne(t, Finishing(backend[d]))
         /\ AtMostOne(t, {"sync"})
         /\ Has(t, Opening(backend[d])) => WlFd(d) = -1
         /\ Has(t, Finishing(backend[d])) => "default_feedback_done" \notin got[d]
         /\ Has(t, {"main_device", "done"}) => backend[d] = "linux_dmabuf"
         /\ Has(t, {"device", "authenticated"}) => backend[d] = "wl_drm"
         /\ Has(t, {"authenticated"}) => WlFd(d) \in FD
         /\ Head(Queue(d)) \in Opening(backend[d]) =>
              ~ Has(t, Opening(backend[d])) /\ WlFd(d) = -1
         /\ Head(Queue(d)) \in Finishing(backend[d]) =>
              ~ Has(t, Finishing(backend[d])) /\ "default_feedback_done" \notin got[d]
         /\ Head(Queue(d)) = "sync" => ~ Has(t, {"sync"})
         /\ Head(Queue(d)) \in {"main_device", "done"} => backend[d] = "linux_dmabuf"
         /\ Head(Queue(d)) \in {"device", "authenticated"} => backend[d] = "wl_drm"
         /\ Head(Queue(d)) = "authenticated" => WlFd(d) \in FD
<1> DEFINE q == Queue(d)
<1>1. \A S : /\ Has(t, S) => Has(q, S)
             /\ Head(q) \in S => Has(q, S)
             /\ AtMostOne(q, S) => AtMostOne(t, S)
             /\ AtMostOne(q, S) /\ Head(q) \in S => ~ Has(t, S)
  BY QueueTyped, Popping
<1>2. t \in Seq(Event)
  BY QueueTyped
<1> HIDE DEF q
<1>3. QueueInv(d) /\ Queue(d) = q
  BY DEF WlInv, q
<1> QED
  BY <1>1, <1>2, <1>3 DEF QueueInv

(* An event tells the context something.                                   *)
LEMMA FactLearnt ==
  ASSUME WlType, NEW d \in WlDisplay, NEW x \in Fact, got' = [got EXCEPT ![d] = @ \cup {x}]
  PROVE  /\ got' \in [WlDisplay -> SUBSET Fact]
         /\ got'[d] = got[d] \cup {x}
         /\ \A e \in WlDisplay : e # d => got'[e] = got[e]
<1>1. got \in [WlDisplay -> SUBSET Fact]
  BY DEF WlType
<1> DEFINE new == got[d] \cup {x}
<1>2. new \in SUBSET Fact
  BY <1>1
<1>3. got' = [got EXCEPT ![d] = new]
  OBVIOUS
<1> HIDE DEF new
<1>4. got' \in [WlDisplay -> SUBSET Fact] /\ got'[d] = new
  BY <1>1, <1>2, <1>3
<1>5. \A e \in WlDisplay : e # d => got'[e] = got[e]
  BY <1>1, <1>3
<1> QED
  BY <1>4, <1>5 DEF new

(* A handler creates an object of the connection.                          *)
LEMMA ProxyHeld ==
  ASSUME WlType, NEW d \in WlDisplay, NEW x \in Proxy,
         proxies' = [proxies EXCEPT ![d] = @ \cup {x}]
  PROVE  /\ proxies' \in [WlDisplay -> SUBSET Proxy]
         /\ proxies'[d] = proxies[d] \cup {x}
         /\ \A e \in WlDisplay : e # d => proxies'[e] = proxies[e]
<1>1. proxies \in [WlDisplay -> SUBSET Proxy]
  BY DEF WlType
<1> DEFINE new == proxies[d] \cup {x}
<1>2. new \in SUBSET Proxy
  BY <1>1
<1>3. proxies' = [proxies EXCEPT ![d] = new]
  OBVIOUS
<1> HIDE DEF new
<1>4. proxies' \in [WlDisplay -> SUBSET Proxy] /\ proxies'[d] = new
  BY <1>1, <1>2, <1>3
<1>5. \A e \in WlDisplay : e # d => proxies'[e] = proxies[e]
  BY <1>1, <1>3
<1> QED
  BY <1>4, <1>5 DEF new

(* The back end's global is bound, and its events will come.               *)
LEMMA GlobalGood ==
  ASSUME FileType, WlType, NEW d \in WlDisplay, WlInv(d), registry_handle_global(d)
  PROVE  WlGood(d)
<1> DEFINE q == Queue(d)
           t == Tail(q)
<1>1. PICK global \in {"linux_dmabuf", "wl_drm"} :
        /\ Dispatches(d, global)
        /\ IF global # backend[d] THEN events' = Popped(d) /\ UNCHANGED <<got, proxies>>
           ELSE IF global = "linux_dmabuf"
           THEN /\ events' = Appended(Popped(d), d, <<"format_table", "main_device", "done">>)
                /\ got' = [got EXCEPT ![d] = @ \cup {"has_linux_dmabuf"}]
                /\ proxies' = [proxies EXCEPT ![d] = @ \cup {"feedback"}]
           ELSE /\ events' = Appended(Popped(d), d, <<"device", "capabilities">>)
                /\ proxies' = [proxies EXCEPT ![d] = @ \cup {"drm"}]
                /\ UNCHANGED got
  BY DEF registry_handle_global, Gets, Holds
<1>2. UNCHANGED <<file, wl_pc, backend, stage, opaque, wl_drm_state, offers, faults, wl_opened>>
  BY DEF registry_handle_global
<1>3. wl_pc[d] = "dispatch" /\ q # << >> /\ Head(q) = global
  BY <1>1 DEF Dispatches, Queue
<1>4. FileType' /\ (WlOwns(d) => Touches(d) /\ WlOwns(d)')
  BY <1>2, WlQuiet
<1>5. CASE global # backend[d]
  <2>1. Arrives(d, t) /\ UNCHANGED <<got, proxies>>
    BY <1>1, <1>3, <1>5, QueueTaken
  <2>2. WlType' /\ WlAlone(d)
    BY <1>2, <2>1 DEF WlType, WlAlone, Arrives
  <2>3. WlInv(d)'
    <3>1. Queue(d)' = Tail(Queue(d)) /\ Same(d) /\ faults'[d] = faults[d]
      BY <1>2, <2>1 DEF Arrives, Same
    <3>2. Head(Queue(d)) \notin {backend[d], "main_device", "device", "authenticated"}
      BY <1>3, <1>5
    <3> QED
      BY <1>3, <3>1, <3>2, Ignoring
  <2> QED
    BY <1>4, <2>2, <2>3 DEF WlGood
<1>6. CASE global = backend[d] /\ global = "linux_dmabuf"
  <2> DEFINE r == t \o <<"format_table", "main_device", "done">>
  <2>1. /\ "format_table" \in Event /\ "main_device" \in Event /\ "done" \in Event
        /\ <<"format_table", "main_device", "done">> \in Seq(Event)
    BY DEF Event
  <2>2. Arrives(d, r)
    BY <1>1, <1>3, <1>6, <2>1, QueueAnswered
  <2>3. t \in Seq(Event)
    BY <1>3, First
  <2>4. \A S, e :
          /\ Has(r, S) <=> Has(t, S) \/ "format_table" \in S \/ "main_device" \in S \/ "done" \in S
          /\ AtMostOne(t, S) /\ ("format_table" \in S => ~ Has(t, S))
               /\ ("main_device" \in S => ~ Has(t, S) /\ "format_table" \notin S)
               /\ ("done" \in S => ~ Has(t, S) /\ "format_table" \notin S
                                   /\ "main_device" \notin S)
               => AtMostOne(r, S)
          /\ Before(t, S, e) /\ ("format_table" = e => Has(t, S))
               /\ ("main_device" = e => Has(t, S) \/ "format_table" \in S)
               /\ ("done" = e => Has(t, S) \/ "format_table" \in S \/ "main_device" \in S)
               => Before(r, S, e)
    BY <2>1, <2>3, PushingThree, ZenonT(60)
  <2>5. /\ AtMostOne(t, Opening("linux_dmabuf")) /\ ~ Has(t, Opening("linux_dmabuf"))
        /\ AtMostOne(t, Finishing("linux_dmabuf")) /\ ~ Has(t, Finishing("linux_dmabuf"))
        /\ AtMostOne(t, {"sync"}) /\ ~ Has(t, {"device", "authenticated"})
        /\ Has(t, {"authenticated"}) => WlFd(d) \in FD
        /\ WlFd(d) = -1 /\ "default_feedback_done" \notin got[d]
    BY <1>3, <1>6, First DEF Opening, Finishing
  <2>6. Before(t, {"main_device"}, "done")
    <3>1. ~ Has(t, {"done"})
      BY <2>5, Queued DEF Finishing
    <3> QED
      BY <3>1, Queued
  <2> HIDE DEF t, r
  <2>7. /\ Queue(d)' = r /\ backend'[d] = "linux_dmabuf" /\ WlFd(d)' = WlFd(d)
        /\ got'[d] = got[d] \cup {"has_linux_dmabuf"}
        /\ proxies'[d] = proxies[d] \cup {"feedback"}
        /\ wl_pc'[d] = "dispatch" /\ wl_drm_state'[d] = wl_drm_state[d]
    BY <1>1, <1>2, <1>3, <1>6, <2>2 DEF Arrives, WlFd, WlType
  <2>8. WlType' /\ WlAlone(d)
    <3>1. /\ got' \in [WlDisplay -> SUBSET Fact]
          /\ \A e \in WlDisplay : e # d => got'[e] = got[e]
      BY <1>1, <1>6, FactLearnt DEF Fact, WlType
    <3>2. /\ proxies' \in [WlDisplay -> SUBSET Proxy]
          /\ \A e \in WlDisplay : e # d => proxies'[e] = proxies[e]
      BY <1>1, <1>6, ProxyHeld DEF Proxy
    <3>3. WlType'
      BY <1>2, <2>2, <3>1, <3>2 DEF WlType, Arrives
    <3> QED
      BY <1>2, <2>2, <3>1, <3>2, <3>3 DEF WlAlone, Arrives
  <2>9. QueueInv(d)'
    <3>1. /\ AtMostOne(r, Opening("linux_dmabuf")) /\ AtMostOne(r, Finishing("linux_dmabuf"))
      BY <2>4, <2>5 DEF Opening, Finishing
    <3>2. AtMostOne(r, {"sync"}) /\ ~ Has(r, {"device", "authenticated"})
      BY <2>4, <2>5
    <3>3. Has(r, {"authenticated"}) => WlFd(d) \in FD
      BY <2>4, <2>5
    <3> QED
      BY <2>5, <2>7, <3>1, <3>2, <3>3 DEF QueueInv
  <2>10. WlLocal(d)'
    BY <1>2, <1>3, <2>7 DEF WlInv, WlLocal, WlFd, WlOver
  <2>11. FeedbackInv(d)'
    BY <2>5, <2>7 DEF FeedbackInv, WlOver
  <2>12. Before(r, {"main_device"}, "done")
    BY <2>4, <2>6
  <2>13. ProgressInv(d)'
    BY <1>2, <2>5, <2>7, <2>12 DEF ProgressInv, DmabufProgress, WlDrmProgress
  <2> QED
    BY <1>4, <2>8, <2>9, <2>10, <2>11, <2>13 DEF WlGood, WlInv
<1>7. CASE global = backend[d] /\ global = "wl_drm"
  <2> DEFINE r == t \o <<"device", "capabilities">>
  <2>1. /\ "device" \in Event /\ "capabilities" \in Event
        /\ <<"device", "capabilities">> \in Seq(Event)
    BY DEF Event
  <2>2. Arrives(d, r)
    BY <1>1, <1>3, <1>7, <2>1, QueueAnswered
  <2>3. t \in Seq(Event)
    BY <1>3, First
  <2>4. \A S, e :
          /\ Has(r, S) <=> Has(t, S) \/ "device" \in S \/ "capabilities" \in S
          /\ AtMostOne(t, S) /\ ("device" \in S => ~ Has(t, S))
               /\ ("capabilities" \in S => ~ Has(t, S) /\ "device" \notin S)
               => AtMostOne(r, S)
          /\ Before(t, S, e) /\ ("device" = e => Has(t, S))
               /\ ("capabilities" = e => Has(t, S) \/ "device" \in S)
               => Before(r, S, e)
    BY <2>1, <2>3, PushingTwo, ZenonT(60)
  <2>5. /\ AtMostOne(t, Opening("wl_drm")) /\ ~ Has(t, Opening("wl_drm"))
        /\ AtMostOne(t, Finishing("wl_drm"))
        /\ ~ Has(t, Finishing("wl_drm")) /\ "default_feedback_done" \notin got[d]
        /\ AtMostOne(t, {"sync"}) /\ ~ Has(t, {"main_device", "done"})
        /\ Has(t, {"authenticated"}) => WlFd(d) \in FD
        /\ WlFd(d) = -1
    BY <1>3, <1>7, First DEF Opening, Finishing
  <2>6. ~ Has(t, {"wl_drm"})
    BY <2>5, Queued DEF Opening
  <2> HIDE DEF t, r
  <2>7. /\ Queue(d)' = r /\ backend'[d] = "wl_drm" /\ WlFd(d)' = WlFd(d) /\ got' = got
        /\ proxies'[d] = proxies[d] \cup {"drm"}
        /\ wl_pc'[d] = "dispatch" /\ wl_drm_state'[d] = wl_drm_state[d]
    BY <1>1, <1>2, <1>3, <1>7, <2>2 DEF Arrives, WlFd, WlType
  <2>8. WlType' /\ WlAlone(d)
    <3>1. /\ got' \in [WlDisplay -> SUBSET Fact]
          /\ \A e \in WlDisplay : e # d => got'[e] = got[e]
      BY <1>1, <1>7, FactLearnt DEF Fact, WlType
    <3>2. /\ proxies' \in [WlDisplay -> SUBSET Proxy]
          /\ \A e \in WlDisplay : e # d => proxies'[e] = proxies[e]
      BY <1>1, <1>7, ProxyHeld DEF Proxy
    <3>3. WlType'
      BY <1>2, <2>2, <3>1, <3>2 DEF WlType, Arrives
    <3> QED
      BY <1>2, <2>2, <3>1, <3>2, <3>3 DEF WlAlone, Arrives
  <2>9. QueueInv(d)'
    <3>1. /\ AtMostOne(r, Opening("wl_drm")) /\ AtMostOne(r, Finishing("wl_drm"))
          /\ ~ Has(r, Finishing("wl_drm"))
      BY <2>4, <2>5 DEF Opening, Finishing
    <3>2. AtMostOne(r, {"sync"}) /\ ~ Has(r, {"main_device", "done"})
      BY <2>4, <2>5
    <3>3. Has(r, {"authenticated"}) => WlFd(d) \in FD
      BY <2>4, <2>5
    <3> QED
      BY <2>5, <2>7, <3>1, <3>2, <3>3 DEF QueueInv
  <2>10. WlLocal(d)'
    BY <1>2, <1>3, <2>7 DEF WlInv, WlLocal, WlFd, WlOver
  <2>11. FeedbackInv(d)'
    BY <1>2, <1>3, <1>7, <2>7 DEF WlInv, FeedbackInv, WlOver
  <2>12. ~ Has(r, {"wl_drm"}) /\ Has(r, {"device"})
    BY <2>4, <2>6
  <2>13. ASSUME ~ faults[d]
         PROVE  WlDrmProgress(d)'
    <3>1. WlDrmProgress(d)
      BY <2>13 DEF WlInv, ProgressInv
    <3>2. Head(q) = "wl_drm" /\ Has(q, {"wl_drm"})
      BY <1>3, <1>7, QueueTyped, Popping
    <3>3. "drm" \notin proxies[d]
      BY <1>7, <3>1, <3>2 DEF WlDrmProgress
    <3>4. stage[d] = 1
      <4>1. stage[d] \in Nat /\ stage[d] >= 1
        BY <1>3 DEF WlInv, WlLocal, WlType
      <4>2. ~ (stage[d] >= 2)
        BY <1>3, <1>7, <3>1, <3>3 DEF WlDrmProgress
      <4> QED
        BY <4>1, <4>2
    <3> QED
      BY <1>2, <1>7, <2>5, <2>7, <2>12, <3>1, <3>4, Numbers DEF WlDrmProgress, WlFd
  <2>14. ProgressInv(d)'
    BY <1>2, <2>7, <2>13 DEF ProgressInv, DmabufProgress
  <2> QED
    BY <1>4, <2>8, <2>9, <2>10, <2>11, <2>14 DEF WlGood, WlInv
<1> QED
  BY <1>5, <1>6, <1>7

(* The global cannot be bound.                                             *)
LEMMA BindFailsGood ==
  ASSUME FileType, WlType, NEW d \in WlDisplay, WlInv(d), BindFails(d)
  PROVE  WlGood(d)
<1>1. /\ Queue(d) # << >> /\ events' = Popped(d)
      /\ faults' = [faults EXCEPT ![d] = TRUE]
      /\ UNCHANGED <<file, wl_pc, backend, stage, opaque, wl_drm_state, got, proxies,
                     offers, wl_opened>>
  BY DEF BindFails, Dispatches, Fault, Queue
<1>2. Arrives(d, Tail(Queue(d)))
  BY <1>1, QueueTaken
<1>3. faults'[d] = TRUE /\ WlType' /\ WlAlone(d)
  BY <1>1, <1>2 DEF WlType, WlAlone, Arrives
<1>4. Queue(d)' = Tail(Queue(d)) /\ Same(d)
  BY <1>1, <1>2 DEF Arrives, Same
<1>5. WlInv(d)'
  BY <1>1, <1>3, <1>4, Faulty
<1> QED
  BY <1>1, <1>3, <1>5, WlQuiet DEF WlGood

(* The device is opened by the display that had none.                      *)
LEMMA DeviceOpened ==
  ASSUME FileType, WlType, NEW d \in WlDisplay, WlFd(d) = -1,
         NEW node \in Node, NEW auth_type \in {"NONE", "CUSTOM"},
         auth_type = "CUSTOM" => node = "render",
         Opens(d, node, auth_type)
  PROVE  /\ FileType'
         /\ wl_drm_state' \in [WlDisplay -> [fd : FD \cup {-2, -1},
                                             auth_type : {"NONE", "CUSTOM"}]]
         /\ \A e \in WlDisplay : e # d => wl_drm_state'[e] = wl_drm_state[e]
         /\ WlFd(d)' \in FD /\ wl_drm_state'[d].auth_type = auth_type
         /\ WlOwns(d) => Touches(d) /\ WlOwns(d)'
<1>1. Free # {} /\ file' = Open(d, node) /\ d \in Owner
  BY DEF Opens, Owner
<1>2. FileType' /\ Touches(d)
  BY <1>1, OpensLeast
<1>3. PICK m \in FD : /\ m = Min(Free) /\ file[m].by = "nobody"
                      /\ file'[m] = [by |-> d, node |-> node]
                      /\ \A n \in FD : n # m => file'[n] = file[n]
  BY <1>1, OpensLeast
<1>4. wl_drm_state' = [wl_drm_state EXCEPT ![d] = [fd |-> m, auth_type |-> auth_type]]
  BY <1>3 DEF Opens
<1>5. /\ wl_drm_state' \in [WlDisplay -> [fd : FD \cup {-2, -1},
                                          auth_type : {"NONE", "CUSTOM"}]]
      /\ \A e \in WlDisplay : e # d => wl_drm_state'[e] = wl_drm_state[e]
      /\ WlFd(d)' = m /\ wl_drm_state'[d].auth_type = auth_type
  BY <1>4 DEF WlType, WlFd
<1>6. ASSUME WlOwns(d)
      PROVE  WlOwns(d)'
  <2>1. \A n \in FD : file[n].by # d
    BY <1>6, Numbers DEF WlOwns
  <2>2. \A n \in FD : file'[n].by = d <=> n = m
    BY <1>3, <2>1
  <2>3. auth_type = "CUSTOM" => Usable(m, d)'
    BY <1>3 DEF Usable
  <2> QED
    BY <1>5, <2>2, <2>3 DEF WlOwns
<1> QED
  BY <1>2, <1>5, <1>6

(* linux-dmabuf opens the device, or finds that it is of no use.           *)
LEMMA MainDeviceGood ==
  ASSUME FileType, WlType, NEW d \in WlDisplay, WlInv(d), feedback_handle_main_device(d)
  PROVE  WlGood(d)
<1> DEFINE q == Queue(d)
           t == Tail(q)
<1>1. /\ wl_pc[d] = "dispatch" /\ q # << >> /\ Head(q) = "main_device"
      /\ events' = Popped(d)
      /\ UNCHANGED <<wl_pc, backend, stage, opaque, got, proxies, offers, wl_opened>>
  BY DEF feedback_handle_main_device, Dispatches, Queue
<1>2. Arrives(d, t)
  BY <1>1, QueueTaken
<1>3. /\ AtMostOne(t, Opening(backend[d])) /\ AtMostOne(t, Finishing(backend[d]))
      /\ AtMostOne(t, {"sync"}) /\ ~ Has(t, Opening(backend[d])) /\ WlFd(d) = -1
      /\ Has(t, Finishing(backend[d])) => "default_feedback_done" \notin got[d]
      /\ Has(t, {"device", "authenticated"}) => backend[d] = "wl_drm"
      /\ Has(t, {"authenticated"}) => WlFd(d) \in FD
      /\ backend[d] = "linux_dmabuf"
  BY <1>1, First DEF Opening
<1>4. \A S, e : Before(q, S, e) /\ Head(q) \notin S => Before(t, S, e)
  BY <1>1, QueueTyped, Popping
<1> HIDE DEF t, q
<1>5. CASE Opens(d, "render", "CUSTOM") /\ UNCHANGED faults
  <2>1. /\ FileType'
        /\ wl_drm_state' \in [WlDisplay -> [fd : FD \cup {-2, -1},
                                            auth_type : {"NONE", "CUSTOM"}]]
        /\ \A e \in WlDisplay : e # d => wl_drm_state'[e] = wl_drm_state[e]
        /\ WlFd(d)' \in FD /\ wl_drm_state'[d].auth_type = "CUSTOM"
        /\ WlOwns(d) => Touches(d) /\ WlOwns(d)'
    <3>1. "render" \in Node
      BY DEF Node
    <3> QED
      BY <1>3, <1>5, <3>1, DeviceOpened
  <2>2. WlType' /\ WlAlone(d) /\ Queue(d)' = t
    BY <1>1, <1>2, <1>5, <2>1 DEF WlType, WlAlone, Arrives
  <2>3. QueueInv(d)'
    BY <1>1, <1>3, <2>1, <2>2 DEF QueueInv
  <2>4. WlLocal(d)'
    BY <1>1, <1>3, <2>1, <2>2 DEF WlInv, WlLocal, WlOver
  <2>5. FeedbackInv(d)'
    BY <1>1, <1>5 DEF WlInv, FeedbackInv, WlOver
  <2>6. ProgressInv(d)'
    <3>1. ~ faults[d] => ProgressInv(d) /\ DmabufProgress(d)
      BY DEF WlInv, ProgressInv
    <3>2. ~ faults[d] => DmabufProgress(d)'
      BY <1>1, <1>3, <1>4, <2>1, <2>2, <3>1 DEF DmabufProgress, q
    <3> QED
      BY <1>1, <1>3, <1>5, <3>2 DEF ProgressInv, WlDrmProgress
  <2> QED
    BY <2>1, <2>2, <2>3, <2>4, <2>5, <2>6 DEF WlGood, WlInv
<1>6. CASE /\ IF "render_node" \in offers[d]
              THEN faults' = [faults EXCEPT ![d] = TRUE] ELSE UNCHANGED faults
           /\ UNCHANGED <<file, wl_drm_state>>
  <2>1. WlType' /\ WlAlone(d) /\ Queue(d)' = t
    BY <1>1, <1>2, <1>6 DEF WlType, WlAlone, Arrives
  <2>2. Same(d) /\ WlFd(d)' = WlFd(d)
    BY <1>1, <1>6 DEF Same, WlFd
  <2>3. CASE "render_node" \in offers[d]
    <3>1. faults'[d] = TRUE
      BY <1>6, <2>3 DEF WlType
    <3>2. WlInv(d)'
      BY <1>1, <2>1, <2>2, <3>1, Faulty DEF q, t
    <3> QED
      BY <1>6, <2>1, <3>2, WlQuiet DEF WlGood
  <2>4. CASE "render_node" \notin offers[d]
    <3>1. faults'[d] = faults[d]
      BY <1>6, <2>4
    <3>2. QueueInv(d)'
      BY <1>1, <1>3, <2>1, <2>2, Numbers DEF QueueInv
    <3>3. WlLocal(d)'
      BY <1>1, <1>3, <2>1, <2>2 DEF WlInv, WlLocal, WlOver, Same
    <3>4. FeedbackInv(d)'
      BY <1>1, <3>1 DEF WlInv, FeedbackInv, WlOver
    <3>5. ~ faults[d] => DmabufProgress(d)'
      BY <1>1, <1>4, <2>1, <2>2, <2>4 DEF WlInv, ProgressInv, DmabufProgress, q
    <3>6. ProgressInv(d)'
      BY <1>1, <1>3, <3>1, <3>5 DEF ProgressInv, WlDrmProgress
    <3> QED
      BY <1>6, <2>1, <3>2, <3>3, <3>4, <3>6, WlQuiet DEF WlGood, WlInv
  <2> QED
    BY <2>3, <2>4
<1> QED
  BY <1>5, <1>6 DEF feedback_handle_main_device, Fault

(* The feedback is done: its object is gone.                               *)
LEMMA DoneGood ==
  ASSUME FileType, WlType, NEW d \in WlDisplay, WlInv(d), feedback_handle_done(d)
  PROVE  WlGood(d)
<1> DEFINE q == Queue(d)
           t == Tail(q)
<1>1. /\ wl_pc[d] = "dispatch" /\ q # << >> /\ Head(q) = "done"
      /\ events' = Popped(d)
      /\ got' = [got EXCEPT ![d] = @ \cup {"default_feedback_done"}]
      /\ proxies' = [proxies EXCEPT ![d] = @ \ {"feedback"}]
      /\ UNCHANGED <<file, wl_pc, backend, stage, opaque, wl_drm_state, offers,
                     faults, wl_opened>>
  BY DEF feedback_handle_done, Dispatches, Queue, Gets
<1>2. Arrives(d, t)
  BY <1>1, QueueTaken
<1>3. /\ AtMostOne(t, Opening(backend[d])) /\ AtMostOne(t, Finishing(backend[d]))
      /\ AtMostOne(t, {"sync"}) /\ ~ Has(t, Finishing(backend[d]))
      /\ Has(t, Opening(backend[d])) => WlFd(d) = -1
      /\ Has(t, {"device", "authenticated"}) => backend[d] = "wl_drm"
      /\ Has(t, {"authenticated"}) => WlFd(d) \in FD
      /\ backend[d] = "linux_dmabuf"
  BY <1>1, First DEF Finishing
<1>4. \A S, e : /\ Before(q, S, e) /\ Head(q) \notin S => Before(t, S, e)
                /\ Before(q, S, e) => Head(q) # e
  BY <1>1, QueueTyped, Popping
<1>5. "default_feedback_done" \in Fact
  BY DEF Fact
<1>6. /\ got' \in [WlDisplay -> SUBSET Fact]
      /\ got'[d] = got[d] \cup {"default_feedback_done"}
      /\ \A e \in WlDisplay : e # d => got'[e] = got[e]
  BY <1>1, <1>5, FactLearnt
<1>7. /\ proxies' \in [WlDisplay -> SUBSET Proxy]
      /\ proxies'[d] = proxies[d] \ {"feedback"}
      /\ \A e \in WlDisplay : e # d => proxies'[e] = proxies[e]
  <2> DEFINE new == proxies[d] \ {"feedback"}
  <2>1. new \in SUBSET Proxy
    BY DEF WlType
  <2>2. proxies' = [proxies EXCEPT ![d] = new]
    BY <1>1
  <2> HIDE DEF new
  <2>3. /\ proxies' \in [WlDisplay -> SUBSET Proxy] /\ proxies'[d] = new
        /\ \A e \in WlDisplay : e # d => proxies'[e] = proxies[e]
    BY <2>1, <2>2 DEF WlType
  <2> QED
    BY <2>3 DEF new
<1> HIDE DEF t, q
<1>8. WlType' /\ WlAlone(d)
  BY <1>1, <1>2, <1>6, <1>7 DEF WlType, WlAlone, Arrives
<1>9. Queue(d)' = t /\ WlFd(d)' = WlFd(d) /\ backend'[d] = "linux_dmabuf"
  BY <1>1, <1>2, <1>3 DEF Arrives, WlFd
<1>10. QueueInv(d)'
  BY <1>3, <1>9, Numbers DEF QueueInv
<1>11. WlLocal(d)'
  BY <1>1, <1>3, <1>6, <1>7, <1>9 DEF WlInv, WlLocal, WlOver
<1>12. FeedbackInv(d)'
  BY <1>1, <1>7 DEF FeedbackInv, WlOver
<1>13. ASSUME ~ faults[d]
       PROVE  DmabufProgress(d)'
  <2>1. DmabufProgress(d)
    BY <1>13 DEF WlInv, ProgressInv
  <2>2. "render_node" \in offers[d] => WlFd(d) \in FD
    BY <1>1, <1>3, <1>4, <2>1 DEF DmabufProgress, q
  <2> QED
    BY <1>1, <1>3, <1>4, <1>6, <1>9, <2>1, <2>2 DEF DmabufProgress, q
<1>14. ProgressInv(d)'
  BY <1>1, <1>9, <1>13 DEF ProgressInv, WlDrmProgress
<1> QED
  BY <1>1, <1>8, <1>10, <1>11, <1>12, <1>14, WlQuiet DEF WlGood, WlInv

(* wl_drm opens the device, and perhaps has it authenticated.              *)
LEMMA DeviceGood ==
  ASSUME FileType, WlType, NEW d \in WlDisplay, WlInv(d), drm_handle_device(d)
  PROVE  WlGood(d)
<1> DEFINE q == Queue(d)
           t == Tail(q)
<1>1. /\ wl_pc[d] = "dispatch" /\ q # << >> /\ Head(q) = "device"
      /\ UNCHANGED <<wl_pc, backend, stage, opaque, proxies, offers, wl_opened>>
  BY DEF drm_handle_device, Dispatches, Queue
<1>2. /\ t \in Seq(Event)
      /\ AtMostOne(t, Opening(backend[d])) /\ AtMostOne(t, Finishing(backend[d]))
      /\ AtMostOne(t, {"sync"}) /\ ~ Has(t, Opening(backend[d])) /\ WlFd(d) = -1
      /\ Has(t, Finishing(backend[d])) => "default_feedback_done" \notin got[d]
      /\ Has(t, {"main_device", "done"}) => backend[d] = "linux_dmabuf"
      /\ Has(t, {"authenticated"}) => WlFd(d) \in FD
      /\ backend[d] = "wl_drm"
  BY <1>1, First DEF Opening
<1>3. \A S, e : /\ Before(q, S, e) /\ Head(q) \notin S => Before(t, S, e)
                /\ Has(t, S) => Has(q, S)
  BY <1>1, QueueTyped, Popping
<1>4. "is_authenticated" \notin got[d]
  BY <1>2, Numbers DEF WlInv, WlLocal
<1> HIDE DEF q
<1>5. ASSUME ~ faults[d]
      PROVE  WlDrmProgress(d) /\ stage[d] # 3
  <2>1. WlDrmProgress(d)
    BY <1>5 DEF WlInv, ProgressInv
  <2> QED
    BY <1>1, <1>2, <2>1, Numbers DEF WlDrmProgress
<1>6. CASE /\ Opens(d, "render", "CUSTOM")
           /\ got' = [got EXCEPT ![d] = @ \cup {"is_authenticated"}]
           /\ events' = Popped(d) /\ UNCHANGED faults
  <2>1. /\ FileType'
        /\ wl_drm_state' \in [WlDisplay -> [fd : FD \cup {-2, -1},
                                            auth_type : {"NONE", "CUSTOM"}]]
        /\ \A e \in WlDisplay : e # d => wl_drm_state'[e] = wl_drm_state[e]
        /\ WlFd(d)' \in FD /\ wl_drm_state'[d].auth_type = "CUSTOM"
        /\ WlOwns(d) => Touches(d) /\ WlOwns(d)'
    <3>1. "render" \in Node
      BY DEF Node
    <3> QED
      BY <1>2, <1>6, <3>1, DeviceOpened
  <2>2. Arrives(d, t)
    BY <1>1, <1>6, QueueTaken DEF q
  <2>3. /\ got' \in [WlDisplay -> SUBSET Fact]
        /\ got'[d] = got[d] \cup {"is_authenticated"}
        /\ \A e \in WlDisplay : e # d => got'[e] = got[e]
    <3>1. "is_authenticated" \in Fact
      BY DEF Fact
    <3> QED
      BY <1>6, <3>1, FactLearnt
  <2> HIDE DEF t
  <2>4. WlType' /\ WlAlone(d) /\ Queue(d)' = t
    BY <1>1, <1>6, <2>1, <2>2, <2>3 DEF WlType, WlAlone, Arrives
  <2>5. QueueInv(d)'
    BY <1>1, <1>2, <2>1, <2>3, <2>4 DEF QueueInv
  <2>6. WlLocal(d)'
    BY <1>1, <1>2, <2>1, <2>3, <2>4 DEF WlInv, WlLocal, WlOver
  <2>7. FeedbackInv(d)'
    BY <1>1, <1>2, <1>6 DEF WlInv, FeedbackInv, WlOver
  <2>8. ~ faults[d] => WlDrmProgress(d)'
    BY <1>1, <1>2, <1>3, <1>5, <2>1, <2>3, <2>4 DEF WlDrmProgress, q
  <2>9. ProgressInv(d)'
    BY <1>1, <1>2, <1>6, <2>8 DEF ProgressInv, DmabufProgress
  <2> QED
    BY <2>1, <2>4, <2>5, <2>6, <2>7, <2>9 DEF WlGood, WlInv
<1>7. CASE /\ Opens(d, "primary", "NONE")
           /\ \/ events' = Appended(Popped(d), d, <<"authenticated">>) /\ UNCHANGED faults
              \/ events' = Popped(d) /\ faults' = [faults EXCEPT ![d] = TRUE]
           /\ UNCHANGED got
  <2>1. /\ FileType'
        /\ wl_drm_state' \in [WlDisplay -> [fd : FD \cup {-2, -1},
                                            auth_type : {"NONE", "CUSTOM"}]]
        /\ \A e \in WlDisplay : e # d => wl_drm_state'[e] = wl_drm_state[e]
        /\ WlFd(d)' \in FD /\ wl_drm_state'[d].auth_type = "NONE"
        /\ WlOwns(d) => Touches(d) /\ WlOwns(d)'
    <3>1. "primary" \in Node
      BY DEF Node
    <3> QED
      BY <1>2, <1>7, <3>1, DeviceOpened
  <2>2. FeedbackInv(d)'
    BY <1>1, <1>2, <1>7 DEF WlInv, FeedbackInv, WlOver, WlType
  <2>3. CASE events' = Appended(Popped(d), d, <<"authenticated">>) /\ UNCHANGED faults
    <3> DEFINE r == Append(t, "authenticated")
    <3>1. "authenticated" \in Event /\ <<"authenticated">> \in Seq(Event)
      BY DEF Event
    <3>2. Arrives(d, r)
      <4>1. Arrives(d, t \o <<"authenticated">>)
        BY <1>1, <2>3, <3>1, QueueAnswered DEF q
      <4> QED
        BY <1>2, <3>1, <4>1, Appending, ZenonT(60)
    <3>3. \A S, e :
            /\ Has(r, S) <=> Has(t, S) \/ "authenticated" \in S
            /\ AtMostOne(t, S) /\ ("authenticated" \in S => ~ Has(t, S)) => AtMostOne(r, S)
            /\ Before(t, S, e) /\ ("authenticated" = e => Has(t, S)) => Before(r, S, e)
      BY <1>2, <3>1, Pushing
    <3> HIDE DEF r, t
    <3>4. WlType' /\ WlAlone(d) /\ Queue(d)' = r
      BY <1>1, <1>7, <2>1, <2>3, <3>2 DEF WlType, WlAlone, Arrives
    <3>5. QueueInv(d)'
      <4>1. "authenticated" \notin Opening("wl_drm") /\ "authenticated" \notin Finishing("wl_drm")
        BY DEF Opening, Finishing
      <4>2. /\ AtMostOne(r, Opening("wl_drm")) /\ ~ Has(r, Opening("wl_drm"))
            /\ AtMostOne(r, Finishing("wl_drm")) /\ AtMostOne(r, {"sync"})
            /\ Has(r, Finishing("wl_drm")) => "default_feedback_done" \notin got[d]
            /\ ~ Has(r, {"main_device", "done"})
        BY <1>2, <3>3, <4>1
      <4> QED
        BY <1>1, <1>2, <1>7, <2>1, <3>4, <4>2 DEF QueueInv
    <3>6. WlLocal(d)'
      BY <1>1, <1>2, <1>4, <1>7, <2>1, <3>4 DEF WlInv, WlLocal, WlOver
    <3>7. ~ faults[d] => WlDrmProgress(d)'
      BY <1>1, <1>2, <1>3, <1>5, <2>1, <3>3, <3>4 DEF WlDrmProgress, q
    <3>8. ProgressInv(d)'
      BY <1>1, <1>2, <2>3, <3>7 DEF ProgressInv, DmabufProgress
    <3> QED
      BY <2>1, <2>2, <3>4, <3>5, <3>6, <3>8 DEF WlGood, WlInv
  <2>4. CASE events' = Popped(d) /\ faults' = [faults EXCEPT ![d] = TRUE]
    <3>1. Arrives(d, t)
      BY <1>1, <2>4, QueueTaken DEF q
    <3> HIDE DEF t
    <3>2. WlType' /\ WlAlone(d) /\ Queue(d)' = t /\ faults'[d] = TRUE
      BY <1>1, <1>7, <2>1, <2>4, <3>1 DEF WlType, WlAlone, Arrives
    <3>3. QueueInv(d)'
      BY <1>1, <1>2, <1>7, <2>1, <3>2 DEF QueueInv
    <3>4. WlLocal(d)'
      BY <1>1, <1>2, <1>4, <1>7, <2>1, <3>2 DEF WlInv, WlLocal, WlOver
    <3>5. ProgressInv(d)'
      BY <3>2 DEF ProgressInv
    <3> QED
      BY <2>1, <2>2, <3>2, <3>3, <3>4, <3>5 DEF WlGood, WlInv
  <2> QED
    BY <1>7, <2>3, <2>4
<1>8. CASE /\ events' = Popped(d) /\ faults' = [faults EXCEPT ![d] = TRUE]
           /\ UNCHANGED <<file, wl_drm_state, got>>
  <2>1. Arrives(d, t)
    BY <1>1, <1>8, QueueTaken DEF q
  <2>2. WlType' /\ WlAlone(d) /\ Queue(d)' = Tail(Queue(d)) /\ faults'[d] = TRUE /\ Same(d)
    BY <1>1, <1>8, <2>1 DEF WlType, WlAlone, Arrives, Same, q
  <2>3. WlInv(d)'
    BY <1>1, <2>2, Faulty DEF q
  <2> QED
    BY <1>8, <2>2, <2>3, WlQuiet DEF WlGood
<1> QED
  BY <1>6, <1>7, <1>8 DEF drm_handle_device, Gets, Fault

(* The compositor has authenticated the device that is open.               *)
LEMMA AuthenticatedGood ==
  ASSUME FileType, WlType, NEW d \in WlDisplay, WlInv(d), drm_handle_authenticated(d)
  PROVE  WlGood(d)
<1> DEFINE q == Queue(d)
           t == Tail(q)
<1>1. /\ wl_pc[d] = "dispatch" /\ q # << >> /\ Head(q) = "authenticated"
      /\ events' = Popped(d)
      /\ file' = [file EXCEPT ![WlFd(d)].node =
                    IF file[WlFd(d)].by = d THEN "authenticated" ELSE @]
      /\ wl_drm_state' = [wl_drm_state EXCEPT ![d].auth_type = "CUSTOM"]
      /\ got' = [got EXCEPT ![d] = @ \cup {"is_authenticated"}]
      /\ UNCHANGED <<wl_pc, backend, stage, opaque, proxies, offers, faults, wl_opened>>
  BY DEF drm_handle_authenticated, Dispatches, Queue, Gets, WlFd
<1>2. Arrives(d, t)
  BY <1>1, QueueTaken
<1>3. /\ AtMostOne(t, Opening(backend[d])) /\ AtMostOne(t, Finishing(backend[d]))
      /\ AtMostOne(t, {"sync"})
      /\ Has(t, Opening(backend[d])) => WlFd(d) = -1
      /\ Has(t, Finishing(backend[d])) => "default_feedback_done" \notin got[d]
      /\ Has(t, {"main_device", "done"}) => backend[d] = "linux_dmabuf"
      /\ backend[d] = "wl_drm" /\ WlFd(d) \in FD
  BY <1>1, First
<1>4. \A S, e : /\ Before(q, S, e) /\ Head(q) \notin S => Before(t, S, e)
                /\ Has(t, S) => Has(q, S)
  BY <1>1, QueueTyped, Popping
<1>5. /\ got' \in [WlDisplay -> SUBSET Fact]
      /\ got'[d] = got[d] \cup {"is_authenticated"}
      /\ \A e \in WlDisplay : e # d => got'[e] = got[e]
  <2>1. "is_authenticated" \in Fact
    BY DEF Fact
  <2> QED
    BY <1>1, <2>1, FactLearnt
<1>6. /\ wl_drm_state' \in [WlDisplay -> [fd : FD \cup {-2, -1},
                                          auth_type : {"NONE", "CUSTOM"}]]
      /\ wl_drm_state'[d] = [wl_drm_state[d] EXCEPT !.auth_type = "CUSTOM"]
      /\ \A e \in WlDisplay : e # d => wl_drm_state'[e] = wl_drm_state[e]
  BY <1>1, ZenonT(60) DEF WlType
<1>7. WlFd(d)' = WlFd(d) /\ wl_drm_state'[d].auth_type = "CUSTOM"
  <2>1. wl_drm_state[d] \in [fd : FD \cup {-2, -1}, auth_type : {"NONE", "CUSTOM"}]
    BY DEF WlType
  <2> QED
    BY <1>6, <2>1 DEF WlFd
<1> HIDE DEF t, q
<1>8. PICK n \in FD : n = WlFd(d)
  BY <1>3
<1>9. /\ FileType' /\ \A i \in FD : i # n => file'[i] = file[i]
      /\ file'[n].by = file[n].by
      /\ file[n].by = d => file'[n].node = "authenticated"
      /\ file[n].by # d => file'[n] = file[n]
  BY <1>1, <1>8 DEF FileType, Node
<1>10. ASSUME WlOwns(d)
      PROVE  Touches(d) /\ WlOwns(d)'
  <2>1. \A i \in FD : file[i].by = d <=> i = n
    BY <1>10, <1>8 DEF WlOwns
  <2>2. Touches(d)
    BY <1>9, <2>1 DEF Touches
  <2>3. \A i \in FD : file'[i].by = d <=> i = n
    BY <1>9, <2>1
  <2>4. Usable(n, d)'
    BY <1>9, <2>1 DEF Usable
  <2> QED
    BY <1>7, <1>8, <2>2, <2>3, <2>4 DEF WlOwns
<1>11. WlType' /\ WlAlone(d) /\ Queue(d)' = t
  BY <1>1, <1>2, <1>5, <1>6 DEF WlType, WlAlone, Arrives
<1>12. QueueInv(d)'
  BY <1>1, <1>3, <1>5, <1>7, <1>11 DEF QueueInv
<1>13. WlLocal(d)'
  BY <1>1, <1>3, <1>5, <1>7, <1>11 DEF WlInv, WlLocal, WlOver
<1>14. FeedbackInv(d)'
  BY <1>1, <1>3 DEF WlInv, FeedbackInv, WlOver
<1>15. ASSUME ~ faults[d]
       PROVE  WlDrmProgress(d)'
  <2>1. WlDrmProgress(d)
    BY <1>15 DEF WlInv, ProgressInv
  <2> QED
    BY <1>1, <1>3, <1>4, <1>5, <1>7, <1>11, <2>1 DEF WlDrmProgress, q
<1>16. ProgressInv(d)'
  BY <1>1, <1>3, <1>15 DEF ProgressInv, DmabufProgress
<1> QED
  BY <1>9, <1>10, <1>11, <1>12, <1>13, <1>14, <1>16 DEF WlGood, WlInv

(* Events that change nothing.                                             *)
LEMMA OtherGood ==
  ASSUME FileType, WlType, NEW d \in WlDisplay, WlInv(d), HandleOther(d)
  PROVE  WlGood(d)
<1>1. /\ wl_pc[d] = "dispatch" /\ Queue(d) # << >>
      /\ Head(Queue(d)) \in {"format_table", "capabilities"}
      /\ events' = Popped(d)
      /\ UNCHANGED <<file, wl_pc, backend, stage, opaque, wl_drm_state, got, proxies,
                     offers, faults, wl_opened>>
  BY DEF HandleOther, Dispatches, Queue
<1>2. Arrives(d, Tail(Queue(d)))
  BY <1>1, QueueTaken
<1>3. WlType' /\ WlAlone(d)
  BY <1>1, <1>2 DEF WlType, WlAlone, Arrives
<1>4. Queue(d)' = Tail(Queue(d)) /\ Same(d) /\ faults'[d] = faults[d]
  BY <1>1, <1>2 DEF Arrives, Same
<1>5. Head(Queue(d)) \notin {backend[d], "main_device", "device", "authenticated"}
  BY <1>1 DEF WlType
<1>6. WlInv(d)'
  BY <1>1, <1>4, <1>5, Ignoring
<1> QED
  BY <1>1, <1>3, <1>6, WlQuiet DEF WlGood

(* The application's event pump takes nothing of the library's.            *)
LEMMA AppDispatchGood ==
  ASSUME FileType, WlType, NEW d \in WlDisplay, WlInv(d), AppDispatch(d)
  PROVE  WlGood(d)
<1>1. /\ events[d].default # << >>
      /\ events' = [events EXCEPT ![d].default = Tail(events[d].default)]
      /\ UNCHANGED <<file, wl_pc, backend, stage, opaque, wl_drm_state, got, proxies,
                     offers, faults, wl_opened>>
  BY DEF AppDispatch
<1>2. Tail(events[d].default) \in Seq({"app"})
  <2>1. events[d].default \in Seq({"app"})
    BY DEF WlType
  <2> QED
    BY <1>1, <2>1, Popping
<1> DEFINE rest == Tail(events[d].default)
<1>3. /\ rest \in Seq({"app"}) /\ events' = [events EXCEPT ![d].default = rest]
  BY <1>1, <1>2
<1> HIDE DEF rest
<1>4. /\ events' \in [WlDisplay -> [private : Seq(Event), default : Seq({"app"})]]
      /\ events'[d].private = events[d].private
      /\ \A e \in WlDisplay : e # d => events'[e] = events[e]
  BY <1>3 DEF WlType
<1>5. WlType' /\ WlAlone(d)
  BY <1>1, <1>4 DEF WlType, WlAlone
<1>6. Queue(d)' = Queue(d) /\ Same(d) /\ faults'[d] = faults[d]
  BY <1>1, <1>4 DEF Queue, Same
<1>7. WlInv(d)'
  BY <1>6, Unaffected
<1> QED
  BY <1>1, <1>5, <1>7, WlQuiet DEF WlGood

(* What each roundtrip of each back end comes to.                          *)
LEMMA Roundtrips ==
  ASSUME WlType, NEW d \in WlDisplay, WlInv(d), Roundtrip(d)
  PROVE  /\ wl_pc[d] = "dispatch" /\ stage' = [stage EXCEPT ![d] = @ + 1]
         /\ UNCHANGED <<file, backend, opaque, wl_drm_state, got, proxies, offers,
                        faults, wl_opened>>
         /\ \/ /\ backend[d] = "linux_dmabuf" /\ stage[d] = 1
               /\ Dispatches(d, "sync") /\ events' = Popped(d)
               /\ wl_pc' = [wl_pc EXCEPT ![d] =
                              IF "has_linux_dmabuf" \in got[d] THEN "dispatch" ELSE "failed"]
            \/ /\ backend[d] = "linux_dmabuf" /\ stage[d] = 2
               /\ "default_feedback_done" \in got[d] /\ events' = events
               /\ wl_pc' = [wl_pc EXCEPT ![d] =
                              IF WlFd(d) \in FD THEN "created" ELSE "failed"]
            \/ /\ backend[d] = "wl_drm" /\ stage[d] = 1
               /\ Dispatches(d, "sync") /\ events' = Sync(Popped(d), d)
               /\ wl_pc' = [wl_pc EXCEPT ![d] =
                              IF "drm" \in proxies[d] THEN "dispatch" ELSE "failed"]
            \/ /\ backend[d] = "wl_drm" /\ stage[d] = 2
               /\ Dispatches(d, "sync") /\ events' = Sync(Popped(d), d)
               /\ wl_pc' = [wl_pc EXCEPT ![d] =
                              IF WlFd(d) \in FD THEN "dispatch" ELSE "failed"]
            \/ /\ backend[d] = "wl_drm" /\ stage[d] = 3
               /\ Dispatches(d, "sync") /\ events' = Popped(d)
               /\ wl_pc' = [wl_pc EXCEPT ![d] =
                              IF "is_authenticated" \in got[d] THEN "created" ELSE "failed"]
<1> DEFINE needed == Needed(d)[backend[d]]
<1>1. /\ IF backend[d] = "linux_dmabuf" /\ stage[d] = 2
         THEN /\ wl_pc[d] = "dispatch" /\ "default_feedback_done" \in got[d]
              /\ UNCHANGED events
         ELSE /\ Dispatches(d, "sync")
              /\ events' = IF backend[d] = "wl_drm" /\ stage[d] < 3
                           THEN Sync(Popped(d), d) ELSE Popped(d)
      /\ stage' = [stage EXCEPT ![d] = @ + 1]
      /\ wl_pc' = [wl_pc EXCEPT ![d] = IF ~needed[stage[d]] THEN "failed"
                   ELSE IF stage[d] = Len(needed) THEN "created" ELSE "dispatch"]
      /\ UNCHANGED <<file, backend, opaque, wl_drm_state, got, proxies, offers,
                     faults, wl_opened>>
  BY DEF Roundtrip, WlGoto
<1>2. /\ wl_pc[d] = "dispatch" /\ stage' = [stage EXCEPT ![d] = @ + 1]
      /\ UNCHANGED <<file, backend, opaque, wl_drm_state, got, proxies, offers,
                     faults, wl_opened>>
  BY <1>1 DEF Dispatches
<1>3. /\ stage[d] \in Nat /\ stage[d] >= 1 /\ backend[d] \in {"linux_dmabuf", "wl_drm"}
      /\ stage[d] <= (IF backend[d] = "wl_drm" THEN 3 ELSE 2)
  BY <1>2 DEF WlInv, WlLocal, WlType
<1>4. WlFd(d) >= 0 <=> WlFd(d) \in FD
  <2>1. WlFd(d) \in FD \cup {-2, -1}
    BY DEF WlType, WlFd
  <2>2. \A n \in FD : n \in Nat
    BY FDAssumption
  <2>3. CASE WlFd(d) \in FD
    BY <2>2, <2>3
  <2>4. CASE WlFd(d) \in {-2, -1}
    BY <2>4, Numbers
  <2> QED
    BY <2>1, <2>3, <2>4
<1>5. CASE backend[d] = "linux_dmabuf"
  <2>1. needed = << "has_linux_dmabuf" \in got[d], WlFd(d) >= 0 >>
    BY <1>5 DEF Needed, WlFd
  <2>2. Len(needed) = 2 /\ (needed[1] <=> "has_linux_dmabuf" \in got[d])
        /\ (needed[2] <=> WlFd(d) \in FD)
    <3> DEFINE A == "has_linux_dmabuf" \in got[d]
               B == WlFd(d) >= 0
    <3>1. A \in BOOLEAN /\ B \in BOOLEAN /\ needed = <<A, B>> /\ (B <=> WlFd(d) \in FD)
      BY <1>4, <2>1
    <3> HIDE DEF needed, A, B
    <3>2. Len(needed) = 2 /\ needed[1] = A /\ needed[2] = B
      BY <3>1
    <3> QED
      BY <3>1, <3>2 DEF A
  <2> HIDE DEF needed
  <2>3. CASE stage[d] = 1
    <3>1. (needed[stage[d]] <=> "has_linux_dmabuf" \in got[d]) /\ stage[d] # Len(needed)
      BY <2>2, <2>3
    <3>2. wl_pc' = [wl_pc EXCEPT ![d] =
           IF "has_linux_dmabuf" \in got[d] THEN "dispatch" ELSE "failed"]
      BY <1>1, <3>1
    <3>3. Dispatches(d, "sync") /\ events' = Popped(d)
      BY <1>1, <1>5, <2>3
    <3> QED
      BY <1>2, <1>5, <2>3, <3>2, <3>3
  <2>4. CASE stage[d] = 2
    <3>1. (needed[stage[d]] <=> WlFd(d) \in FD) /\ stage[d] = Len(needed)
      BY <2>2, <2>4
    <3>2. wl_pc' = [wl_pc EXCEPT ![d] = IF WlFd(d) \in FD THEN "created" ELSE "failed"]
      BY <1>1, <3>1
    <3>3. "default_feedback_done" \in got[d] /\ events' = events
      BY <1>1, <1>5, <2>4
    <3> QED
      BY <1>2, <1>5, <2>4, <3>2, <3>3
  <2>5. stage[d] = 1 \/ stage[d] = 2
    BY <1>3, <1>5
  <2> QED
    BY <2>3, <2>4, <2>5
<1>6. CASE backend[d] = "wl_drm"
  <2>1. needed = << "drm" \in proxies[d], WlFd(d) >= 0, "is_authenticated" \in got[d] >>
    BY <1>6 DEF Needed, WlFd
  <2>2. Len(needed) = 3 /\ (needed[1] <=> "drm" \in proxies[d])
        /\ (needed[2] <=> WlFd(d) \in FD) /\ (needed[3] <=> "is_authenticated" \in got[d])
    <3> DEFINE A == "drm" \in proxies[d]
               B == WlFd(d) >= 0
               C == "is_authenticated" \in got[d]
    <3>1. /\ A \in BOOLEAN /\ B \in BOOLEAN /\ C \in BOOLEAN /\ needed = <<A, B, C>>
          /\ B <=> WlFd(d) \in FD
      BY <1>4, <2>1
    <3> HIDE DEF needed, A, B, C
    <3>2. Len(needed) = 3 /\ needed[1] = A /\ needed[2] = B /\ needed[3] = C
      BY <3>1
    <3> QED
      BY <3>1, <3>2 DEF A, C
  <2> HIDE DEF needed
  <2>3. CASE stage[d] = 1
    <3>1. (needed[stage[d]] <=> "drm" \in proxies[d]) /\ stage[d] # Len(needed)
      BY <2>2, <2>3
    <3>2. wl_pc' = [wl_pc EXCEPT ![d] = IF "drm" \in proxies[d] THEN "dispatch" ELSE "failed"]
      BY <1>1, <3>1
    <3>3. Dispatches(d, "sync") /\ events' = Sync(Popped(d), d)
      BY <1>1, <1>6, <2>3
    <3> QED
      BY <1>2, <1>6, <2>3, <3>2, <3>3
  <2>4. CASE stage[d] = 2
    <3>1. (needed[stage[d]] <=> WlFd(d) \in FD) /\ stage[d] # Len(needed)
      BY <2>2, <2>4
    <3>2. wl_pc' = [wl_pc EXCEPT ![d] = IF WlFd(d) \in FD THEN "dispatch" ELSE "failed"]
      BY <1>1, <3>1
    <3>3. Dispatches(d, "sync") /\ events' = Sync(Popped(d), d)
      BY <1>1, <1>6, <2>4
    <3> QED
      BY <1>2, <1>6, <2>4, <3>2, <3>3
  <2>5. CASE stage[d] = 3
    <3>1. (needed[stage[d]] <=> "is_authenticated" \in got[d]) /\ stage[d] = Len(needed)
      BY <2>2, <2>5
    <3>2. wl_pc' = [wl_pc EXCEPT ![d] =
           IF "is_authenticated" \in got[d] THEN "created" ELSE "failed"]
      BY <1>1, <3>1
    <3>3. Dispatches(d, "sync") /\ events' = Popped(d)
      BY <1>1, <1>6, <2>5
    <3> QED
      BY <1>2, <1>6, <2>5, <3>2, <3>3
  <2>6. stage[d] = 1 \/ stage[d] = 2 \/ stage[d] = 3
    BY <1>3, <1>6
  <2> QED
    BY <2>3, <2>4, <2>5, <2>6
<1> QED
  BY <1>3, <1>5, <1>6

(* The answer of the compositor is taken, and perhaps waited for again:    *)
(* what else was queued is queued, and before the next answer.             *)
LEMMA Answered ==
  ASSUME WlType, NEW d \in WlDisplay, WlInv(d), Queue(d) # << >>, Head(Queue(d)) = "sync",
         backend'[d] = backend[d], got'[d] = got[d], WlFd(d)' = WlFd(d),
         backend[d] \in {"linux_dmabuf", "wl_drm"},
         Queue(d)' \in {Tail(Queue(d)), Append(Tail(Queue(d)), "sync")}
  PROVE  /\ QueueInv(d)'
         /\ \A S : "sync" \notin S =>
              /\ Has(Queue(d)', S) <=> Has(Queue(d), S)
              /\ Has(Queue(d), S) => Before(Queue(d)', S, "sync")
              /\ ~ Before(Queue(d), S, "sync")
<1> DEFINE q == Queue(d)
           t == Tail(q)
           r == Append(t, "sync")
<1>1. /\ t \in Seq(Event)
      /\ AtMostOne(t, Opening(backend[d])) /\ AtMostOne(t, Finishing(backend[d]))
      /\ AtMostOne(t, {"sync"}) /\ ~ Has(t, {"sync"})
      /\ Has(t, Opening(backend[d])) => WlFd(d) = -1
      /\ Has(t, Finishing(backend[d])) => "default_feedback_done" \notin got[d]
      /\ Has(t, {"main_device", "done"}) => backend[d] = "linux_dmabuf"
      /\ Has(t, {"device", "authenticated"}) => backend[d] = "wl_drm"
      /\ Has(t, {"authenticated"}) => WlFd(d) \in FD
  BY First
<1>2. "sync" \in Event
  BY DEF Event
<1>3. \A S, e :
        /\ Has(r, S) <=> Has(t, S) \/ "sync" \in S
        /\ AtMostOne(t, S) /\ ("sync" \in S => ~ Has(t, S)) => AtMostOne(r, S)
        /\ Before(t, S, e) /\ ("sync" = e => Has(t, S)) => Before(r, S, e)
  BY <1>1, <1>2, Pushing, ZenonT(60)
<1>4. \A S, e : /\ Has(t, S) => Has(q, S)
                /\ Has(q, S) => Head(q) \in S \/ Has(t, S)
                /\ Before(q, S, e) => Head(q) # e
  BY QueueTyped, Popping
<1>5. \A S : Before(t, S, "sync")
  BY <1>1, Queued
<1>6. Queue(d)' \in {t, r} /\ Head(q) = "sync"
  OBVIOUS
<1> HIDE DEF t, r, q
<1>7. ASSUME NEW S, "sync" \notin S
      PROVE  /\ Has(Queue(d)', S) <=> Has(q, S)
             /\ Has(q, S) => Before(Queue(d)', S, "sync")
             /\ ~ Before(q, S, "sync")
  <2>1. Has(q, S) <=> Has(t, S)
    BY <1>4, <1>6, <1>7
  <2>2. Has(r, S) <=> Has(t, S)
    BY <1>3, <1>7
  <2>3. Has(t, S) => Before(r, S, "sync")
    BY <1>3, <1>5
  <2> QED
    BY <1>4, <1>5, <1>6, <2>1, <2>2, <2>3
<1>8. ASSUME Queue(d)' = t
      PROVE  QueueInv(d)'
  BY <1>1, <1>8 DEF QueueInv
<1>9. ASSUME Queue(d)' = r
      PROVE  QueueInv(d)'
  <2>1. "sync" \notin Opening(backend[d]) /\ "sync" \notin Finishing(backend[d])
    BY DEF Opening, Finishing
  <2>2. /\ AtMostOne(r, Opening(backend[d])) /\ AtMostOne(r, Finishing(backend[d]))
        /\ AtMostOne(r, {"sync"})
        /\ Has(r, Opening(backend[d])) => WlFd(d) = -1
        /\ Has(r, Finishing(backend[d])) => "default_feedback_done" \notin got[d]
        /\ Has(r, {"main_device", "done"}) => backend[d] = "linux_dmabuf"
        /\ Has(r, {"device", "authenticated"}) => backend[d] = "wl_drm"
        /\ Has(r, {"authenticated"}) => WlFd(d) \in FD
    BY <1>1, <1>3, <2>1
  <2> QED
    BY <1>9, <2>2 DEF QueueInv
<1> QED
  BY <1>6, <1>7, <1>8, <1>9 DEF q

(* A roundtrip ends with all that it was to bring.                         *)
LEMMA RoundtripGood ==
  ASSUME FileType, WlType, NEW d \in WlDisplay, WlInv(d), Roundtrip(d)
  PROVE  WlGood(d)
<1> DEFINE q == Queue(d)
           t == Tail(q)
           r == Append(t, "sync")
<1>1. /\ wl_pc[d] = "dispatch" /\ stage' = [stage EXCEPT ![d] = @ + 1]
      /\ UNCHANGED <<file, backend, opaque, wl_drm_state, got, proxies, offers,
                     faults, wl_opened>>
  BY Roundtrips
<1>2. PICK over \in {"dispatch", "created", "failed"} : wl_pc' = [wl_pc EXCEPT ![d] = over]
  BY Roundtrips
<1>3. /\ wl_pc'[d] = over /\ stage'[d] = stage[d] + 1 /\ stage[d] \in Nat
      /\ \A e \in WlDisplay : e # d => wl_pc'[e] = wl_pc[e] /\ stage'[e] = stage[e]
      /\ stage' \in [WlDisplay -> Nat] /\ WlFd(d)' = WlFd(d)
  <2>1. /\ wl_pc'[d] = over
        /\ \A e \in WlDisplay : e # d => wl_pc'[e] = wl_pc[e]
    BY <1>2 DEF WlType
  <2>2. stage \in [WlDisplay -> Nat]
    BY DEF WlType
  <2>3. stage' = [stage EXCEPT ![d] = @ + 1]
    BY <1>1
  <2>4. /\ stage'[d] = stage[d] + 1 /\ stage[d] \in Nat
        /\ \A e \in WlDisplay : e # d => stage'[e] = stage[e]
        /\ stage' \in [WlDisplay -> Nat]
    BY <2>2, <2>3
  <2>5. WlFd(d)' = WlFd(d)
    BY <1>1 DEF WlFd
  <2> QED
    BY <2>1, <2>4, <2>5
<1>4. /\ events' \in [WlDisplay -> [private : Seq(Event), default : Seq({"app"})]]
      /\ \A e \in WlDisplay : e # d => events'[e] = events[e]
      /\ \/ /\ backend[d] = "linux_dmabuf" /\ stage[d] = 1
            /\ q # << >> /\ Head(q) = "sync" /\ Queue(d)' = t
            /\ over = IF "has_linux_dmabuf" \in got[d] THEN "dispatch" ELSE "failed"
         \/ /\ backend[d] = "linux_dmabuf" /\ stage[d] = 2
            /\ "default_feedback_done" \in got[d] /\ Queue(d)' = q
            /\ over = IF WlFd(d) \in FD THEN "created" ELSE "failed"
         \/ /\ backend[d] = "wl_drm" /\ stage[d] = 1
            /\ q # << >> /\ Head(q) = "sync" /\ Queue(d)' = r
            /\ over = IF "drm" \in proxies[d] THEN "dispatch" ELSE "failed"
         \/ /\ backend[d] = "wl_drm" /\ stage[d] = 2
            /\ q # << >> /\ Head(q) = "sync" /\ Queue(d)' = r
            /\ over = IF WlFd(d) \in FD THEN "dispatch" ELSE "failed"
         \/ /\ backend[d] = "wl_drm" /\ stage[d] = 3
            /\ q # << >> /\ Head(q) = "sync" /\ Queue(d)' = t
            /\ over = IF "is_authenticated" \in got[d] THEN "created" ELSE "failed"
  <2> DEFINE Taken(evs) ==
        /\ events' \in [WlDisplay -> [private : Seq(Event), default : Seq({"app"})]]
        /\ \A e \in WlDisplay : e # d => events'[e] = events[e]
        /\ Queue(d)' = evs
  <2>1. Dispatches(d, "sync") => q # << >> /\ Head(q) = "sync"
    BY DEF Dispatches, Queue
  <2>2. Dispatches(d, "sync") /\ events' = Popped(d) => Taken(t)
    BY <2>1, QueueTaken DEF Arrives
  <2>3. Dispatches(d, "sync") /\ events' = Sync(Popped(d), d) => Taken(r)
    BY <2>1, QueueSynced DEF Arrives
  <2>4. events' = events => Taken(q)
    BY DEF Queue, WlType
  <2>5. \A x : wl_pc' = [wl_pc EXCEPT ![d] = x] => over = x
    BY <1>2 DEF WlType
  <2> HIDE DEF q, t, r
  <2> QED
    BY <2>1, <2>2, <2>3, <2>4, <2>5, Roundtrips, ZenonT(60)
<1>5. WlType' /\ WlAlone(d)
  BY <1>1, <1>2, <1>3, <1>4 DEF WlType, WlAlone
<1>6. ASSUME q # << >>, Head(q) = "sync", Queue(d)' \in {t, r}
      PROVE  /\ QueueInv(d)'
             /\ \A S : "sync" \notin S =>
                  /\ Has(Queue(d)', S) <=> Has(q, S)
                  /\ Has(q, S) => Before(Queue(d)', S, "sync")
                  /\ ~ Before(q, S, "sync")
  <2>1. backend[d] \in {"linux_dmabuf", "wl_drm"}
    BY <1>4
  <2> QED
    BY <1>1, <1>3, <1>6, <2>1, Answered
<1> HIDE DEF t, r
<1>7. QueueInv(d)'
  <2>1. CASE Queue(d)' = q
    BY <1>1, <1>3, <2>1 DEF WlInv, QueueInv
  <2> QED
    BY <1>4, <1>6, <2>1
<1>8. /\ wl_drm_state'[d] = wl_drm_state[d] /\ got'[d] = got[d] /\ backend'[d] = backend[d]
      /\ opaque'[d] = opaque[d] /\ proxies'[d] = proxies[d]
      /\ offers'[d] = offers[d] /\ faults'[d] = faults[d]
  BY <1>1
<1>9. over = "created" => wl_drm_state[d].auth_type = "CUSTOM"
  BY <1>4 DEF WlInv, WlLocal
<1>10. over = "dispatch" =>
         stage[d] + 1 >= 1 /\ stage[d] + 1 <= (IF backend[d] = "wl_drm" THEN 3 ELSE 2)
  BY <1>4
<1>11. WlLocal(d)'
  <2>1. WlLocal(d) /\ opaque[d] = backend[d] /\ backend[d] # "none"
    BY <1>1 DEF WlInv, WlLocal
  <2>2. over \notin {"none", "create", "display", "no display", "terminated"}
    OBVIOUS
  <2> QED
    BY <1>3, <1>8, <1>9, <1>10, <2>1, <2>2 DEF WlLocal, WlOver
<1>12. FeedbackInv(d)'
  <2>1. WlInv(d) /\ backend[d] = "linux_dmabuf" /\ "feedback" \in proxies[d] /\ ~ faults[d]
          => over = "dispatch"
    BY <1>4 DEF WlInv, FeedbackInv
  <2>2. over \notin {"none", "create", "display", "no display", "terminated"}
    OBVIOUS
  <2> QED
    BY <1>3, <1>8, <2>1, <2>2 DEF WlInv, FeedbackInv, WlOver
<1>13. ASSUME ~ faults[d]
       PROVE  DmabufProgress(d)'
  <2>1. DmabufProgress(d)
    BY <1>13 DEF WlInv, ProgressInv
  <2>2. "render_node" \in offers[d] => "linux_dmabuf" \in offers[d]
    BY DEF WlType, Compositors
  <2>3. CASE backend[d] = "linux_dmabuf" /\ stage[d] = 1
    <3>1. q # << >> /\ Head(q) = "sync" /\ Queue(d)' = t
      BY <1>4, <2>3
    <3>2. "linux_dmabuf" \in offers[d] => "has_linux_dmabuf" \in got[d]
      BY <1>6, <2>1, <2>3, <3>1 DEF DmabufProgress, q
    <3>3. Before(q, {"main_device"}, "done") => Before(Queue(d)', {"main_device"}, "done")
      BY <3>1, QueueTyped, Popping DEF q, t
    <3>4. over = "failed" => "render_node" \notin offers[d]
      BY <1>4, <2>2, <2>3, <3>2
    <3> QED
      BY <1>3, <1>8, <2>1, <2>3, <3>2, <3>3, <3>4 DEF DmabufProgress, q
  <2>4. CASE backend[d] = "linux_dmabuf" /\ stage[d] = 2
    <3>1. Queue(d)' = Queue(d) /\ (over = "failed" => WlFd(d) \notin FD)
          /\ "default_feedback_done" \in got[d]
      BY <1>4, <2>4 DEF q
    <3> QED
      BY <1>3, <1>8, <2>1, <2>4, <3>1 DEF DmabufProgress
  <2>5. CASE backend[d] = "wl_drm"
    BY <1>1, <2>5 DEF DmabufProgress
  <2> QED
    BY <1>4, <2>3, <2>4, <2>5
<1>14. ASSUME ~ faults[d], backend[d] = "wl_drm"
       PROVE  WlDrmProgress(d)'
  <2>1. WlDrmProgress(d)
    BY <1>14 DEF WlInv, ProgressInv
  <2>2. q # << >> /\ Head(q) = "sync" /\ Queue(d)' \in {t, r}
    BY <1>4, <1>14
  <2>3. \A S : "sync" \notin S =>
          /\ Has(Queue(d)', S) <=> Has(q, S)
          /\ Has(q, S) => Before(Queue(d)', S, "sync")
          /\ ~ Before(q, S, "sync")
    BY <1>6, <2>2
  <2>4. "wl_drm" \in offers[d] => "drm" \in proxies[d]
    BY <1>14, <2>1, <2>3 DEF WlDrmProgress, q
  <2>5. "drm" \in proxies[d] /\ WlFd(d) \notin FD =>
          /\ stage[d] # 2 /\ stage[d] # 3
          /\ Has(Queue(d)', {"device"}) /\ Before(Queue(d)', {"device"}, "sync")
    BY <1>1, <1>14, <2>1, <2>3 DEF WlDrmProgress, q
  <2>6. WlFd(d) \in FD /\ "is_authenticated" \notin got[d] =>
          /\ stage[d] # 3
          /\ Has(Queue(d)', {"authenticated"}) /\ Before(Queue(d)', {"authenticated"}, "sync")
    BY <1>14, <2>1, <2>3 DEF WlDrmProgress, q
  <2>7. "drm" \in proxies[d] => ~ Has(Queue(d)', {"wl_drm"})
    BY <1>14, <2>1, <2>3 DEF WlDrmProgress, q
  <2>8. stage[d] \in {2, 3} => "drm" \in proxies[d]
    BY <1>1, <1>14, <2>1 DEF WlDrmProgress
  <2>9. over = "dispatch" => "drm" \in proxies[d] /\ (stage[d] + 1 = 3 => WlFd(d) \in FD)
    BY <1>3, <1>4, <1>14, <2>8
  <2>10. stage[d] = 3 => WlFd(d) \in FD
    BY <1>1, <1>14, <2>1 DEF WlDrmProgress
  <2>11. over = "failed" => "wl_drm" \notin offers[d]
    BY <1>4, <1>14, <2>4, <2>5, <2>6, <2>8, <2>10
  <2>12. "render_node" \notin offers[d]
    BY <1>14, <2>1 DEF WlDrmProgress
  <2> HIDE DEF q
  <2> QED
    BY <1>3, <1>8, <2>4, <2>5, <2>6, <2>7, <2>9, <2>11, <2>12 DEF WlDrmProgress
<1>15. ProgressInv(d)'
  <2>1. backend[d] # "wl_drm" => WlDrmProgress(d)'
    BY <1>8 DEF WlDrmProgress
  <2> QED
    BY <1>3, <1>8, <1>13, <1>14, <2>1 DEF ProgressInv
<1> QED
  BY <1>1, <1>5, <1>7, <1>11, <1>12, <1>15, WlQuiet DEF WlGood, WlInv

(* The connection breaks.                                                  *)
LEMMA RoundtripFailsGood ==
  ASSUME FileType, WlType, NEW d \in WlDisplay, WlInv(d), RoundtripFails(d)
  PROVE  WlGood(d)
<1>1. /\ wl_pc[d] = "dispatch" /\ wl_pc' = [wl_pc EXCEPT ![d] = "failed"]
      /\ faults' = [faults EXCEPT ![d] = TRUE]
      /\ UNCHANGED <<file, backend, stage, opaque, wl_drm_state, got, proxies, events,
                     offers, wl_opened>>
  BY DEF RoundtripFails, Fault, WlGoto
<1>2. wl_pc'[d] = "failed" /\ faults'[d] = TRUE /\ WlType' /\ WlAlone(d)
  BY <1>1 DEF WlType, WlAlone
<1>3. QueueInv(d)'
  BY <1>1 DEF WlInv, QueueInv, Queue, WlFd
<1>4. WlLocal(d)'
  BY <1>1, <1>2 DEF WlInv, WlLocal, WlFd, WlOver
<1>5. FeedbackInv(d)' /\ ProgressInv(d)'
  BY <1>2 DEF FeedbackInv, ProgressInv, WlOver
<1> QED
  BY <1>1, <1>2, <1>3, <1>4, <1>5, WlQuiet DEF WlGood, WlInv

(* What the end of a create function leaves.                               *)
LEMMA EndedTyped ==
  ASSUME WlType, NEW d \in WlDisplay, Ended(d)
  PROVE  /\ stage' \in [WlDisplay -> Nat] /\ stage'[d] = 0
         /\ \A e \in WlDisplay : e # d => stage'[e] = stage[e]
         /\ proxies' \in [WlDisplay -> SUBSET Proxy]
         /\ proxies'[d] = proxies[d] \cap {"feedback"}
         /\ \A e \in WlDisplay : e # d => proxies'[e] = proxies[e]
         /\ Arrives(d, << >>)
<1>1. /\ stage' = [stage EXCEPT ![d] = 0]
      /\ proxies' = [proxies EXCEPT ![d] = @ \cap {"feedback"}]
      /\ events' = [events EXCEPT ![d].private = << >>]
  BY DEF Ended
<1>2. << >> \in Seq(Event)
  OBVIOUS
<1>3. Arrives(d, << >>)
  BY <1>1, <1>2, QueueSet
<1>4. /\ stage' \in [WlDisplay -> Nat] /\ stage'[d] = 0
      /\ \A e \in WlDisplay : e # d => stage'[e] = stage[e]
  BY <1>1 DEF WlType
<1> DEFINE new == proxies[d] \cap {"feedback"}
<1>5. new \in SUBSET Proxy
  BY DEF Proxy
<1>6. proxies' = [proxies EXCEPT ![d] = new]
  BY <1>1
<1> HIDE DEF new
<1>7. /\ proxies' \in [WlDisplay -> SUBSET Proxy] /\ proxies'[d] = new
      /\ \A e \in WlDisplay : e # d => proxies'[e] = proxies[e]
  BY <1>5, <1>6 DEF WlType
<1> QED
  BY <1>3, <1>4, <1>7 DEF new

(* The display is given.                                                   *)
LEMMA CreatedGood ==
  ASSUME FileType, WlType, NEW d \in WlDisplay, WlInv(d), Created(d)
  PROVE  WlGood(d)
<1>1. /\ wl_pc[d] = "created" /\ wl_pc' = [wl_pc EXCEPT ![d] = "display"]
      /\ UNCHANGED <<file, backend, opaque, wl_drm_state, got, offers, faults, wl_opened>>
  BY DEF Created, WlGoto
<1>2. /\ stage' \in [WlDisplay -> Nat] /\ stage'[d] = 0
      /\ \A e \in WlDisplay : e # d => stage'[e] = stage[e]
      /\ proxies' \in [WlDisplay -> SUBSET Proxy]
      /\ proxies'[d] = proxies[d] \cap {"feedback"}
      /\ \A e \in WlDisplay : e # d => proxies'[e] = proxies[e]
      /\ Arrives(d, << >>)
  BY EndedTyped DEF Created
<1>3. wl_pc'[d] = "display" /\ WlType' /\ WlAlone(d) /\ Queue(d)' = << >>
  BY <1>1, <1>2 DEF WlType, WlAlone, Arrives
<1>4. /\ wl_drm_state'[d] = wl_drm_state[d] /\ got'[d] = got[d] /\ backend'[d] = backend[d]
      /\ opaque'[d] = opaque[d] /\ offers'[d] = offers[d] /\ faults'[d] = faults[d]
      /\ WlFd(d)' = WlFd(d)
  BY <1>1 DEF WlFd
<1>5. /\ backend[d] # "none" /\ opaque[d] = backend[d]
      /\ wl_drm_state[d].auth_type = "CUSTOM" /\ WlFd(d) \in FD
      /\ backend[d] = "wl_drm" => "is_authenticated" \in got[d]
  BY <1>1 DEF WlInv, WlLocal
<1>6. QueueInv(d)'
  BY <1>3, WlEmpty
<1>7. WlLocal(d)'
  BY <1>3, <1>4, <1>5 DEF WlLocal, WlOver
<1>8. FeedbackInv(d)'
  BY <1>1, <1>2, <1>3, <1>4 DEF WlInv, FeedbackInv, WlOver
<1>9. \A S, e : ~ Has(<< >>, S) /\ Before(<< >>, S, e)
  BY NothingQueued
<1>10. ProgressInv(d)'
  <2>1. ASSUME ~ faults[d]
        PROVE  DmabufProgress(d)' /\ WlDrmProgress(d)'
    <3>1. DmabufProgress(d)'
      BY <1>3, <1>4, <1>5, <1>9 DEF DmabufProgress
    <3>2. backend[d] = "wl_drm" => "render_node" \notin offers[d]
      BY <2>1 DEF WlInv, ProgressInv, WlDrmProgress
    <3>3. WlDrmProgress(d)'
      BY <1>2, <1>3, <1>4, <1>5, <1>9, <3>2 DEF WlDrmProgress
    <3> QED
      BY <3>1, <3>3
  <2> QED
    BY <1>3, <1>4, <2>1 DEF ProgressInv
<1> QED
  BY <1>1, <1>3, <1>4, <1>6, <1>7, <1>8, <1>10, WlQuiet DEF WlGood, WlInv

(* The destroy functions close the display's own descriptor.               *)
LEMMA DestroyedGood ==
  ASSUME FileType, WlType, NEW d \in WlDisplay, Destroyed(d)
  PROVE  /\ FileType'
         /\ wl_drm_state' \in [WlDisplay -> [fd : FD \cup {-2, -1},
                                             auth_type : {"NONE", "CUSTOM"}]]
         /\ wl_drm_state'[d] = NoState
         /\ \A e \in WlDisplay : e # d => wl_drm_state'[e] = wl_drm_state[e]
         /\ got' \in [WlDisplay -> SUBSET Fact] /\ got'[d] = {}
         /\ \A e \in WlDisplay : e # d => got'[e] = got[e]
         /\ WlOwns(d) => Touches(d) /\ WlOwns(d)'
<1>1. /\ file' = Close(WlFd(d))
      /\ wl_drm_state' = [wl_drm_state EXCEPT ![d] = NoState]
      /\ got' = [got EXCEPT ![d] = {}]
  BY DEF Destroyed, StateClosed, WlFd
<1>2. FileType' /\ \A j \in FD : j # WlFd(d) => file'[j] = file[j]
  BY <1>1, ClosesTyped
<1>3. NoState \in [fd : FD \cup {-2, -1}, auth_type : {"NONE", "CUSTOM"}]
  BY DEF NoState
<1>4. /\ wl_drm_state' \in [WlDisplay -> [fd : FD \cup {-2, -1},
                                          auth_type : {"NONE", "CUSTOM"}]]
      /\ wl_drm_state'[d] = NoState
      /\ \A e \in WlDisplay : e # d => wl_drm_state'[e] = wl_drm_state[e]
  BY <1>1, <1>3 DEF WlType
<1>5. /\ got' \in [WlDisplay -> SUBSET Fact] /\ got'[d] = {}
      /\ \A e \in WlDisplay : e # d => got'[e] = got[e]
  BY <1>1 DEF WlType
<1>6. ASSUME WlOwns(d)
      PROVE  Touches(d) /\ WlOwns(d)'
  <2>1. d \in Owner /\ d # "nobody"
    BY Owners DEF Owner
  <2>2. WlFd(d) \in FD => file[WlFd(d)].by = d
    BY <1>6 DEF WlOwns
  <2>3. Touches(d) /\ (WlFd(d) \in FD => file'[WlFd(d)].by = "nobody")
    BY <1>1, <2>1, <2>2, ClosesOwn
  <2>4. \A n \in FD : file'[n].by # d
    BY <1>2, <1>6, <2>1, <2>3 DEF WlOwns
  <2>5. WlFd(d)' = -2 /\ wl_drm_state'[d].auth_type = "NONE"
    BY <1>4, Numbers DEF WlFd
  <2> QED
    BY <2>3, <2>4, <2>5, Numbers DEF WlOwns
<1> QED
  BY <1>2, <1>4, <1>5, <1>6

(* The next back end starts from nothing, or there is no display.          *)
LEMMA BackendFailsGood ==
  ASSUME FileType, WlType, NEW d \in WlDisplay, WlInv(d), BackendFails(d)
  PROVE  WlGood(d)
<1>1. /\ wl_pc[d] = "failed"
      /\ \/ /\ backend[d] = "linux_dmabuf" /\ UNCHANGED opaque
            /\ backend' = [backend EXCEPT ![d] = "wl_drm"]
            /\ wl_pc' = [wl_pc EXCEPT ![d] = "create"]
         \/ /\ backend[d] # "linux_dmabuf" /\ UNCHANGED backend
            /\ wl_pc' = [wl_pc EXCEPT ![d] = "no display"]
            /\ opaque' = [opaque EXCEPT ![d] = "none"]
      /\ UNCHANGED <<offers, faults, wl_opened>>
  BY DEF BackendFails, WlGoto, Create
<1>2. /\ stage' \in [WlDisplay -> Nat] /\ stage'[d] = 0
      /\ \A e \in WlDisplay : e # d => stage'[e] = stage[e]
      /\ proxies' \in [WlDisplay -> SUBSET Proxy]
      /\ proxies'[d] = proxies[d] \cap {"feedback"}
      /\ \A e \in WlDisplay : e # d => proxies'[e] = proxies[e]
      /\ Arrives(d, << >>)
  BY EndedTyped DEF BackendFails
<1>3. /\ FileType'
      /\ wl_drm_state' \in [WlDisplay -> [fd : FD \cup {-2, -1},
                                          auth_type : {"NONE", "CUSTOM"}]]
      /\ wl_drm_state'[d] = NoState
      /\ \A e \in WlDisplay : e # d => wl_drm_state'[e] = wl_drm_state[e]
      /\ got' \in [WlDisplay -> SUBSET Fact] /\ got'[d] = {}
      /\ \A e \in WlDisplay : e # d => got'[e] = got[e]
      /\ WlOwns(d) => Touches(d) /\ WlOwns(d)'
  BY DestroyedGood DEF BackendFails
<1>4. backend[d] \in {"linux_dmabuf", "wl_drm"}
  BY <1>1 DEF WlInv, WlLocal, WlType
<1>5. /\ backend'[d] = "wl_drm"
      /\ \/ backend[d] = "linux_dmabuf" /\ wl_pc'[d] = "create"
         \/ backend[d] = "wl_drm" /\ wl_pc'[d] = "no display"
      /\ \A e \in WlDisplay : e # d => /\ backend'[e] = backend[e] /\ wl_pc'[e] = wl_pc[e]
                                       /\ opaque'[e] = opaque[e]
  BY <1>1, <1>4 DEF WlType
<1>6. WlType' /\ WlAlone(d) /\ Queue(d)' = << >>
  <2>1. /\ wl_pc' \in [WlDisplay -> {"none", "create", "failed", "dispatch", "created",
                                     "display", "no display", "crashed", "terminated"}]
        /\ backend' \in [WlDisplay -> {"none", "linux_dmabuf", "wl_drm"}]
        /\ opaque' \in [WlDisplay -> {"none", "linux_dmabuf", "wl_drm"}]
    BY <1>1 DEF WlType
  <2>2. WlType'
    BY <1>1, <1>2, <1>3, <2>1 DEF WlType, Arrives
  <2> QED
    BY <1>1, <1>2, <1>3, <1>5, <2>2 DEF WlAlone, Arrives
<1>7. QueueInv(d)'
  BY <1>6, WlEmpty
<1>8. WlFd(d)' = -2 /\ wl_drm_state'[d].auth_type = "NONE" /\ WlFd(d)' \notin FD
  BY <1>3, Numbers DEF WlFd
<1>9. WlLocal(d)'
  BY <1>2, <1>3, <1>5, <1>6, <1>8 DEF WlLocal, WlOver
<1>10. FeedbackInv(d)'
  BY <1>1, <1>2 DEF WlInv, FeedbackInv, WlOver
<1>11. \A S, e : ~ Has(<< >>, S) /\ Before(<< >>, S, e)
  BY NothingQueued
<1>12. ASSUME ~ faults[d]
       PROVE  /\ "render_node" \notin offers[d]
              /\ backend[d] = "wl_drm" => "wl_drm" \notin offers[d]
  <2>1. DmabufProgress(d) /\ WlDrmProgress(d)
    BY <1>12 DEF WlInv, ProgressInv
  <2> QED
    BY <1>1, <1>4, <2>1 DEF DmabufProgress, WlDrmProgress
<1>13. ProgressInv(d)'
  <2>1. DmabufProgress(d)'
    BY <1>5 DEF DmabufProgress
  <2>2. offers'[d] = offers[d] /\ faults'[d] = faults[d]
    BY <1>1
  <2>3. "drm" \notin proxies'[d]
    BY <1>2
  <2>4. wl_pc'[d] \notin {"dispatch", "failed"}
    BY <1>5
  <2>5. ASSUME ~ faults[d]
        PROVE  WlDrmProgress(d)'
    <3>1. "render_node" \notin offers'[d]
      BY <1>12, <2>2, <2>5
    <3>2. wl_pc'[d] = "no display" => "wl_drm" \notin offers'[d]
      BY <1>5, <1>12, <2>2, <2>5
    <3>3. Before(Queue(d)', {"wl_drm"}, "sync")
      BY <1>6, <1>11
    <3> QED
      BY <1>8, <2>3, <2>4, <3>1, <3>2, <3>3 DEF WlDrmProgress
  <2> QED
    BY <1>5, <2>1, <2>2, <2>5 DEF ProgressInv
<1> QED
  BY <1>3, <1>6, <1>7, <1>9, <1>10, <1>13 DEF WlGood, WlInv

(* The destroy function of wl_drm finds another context.                   *)
LEMMA BackendCrashesGood ==
  ASSUME FileType, WlType, NEW d \in WlDisplay, WlInv(d), BackendCrashes(d)
  PROVE  WlGood(d)
<1>1. /\ wl_pc[d] = "failed" /\ wl_pc' = [wl_pc EXCEPT ![d] = "crashed"]
      /\ UNCHANGED <<file, backend, stage, opaque, wl_drm_state, got, proxies, events,
                     offers, faults, wl_opened>>
  BY DEF BackendCrashes, WlGoto
<1>2. wl_pc'[d] = "crashed" /\ WlType' /\ WlAlone(d)
  BY <1>1 DEF WlType, WlAlone
<1>3. QueueInv(d)'
  BY <1>1 DEF WlInv, QueueInv, Queue, WlFd
<1>4. WlLocal(d)'
  BY <1>1, <1>2 DEF WlInv, WlLocal, WlFd, WlOver
<1>5. FeedbackInv(d)'
  BY <1>1, <1>2 DEF WlInv, FeedbackInv, WlOver
<1>6. ProgressInv(d)'
  BY <1>1, <1>2 DEF WlInv, ProgressInv, DmabufProgress, WlDrmProgress, Queue, WlFd
<1> QED
  BY <1>1, <1>2, <1>3, <1>4, <1>5, <1>6, WlQuiet DEF WlGood, WlInv

(* The driver is opened.                                                   *)
LEMMA WlInitializeGood ==
  ASSUME FileType, WlType, NEW d \in WlDisplay, WlInv(d), WlInitialize(d)
  PROVE  WlGood(d)
<1>1. /\ wl_opened' = [wl_opened EXCEPT ![d] = TRUE]
      /\ UNCHANGED <<file, wl_pc, backend, stage, opaque, wl_drm_state, got, proxies,
                     events, offers, faults>>
  BY DEF WlInitialize
<1>2. WlType' /\ WlAlone(d) /\ Same(d) /\ Queue(d)' = Queue(d)
  BY <1>1 DEF WlType, WlAlone, Same, Queue
<1>3. WlInv(d)'
  BY <1>1, <1>2, Unaffected
<1> QED
  BY <1>1, <1>2, <1>3, WlQuiet DEF WlGood

(* The display gives back what it has.                                     *)
LEMMA WlTerminateGood ==
  ASSUME FileType, WlType, NEW d \in WlDisplay, WlInv(d), WlTerminate(d)
  PROVE  WlGood(d)
<1>1. /\ wl_pc[d] = "display" /\ wl_pc' = [wl_pc EXCEPT ![d] = "terminated"]
      /\ opaque' = [opaque EXCEPT ![d] = "none"]
      /\ wl_opened' = [wl_opened EXCEPT ![d] = FALSE]
      /\ UNCHANGED <<backend, stage, proxies, events, offers, faults>>
  BY DEF WlTerminate, WlGoto
<1>2. /\ FileType'
      /\ wl_drm_state' \in [WlDisplay -> [fd : FD \cup {-2, -1},
                                          auth_type : {"NONE", "CUSTOM"}]]
      /\ wl_drm_state'[d] = NoState
      /\ \A e \in WlDisplay : e # d => wl_drm_state'[e] = wl_drm_state[e]
      /\ got' \in [WlDisplay -> SUBSET Fact] /\ got'[d] = {}
      /\ \A e \in WlDisplay : e # d => got'[e] = got[e]
      /\ WlOwns(d) => Touches(d) /\ WlOwns(d)'
  BY DestroyedGood DEF WlTerminate
<1>3. wl_pc'[d] = "terminated" /\ WlType' /\ WlAlone(d)
  BY <1>1, <1>2 DEF WlType, WlAlone
<1>4. Queue(d)' = << >> /\ proxies[d] \subseteq {"feedback"}
  BY <1>1 DEF WlInv, WlLocal, FeedbackInv, Queue
<1>5. QueueInv(d)'
  BY <1>4, WlEmpty
<1>6. WlFd(d)' = -2 /\ wl_drm_state'[d].auth_type = "NONE" /\ WlFd(d)' \notin FD
  BY <1>2, Numbers DEF WlFd
<1>7. WlLocal(d)'
  BY <1>2, <1>3, <1>4, <1>6 DEF WlLocal, WlOver
<1>8. FeedbackInv(d)'
  BY <1>1, <1>3, <1>4 DEF WlInv, FeedbackInv, WlOver
<1>9. \A S, e : ~ Has(<< >>, S) /\ Before(<< >>, S, e)
  BY NothingQueued
<1>10. ASSUME ~ faults[d]
       PROVE  DmabufProgress(d)' /\ WlDrmProgress(d)'
  <2>1. DmabufProgress(d)'
    BY <1>2, <1>3, <1>4, <1>9 DEF DmabufProgress
  <2>2. backend[d] = "wl_drm" => "render_node" \notin offers[d]
    BY <1>10 DEF WlInv, ProgressInv, WlDrmProgress
  <2>3. WlDrmProgress(d)'
    BY <1>1, <1>3, <1>4, <1>6, <1>9, <2>2 DEF WlDrmProgress
  <2> QED
    BY <2>1, <2>3
<1>11. ProgressInv(d)'
  BY <1>1, <1>3, <1>10 DEF ProgressInv
<1> QED
  BY <1>2, <1>3, <1>5, <1>7, <1>8, <1>11 DEF WlGood, WlInv

(* Every step of a Wayland display is one of these.                        *)
LEMMA WlStepGood ==
  ASSUME FileType, WlType, \A d \in WlDisplay : WlInv(d), WlNext
  PROVE  \E d \in WlDisplay : WlGood(d)
<1>1. PICK d \in WlDisplay :
        \/ vaGetDisplayWl(d) \/ CreateFails(d) \/ wl_display_get_registry(d)
        \/ registry_handle_global(d) \/ BindFails(d) \/ feedback_handle_main_device(d)
        \/ feedback_handle_done(d) \/ drm_handle_device(d)
        \/ drm_handle_authenticated(d) \/ HandleOther(d) \/ AppDispatch(d)
        \/ Roundtrip(d) \/ RoundtripFails(d) \/ Created(d) \/ BackendFails(d)
        \/ BackendCrashes(d)
        \/ WlInitialize(d) \/ WlTerminate(d)
  BY DEF WlNext
<1>2. WlInv(d)
  OBVIOUS
<1>3. WlGood(d)
  BY <1>1, <1>2, GetDisplayGood, CreateFailsGood, RegistryGood, GlobalGood, BindFailsGood,
     MainDeviceGood, DoneGood, DeviceGood, AuthenticatedGood, OtherGood, AppDispatchGood,
     RoundtripGood, RoundtripFailsGood, CreatedGood, BackendFailsGood, BackendCrashesGood,
     WlInitializeGood, WlTerminateGood
<1> QED
  BY <1>3

-----------------------------------------------------------------------------
(* Steps of DRM displays.                                                  *)

(* What every step of a DRM display does.                                  *)
DrmGood(a) ==
  /\ FileType' /\ DrmType'
  /\ \A b \in DrmApp : b # a => /\ drm_pc'[b] = drm_pc[b] /\ drm_fd'[b] = drm_fd[b]
                                /\ display_type'[b] = display_type[b]
                                /\ drm_auth'[b] = drm_auth[b]
  /\ DrmOwns(a) => Touches(a) /\ DrmOwns(a)'

(* The application's descriptor is open when the display gets it.          *)
LEMMA GetDisplayDRMGood ==
  ASSUME FileType, DrmType, NEW a \in DrmApp, vaGetDisplayDRM(a)
  PROVE  DrmGood(a)
<1>1. PICK node \in {"render", "primary"} :
        /\ Free # {} /\ file' = Open(a, node)
        /\ display_type' = [display_type EXCEPT ![a] =
             IF node = "render" THEN "DRM_RENDERNODES" ELSE "DRM"]
        /\ drm_fd' = [drm_fd EXCEPT ![a] = Min(Free)]
        /\ drm_pc' = [drm_pc EXCEPT ![a] = "display"]
        /\ drm_auth' = [drm_auth EXCEPT ![a] = "NONE"]
  BY DEF vaGetDisplayDRM, DrmGoto
<1>2. a \in Owner /\ node \in Node
  BY DEF Owner, Node
<1>3. FileType' /\ Touches(a)
  BY <1>1, <1>2, OpensLeast
<1>4. PICK m \in FD : m = Min(Free) /\ file'[m] = [by |-> a, node |-> node]
  BY <1>1, <1>2, OpensLeast
<1>5. drm_fd' = [drm_fd EXCEPT ![a] = m]
  BY <1>1, <1>4
<1>6. DrmType'
  BY <1>1, <1>5 DEF DrmType
<1>7. /\ drm_fd'[a] = m /\ drm_pc'[a] = "display" /\ drm_auth'[a] = "NONE"
      /\ display_type'[a] = IF node = "render" THEN "DRM_RENDERNODES" ELSE "DRM"
      /\ \A b \in DrmApp : b # a => /\ drm_pc'[b] = drm_pc[b] /\ drm_fd'[b] = drm_fd[b]
                                    /\ display_type'[b] = display_type[b]
                                    /\ drm_auth'[b] = drm_auth[b]
  BY <1>1, <1>5 DEF DrmType
<1>8. DrmOwns(a)'
  BY <1>4, <1>7 DEF DrmOwns
<1> QED
  BY <1>3, <1>6, <1>7, <1>8 DEF DrmGood

(* What is open under the application's number can be authenticated.       *)
LEMMA ConnectGood ==
  ASSUME FileType, DrmType, NEW a \in DrmApp, va_DisplayContextConnect(a)
  PROVE  DrmGood(a)
<1>1. drm_pc[a] = "display" /\ UNCHANGED <<drm_fd, display_type>>
  BY DEF va_DisplayContextConnect
<1>2. ASSUME UNCHANGED <<file, drm_auth>>, NEW label \in {"display", "open"},
             drm_pc' = [drm_pc EXCEPT ![a] = label]
      PROVE  DrmGood(a)
  <2>1. /\ FileType' /\ DrmType' /\ Touches(a) /\ drm_pc'[a] = label
        /\ \A b \in DrmApp : b # a => drm_pc'[b] = drm_pc[b]
    BY <1>1, <1>2 DEF FileType, DrmType, Touches
  <2>2. DrmOwns(a) => DrmOwns(a)'
    BY <1>1, <1>2, <2>1 DEF DrmOwns, Usable
  <2> QED
    BY <1>1, <1>2, <2>1, <2>2 DEF DrmGood
<1>3. CASE /\ file' = IF display_type[a] = "DRM_RENDERNODES" THEN file
                      ELSE [file EXCEPT ![drm_fd[a]].node = "authenticated"]
           /\ drm_auth' = [drm_auth EXCEPT ![a] = "CUSTOM"]
           /\ drm_pc' = [drm_pc EXCEPT ![a] = "open"]
  <2>1. /\ DrmType' /\ drm_pc'[a] = "open"
        /\ \A b \in DrmApp : b # a => /\ drm_pc'[b] = drm_pc[b] /\ drm_fd'[b] = drm_fd[b]
                                      /\ display_type'[b] = display_type[b]
                                      /\ drm_auth'[b] = drm_auth[b]
    BY <1>1, <1>3 DEF DrmType
  <2>2. CASE display_type[a] = "DRM_RENDERNODES"
    <3>1. FileType' /\ Touches(a) /\ file' = file
      BY <1>3, <2>2 DEF FileType, Touches
    <3>2. DrmOwns(a) => DrmOwns(a)'
      BY <1>1, <2>1, <2>2, <3>1 DEF DrmOwns, Usable
    <3> QED
      BY <2>1, <3>1, <3>2 DEF DrmGood
  <2>3. CASE display_type[a] # "DRM_RENDERNODES"
    <3> DEFINE n == drm_fd[a]
               opened_by == file[n].by
    <3>1. file' = [file EXCEPT ![n] = [@ EXCEPT !.node = "authenticated"]]
      BY <1>3, <2>3
    <3>2. "authenticated" \in Node
      BY DEF Node
    <3> HIDE DEF n
    <3>3. FileType'
      BY <3>1, <3>2 DEF FileType
    <3>4. \A j \in FD : j # n => file'[j] = file[j]
      BY <3>1 DEF FileType
    <3>5. n \in FD => file'[n].by = file[n].by /\ file'[n].node = "authenticated"
      BY <3>1 DEF FileType
    <3>6. ASSUME DrmOwns(a)
          PROVE  Touches(a) /\ DrmOwns(a)'
      <4>1. n \in FD /\ file[n].by = a
        BY <1>1, <3>6 DEF DrmOwns, n
      <4>2. Touches(a)
        BY <3>4, <3>5, <4>1 DEF Touches
      <4>3. drm_fd'[a] = n /\ display_type'[a] # "DRM_RENDERNODES"
        BY <1>1, <2>3 DEF n
      <4>4. DrmOwns(a)'
        BY <3>5, <4>1, <4>3 DEF DrmOwns, Usable
      <4> QED
        BY <4>2, <4>4
    <3> QED
      BY <2>1, <3>3, <3>6 DEF DrmGood
  <2> QED
    BY <2>2, <2>3
<1> QED
  BY <1>2, <1>3 DEF va_DisplayContextConnect, Exempt, DrmGoto

(* The driver is looked for, and the display terminated.                   *)
LEMMA DrmOpenGood ==
  ASSUME FileType, DrmType, NEW a \in DrmApp, DrmOpenDriver(a) \/ DrmTerminate(a)
  PROVE  DrmGood(a)
<1>1. PICK label \in {"display", "driver", "terminated"} :
        /\ drm_pc' = [drm_pc EXCEPT ![a] = label]
        /\ drm_pc[a] \in {"display", "open", "driver"}
        /\ label = "driver" => drm_pc[a] = "open"
        /\ UNCHANGED <<file, drm_fd, display_type, drm_auth>>
  BY DEF DrmOpenDriver, DrmTerminate, DrmGoto
<1>2. /\ DrmType' /\ drm_pc'[a] = label
      /\ \A b \in DrmApp : b # a => drm_pc'[b] = drm_pc[b]
  BY <1>1 DEF DrmType
<1>3. FileType' /\ Touches(a)
  BY <1>1 DEF FileType, Touches
<1>4. DrmOwns(a) => DrmOwns(a)'
  BY <1>1, <1>2 DEF DrmOwns, Usable
<1> QED
  BY <1>1, <1>2, <1>3, <1>4 DEF DrmGood

(* The application closes what it opened.                                  *)
LEMMA AppClosesGood ==
  ASSUME FileType, DrmType, NEW a \in DrmApp, AppCloses(a)
  PROVE  DrmGood(a)
<1>1. /\ drm_pc[a] = "terminated" /\ file' = Close(drm_fd[a])
      /\ drm_pc' = [drm_pc EXCEPT ![a] = "closed"]
      /\ UNCHANGED <<drm_fd, display_type, drm_auth>>
  BY DEF AppCloses, DrmGoto
<1>2. FileType'
  BY <1>1, ClosesTyped
<1>3. /\ DrmType' /\ drm_pc'[a] = "closed"
      /\ \A b \in DrmApp : b # a => drm_pc'[b] = drm_pc[b]
  BY <1>1 DEF DrmType
<1>4. DrmOwns(a)'
  BY <1>3 DEF DrmOwns
<1>5. ASSUME DrmOwns(a)
      PROVE  Touches(a)
  <2>1. a \in Owner /\ file[drm_fd[a]].by = a
    BY <1>1, <1>5 DEF DrmOwns, Owner
  <2> QED
    BY <1>1, <2>1, ClosesOwn
<1> QED
  BY <1>1, <1>2, <1>3, <1>4, <1>5 DEF DrmGood

(* Every step of a DRM display is one of these.                            *)
LEMMA DrmStepGood ==
  ASSUME FileType, DrmType, DrmNext
  PROVE  \E a \in DrmApp : DrmGood(a)
BY GetDisplayDRMGood, ConnectGood, DrmOpenGood, AppClosesGood DEF DrmNext

-----------------------------------------------------------------------------
(* The invariant.                                                          *)

(* Nothing is open at first.                                               *)
LEMMA InitGood == Init => IInv
<1> SUFFICES ASSUME Init PROVE IInv
  OBVIOUS
<1>1. file = AllClosed /\ X11Init /\ WlInit /\ DrmInit
  BY DEF Init
<1>2. FileType /\ \A n \in FD : file[n].by = "nobody"
  BY <1>1 DEF FileType, AllClosed, Closed, Node
<1>3. X11Type
  BY <1>1 DEF X11Init, X11Type
<1>4. WlType
  <2>1. << >> \in Seq(Event) /\ <<"app">> \in Seq({"app"})
    OBVIOUS
  <2>2. [private |-> << >>, default |-> <<"app">>] \in
          [private : Seq(Event), default : Seq({"app"})]
    BY <2>1
  <2>3. events \in [WlDisplay -> [private : Seq(Event), default : Seq({"app"})]]
    BY <1>1, <2>2 DEF WlInit
  <2>4. wl_drm_state \in [WlDisplay -> [fd : FD \cup {-2, -1}, auth_type : {"NONE", "CUSTOM"}]]
    BY <1>1 DEF WlInit, NoState
  <2> QED
    BY <1>1, <2>3, <2>4 DEF WlInit, WlType
<1>5. DrmType
  BY <1>1 DEF DrmInit, DrmType
<1>6. \A d \in Display : X11Local(d) /\ X11Owns(d)
  <2> TAKE d \in Display
  <2>1. d # "nobody"
    BY Owners DEF Owner
  <2>2. /\ drm_state[d] = [fd |-> -1, auth_type |-> "NONE", hooks |-> FALSE]
        /\ source[d] = "none" /\ opened[d] = FALSE /\ pc[d] = "app" /\ inits[d] = 0
    BY <1>1 DEF X11Init
  <2> QED
    BY <1>2, <2>1, <2>2 DEF X11Local, X11Owns
<1>7. \A d \in WlDisplay : WlInv(d) /\ WlOwns(d)
  <2> TAKE d \in WlDisplay
  <2>1. d # "nobody"
    BY Owners DEF Owner
  <2>2. /\ wl_pc[d] = "none" /\ backend[d] = "none" /\ opaque[d] = "none"
        /\ wl_drm_state[d] = NoState /\ got[d] = {} /\ proxies[d] = {}
        /\ Queue(d) = << >>
    BY <1>1 DEF WlInit, Queue
  <2>3. WlFd(d) = -2 /\ wl_drm_state[d].auth_type = "NONE" /\ WlFd(d) \notin FD
    BY <2>2, Numbers DEF WlFd
  <2>4. \A S : ~ Has(<< >>, S) /\ AtMostOne(<< >>, S)
    BY NothingQueued
  <2>5. QueueInv(d)
    BY <2>2, <2>4 DEF QueueInv
  <2>6. WlLocal(d)
    BY <2>2, <2>3 DEF WlLocal, WlOver
  <2>7. FeedbackInv(d)
    BY <2>2 DEF FeedbackInv, WlOver
  <2>8. ProgressInv(d)
    BY <2>2 DEF ProgressInv, DmabufProgress, WlDrmProgress
  <2>9. WlOwns(d)
    BY <1>2, <2>1, <2>3 DEF WlOwns
  <2> QED
    BY <2>5, <2>6, <2>7, <2>8, <2>9 DEF WlInv
<1>8. \A a \in DrmApp : DrmOwns(a)
  BY <1>1 DEF DrmInit, DrmOwns
<1> QED
  BY <1>2, <1>3, <1>4, <1>5, <1>6, <1>7, <1>8 DEF IInv, TypeOK, WlInv

(* A step of an X11 display.  A number that has been closed twice stays so. *)
LEMMA X11StepKeeps ==
  ASSUME IInv, X11Next, UNCHANGED <<wl_vars, drm_vars>>
  PROVE  IInv'
<1>1. FileType /\ X11Type /\ WlType /\ DrmType
  BY DEF IInv, TypeOK
<1>2. \A d \in Display : X11Local(d)
  BY DEF IInv
<1>3. PICK d \in Display : X11Good(d)
  BY <1>1, <1>2, X11StepGood
<1>4. /\ wl_pc' = wl_pc /\ backend' = backend /\ stage' = stage /\ opaque' = opaque
      /\ wl_drm_state' = wl_drm_state /\ got' = got /\ proxies' = proxies
      /\ events' = events /\ offers' = offers /\ faults' = faults
      /\ wl_opened' = wl_opened
      /\ drm_pc' = drm_pc /\ drm_fd' = drm_fd /\ display_type' = display_type
      /\ drm_auth' = drm_auth
  BY DEF wl_vars, drm_vars
<1>5. TypeOK'
  <2>1. WlType' /\ DrmType'
    BY <1>1, <1>4 DEF WlType, DrmType
  <2> QED
    BY <1>3, <2>1 DEF TypeOK, X11Good
<1>6. \A e \in Display : X11Local(e)'
  <2> TAKE e \in Display
  <2>1. CASE e # d
    BY <1>2, <1>3, <2>1 DEF X11Good, X11Alone, X11Local
  <2>2. CASE e = d
    BY <1>3, <2>2 DEF X11Good
  <2> QED
    BY <2>1, <2>2
<1>7. \A e \in WlDisplay : WlInv(e)'
  <2> TAKE e \in WlDisplay
  <2>1. WlInv(e)
    BY DEF IInv, WlInv
  <2>2. Same(e) /\ faults'[e] = faults[e] /\ Queue(e)' = Queue(e)
    BY <1>4 DEF Same, Queue
  <2> QED
    BY <2>1, <2>2, Unaffected
<1>8. ASSUME ~ ClosedTwice'
      PROVE  /\ \A e \in Display : X11Owns(e)'
             /\ \A e \in WlDisplay : WlOwns(e)'
             /\ \A a \in DrmApp : DrmOwns(a)'
  <2>1. \A e \in Display : ~ Gone(e)'
    BY <1>8 DEF ClosedTwice, Gone
  <2>2. \A e \in Display : ~ Gone(e)
    BY <1>3, <2>1 DEF X11Good, X11Alone, Gone
  <2>3. ~ ClosedTwice
    BY <2>2 DEF ClosedTwice, Gone
  <2>4. /\ \A e \in Display : X11Owns(e)
        /\ \A e \in WlDisplay : WlOwns(e)
        /\ \A a \in DrmApp : DrmOwns(a)
    BY <2>3 DEF IInv
  <2>5. Touches(d) /\ X11Owns(d)' /\ d \in Owner
    BY <1>3, <2>1, <2>4 DEF X11Good, Owner
  <2>6. \A e \in Display : X11Owns(e)'
    <3> TAKE e \in Display
    <3>1. CASE e # d
      <4>1. drm_state'[e] = drm_state[e] /\ pc'[e] = pc[e] /\ inits'[e] = inits[e]
        BY <1>3, <3>1 DEF X11Good, X11Alone
      <4> QED
        BY <1>1, <2>4, <2>5, <3>1, <4>1, X11Frame
    <3> QED
      BY <2>5, <3>1
  <2>7. \A e \in WlDisplay : WlOwns(e)'
    <3> TAKE e \in WlDisplay
    <3>1. e # d /\ wl_drm_state'[e] = wl_drm_state[e]
      BY <1>4, Owners
    <3> QED
      BY <1>1, <2>4, <2>5, <3>1, WlFrame
  <2>8. \A a \in DrmApp : DrmOwns(a)'
    <3> TAKE a \in DrmApp
    <3>1. /\ a # d /\ drm_pc'[a] = drm_pc[a] /\ drm_fd'[a] = drm_fd[a]
          /\ display_type'[a] = display_type[a] /\ drm_auth'[a] = drm_auth[a]
      BY <1>4, Owners
    <3> QED
      BY <1>1, <2>4, <2>5, <3>1, DrmFrame
  <2> QED
    BY <2>6, <2>7, <2>8
<1> QED
  BY <1>5, <1>6, <1>7, <1>8 DEF IInv, WlInv

(* A step of another display leaves the X11 displays as they are.          *)
LEMMA X11Still ==
  ASSUME \A d \in Display : X11Local(d), X11Type, UNCHANGED x11_vars
  PROVE  /\ X11Type' /\ \A d \in Display : X11Local(d)'
         /\ ClosedTwice' <=> ClosedTwice
         /\ drm_state' = drm_state /\ pc' = pc /\ inits' = inits
<1>1. /\ drm_state' = drm_state /\ source' = source /\ opened' = opened /\ pc' = pc
      /\ inits' = inits /\ chain' = chain /\ allocated' = allocated
  BY DEF x11_vars, connection_vars, drawable_vars
<1> QED
  BY <1>1 DEF X11Type, X11Local, ClosedTwice

(* A step of a Wayland display.                                            *)
LEMMA WlStepKeeps ==
  ASSUME IInv, WlNext, UNCHANGED <<x11_vars, drm_vars>>
  PROVE  IInv'
<1>1. FileType /\ X11Type /\ WlType /\ DrmType /\ \A e \in Display : X11Local(e)
  BY DEF IInv, TypeOK
<1>2. \A e \in WlDisplay : WlInv(e)
  BY DEF IInv, WlInv
<1>3. PICK d \in WlDisplay : WlGood(d)
  BY <1>1, <1>2, WlStepGood
<1>4. /\ X11Type' /\ \A e \in Display : X11Local(e)'
      /\ ClosedTwice' <=> ClosedTwice
      /\ drm_state' = drm_state /\ pc' = pc /\ inits' = inits
  BY <1>1, X11Still
<1>5. /\ drm_pc' = drm_pc /\ drm_fd' = drm_fd /\ display_type' = display_type
      /\ drm_auth' = drm_auth
  BY DEF drm_vars
<1>6. TypeOK'
  <2>1. DrmType'
    BY <1>1, <1>5 DEF DrmType
  <2> QED
    BY <1>3, <1>4, <2>1 DEF TypeOK, WlGood
<1>7. \A e \in WlDisplay : WlInv(e)'
  <2> TAKE e \in WlDisplay
  <2>1. CASE e # d
    <3>1. Same(e) /\ faults'[e] = faults[e] /\ Queue(e)' = Queue(e)
      BY <1>3, <2>1 DEF WlGood, WlAlone, Same, Queue
    <3> QED
      BY <1>2, <3>1, Unaffected
  <2>2. CASE e = d
    BY <1>3, <2>2 DEF WlGood
  <2> QED
    BY <2>1, <2>2
<1>8. ASSUME ~ ClosedTwice
      PROVE  /\ \A e \in Display : X11Owns(e)'
             /\ \A e \in WlDisplay : WlOwns(e)'
             /\ \A a \in DrmApp : DrmOwns(a)'
  <2>1. /\ \A e \in Display : X11Owns(e)
        /\ \A e \in WlDisplay : WlOwns(e)
        /\ \A a \in DrmApp : DrmOwns(a)
    BY <1>8 DEF IInv
  <2>2. Touches(d) /\ WlOwns(d)' /\ d \in Owner
    BY <1>3, <2>1 DEF WlGood, Owner
  <2>3. \A e \in Display : X11Owns(e)'
    <3> TAKE e \in Display
    <3>1. e # d /\ drm_state'[e] = drm_state[e] /\ pc'[e] = pc[e] /\ inits'[e] = inits[e]
      BY <1>4, Owners
    <3> QED
      BY <1>1, <2>1, <2>2, <3>1, X11Frame
  <2>4. \A e \in WlDisplay : WlOwns(e)'
    <3> TAKE e \in WlDisplay
    <3>1. CASE e # d
      <4>1. wl_drm_state'[e] = wl_drm_state[e]
        BY <1>3, <3>1 DEF WlGood, WlAlone
      <4> QED
        BY <1>1, <2>1, <2>2, <3>1, <4>1, WlFrame
    <3> QED
      BY <2>2, <3>1
  <2>5. \A a \in DrmApp : DrmOwns(a)'
    <3> TAKE a \in DrmApp
    <3>1. /\ a # d /\ drm_pc'[a] = drm_pc[a] /\ drm_fd'[a] = drm_fd[a]
          /\ display_type'[a] = display_type[a] /\ drm_auth'[a] = drm_auth[a]
      BY <1>5, Owners
    <3> QED
      BY <1>1, <2>1, <2>2, <3>1, DrmFrame
  <2> QED
    BY <2>3, <2>4, <2>5
<1> QED
  BY <1>4, <1>6, <1>7, <1>8 DEF IInv, WlInv

(* A step of a DRM display.                                                *)
LEMMA DrmStepKeeps ==
  ASSUME IInv, DrmNext, UNCHANGED <<x11_vars, wl_vars>>
  PROVE  IInv'
<1>1. FileType /\ X11Type /\ WlType /\ DrmType /\ \A e \in Display : X11Local(e)
  BY DEF IInv, TypeOK
<1>2. PICK a \in DrmApp : DrmGood(a)
  BY <1>1, DrmStepGood
<1>3. /\ X11Type' /\ \A e \in Display : X11Local(e)'
      /\ ClosedTwice' <=> ClosedTwice
      /\ drm_state' = drm_state /\ pc' = pc /\ inits' = inits
  BY <1>1, X11Still
<1>4. /\ wl_pc' = wl_pc /\ backend' = backend /\ stage' = stage /\ opaque' = opaque
      /\ wl_drm_state' = wl_drm_state /\ got' = got /\ proxies' = proxies
      /\ events' = events /\ offers' = offers /\ faults' = faults
      /\ wl_opened' = wl_opened
  BY DEF wl_vars
<1>5. TypeOK'
  <2>1. WlType'
    BY <1>1, <1>4 DEF WlType
  <2> QED
    BY <1>2, <1>3, <2>1 DEF TypeOK, DrmGood
<1>6. \A e \in WlDisplay : WlInv(e)'
  <2> TAKE e \in WlDisplay
  <2>1. WlInv(e)
    BY DEF IInv, WlInv
  <2>2. Same(e) /\ faults'[e] = faults[e] /\ Queue(e)' = Queue(e)
    BY <1>4 DEF Same, Queue
  <2> QED
    BY <2>1, <2>2, Unaffected
<1>7. ASSUME ~ ClosedTwice
      PROVE  /\ \A e \in Display : X11Owns(e)'
             /\ \A e \in WlDisplay : WlOwns(e)'
             /\ \A b \in DrmApp : DrmOwns(b)'
  <2>1. /\ \A e \in Display : X11Owns(e)
        /\ \A e \in WlDisplay : WlOwns(e)
        /\ \A b \in DrmApp : DrmOwns(b)
    BY <1>7 DEF IInv
  <2>2. Touches(a) /\ DrmOwns(a)' /\ a \in Owner
    BY <1>2, <2>1 DEF DrmGood, Owner
  <2>3. \A e \in Display : X11Owns(e)'
    <3> TAKE e \in Display
    <3>1. e # a /\ drm_state'[e] = drm_state[e] /\ pc'[e] = pc[e] /\ inits'[e] = inits[e]
      BY <1>3, Owners
    <3> QED
      BY <1>1, <2>1, <2>2, <3>1, X11Frame
  <2>4. \A e \in WlDisplay : WlOwns(e)'
    <3> TAKE e \in WlDisplay
    <3>1. e # a /\ wl_drm_state'[e] = wl_drm_state[e]
      BY <1>4, Owners
    <3> QED
      BY <1>1, <2>1, <2>2, <3>1, WlFrame
  <2>5. \A b \in DrmApp : DrmOwns(b)'
    <3> TAKE b \in DrmApp
    <3>1. CASE b # a
      <4>1. /\ drm_pc'[b] = drm_pc[b] /\ drm_fd'[b] = drm_fd[b]
            /\ display_type'[b] = display_type[b] /\ drm_auth'[b] = drm_auth[b]
        BY <1>2, <3>1 DEF DrmGood
      <4> QED
        BY <1>1, <2>1, <2>2, <3>1, <4>1, DrmFrame
    <3> QED
      BY <2>2, <3>1
  <2> QED
    BY <2>3, <2>4, <2>5
<1> QED
  BY <1>3, <1>5, <1>6, <1>7 DEF IInv, WlInv

(* And a step of nobody.                                                   *)
LEMMA NothingKeeps ==
  ASSUME IInv, UNCHANGED <<vars, wl_vars, drm_vars>>
  PROVE  IInv'
<1>1. /\ file' = file
      /\ drm_state' = drm_state /\ source' = source /\ opened' = opened /\ pc' = pc
      /\ inits' = inits /\ chain' = chain /\ allocated' = allocated
      /\ wl_pc' = wl_pc /\ backend' = backend /\ stage' = stage /\ opaque' = opaque
      /\ wl_drm_state' = wl_drm_state /\ got' = got /\ proxies' = proxies
      /\ events' = events /\ offers' = offers /\ faults' = faults
      /\ wl_opened' = wl_opened
      /\ drm_pc' = drm_pc /\ drm_fd' = drm_fd /\ display_type' = display_type
      /\ drm_auth' = drm_auth
  BY DEF vars, x11_vars, connection_vars, drawable_vars, wl_vars, drm_vars
<1>2. TypeOK'
  BY <1>1 DEF IInv, TypeOK, FileType, X11Type, WlType, DrmType
<1>3. \A d \in Display : X11Local(d)'
  BY <1>1 DEF IInv, X11Local
<1>4. \A e \in WlDisplay : WlInv(e)'
  <2> TAKE e \in WlDisplay
  <2>1. WlInv(e)
    BY DEF IInv, WlInv
  <2>2. Same(e) /\ faults'[e] = faults[e] /\ Queue(e)' = Queue(e)
    BY <1>1 DEF Same, Queue
  <2> QED
    BY <2>1, <2>2, Unaffected
<1>5. ASSUME ~ ClosedTwice'
      PROVE  /\ \A e \in Display : X11Owns(e)'
             /\ \A e \in WlDisplay : WlOwns(e)'
             /\ \A a \in DrmApp : DrmOwns(a)'
  <2>1. ~ ClosedTwice
    BY <1>1, <1>5 DEF ClosedTwice
  <2>2. /\ \A e \in Display : X11Owns(e)
        /\ \A e \in WlDisplay : WlOwns(e)
        /\ \A a \in DrmApp : DrmOwns(a)
    BY <2>1 DEF IInv
  <2> QED
    BY <1>1, <2>2 DEF X11Owns, Over, WlOwns, WlFd, DrmOwns, Usable
<1> QED
  BY <1>2, <1>3, <1>4, <1>5 DEF IInv, WlInv

(* Whatever the displays of a process do, and in whatever order, every     *)
(* descriptor has the one owner that opened it, until a number is closed   *)
(* twice; and what a Wayland back end waits for is on its queue, in front  *)
(* of the answer that ends the wait, until something fails.                *)
THEOREM Inductive == Spec => []IInv
<1>1. IInv /\ [Next]_<<vars, wl_vars, drm_vars>> => IInv'
  BY X11StepKeeps, WlStepKeeps, DrmStepKeeps, NothingKeeps DEF Next
<1> QED
  BY <1>1, InitGood, PTL DEF Spec

(* The driver's device is the one that its display opened, on a node that  *)
(* it may use, with any number of displays of the three window systems.    *)
THEOREM HasDevice == Spec => []DriverHasDevice
<1>1. ASSUME IInv, ~ ClosedTwice
      PROVE  X11HasDevice /\ WlHasDevice /\ DrmHasDevice
  <2>1. X11HasDevice
    <3> SUFFICES ASSUME NEW d \in Display, pc[d] = "open" \/ opened[d],
                        source[d] \in {"DRI3", "DRI2"}
                 PROVE  Usable(drm_state[d].fd, d)
      BY DEF X11HasDevice
    <3>1. X11Local(d) /\ X11Owns(d)
      BY <1>1 DEF IInv
    <3>2. drm_state[d].fd # -1 /\ ~ Over(d)
      BY <3>1 DEF X11Local, Over
    <3> QED
      BY <3>1, <3>2 DEF X11Owns
  <2>2. WlHasDevice
    BY <1>1 DEF WlHasDevice, IInv, WlLocal, WlOwns, WlFd
  <2>3. DrmHasDevice
    BY <1>1 DEF DrmHasDevice, IInv, DrmOwns
  <2> QED
    BY <2>1, <2>2, <2>3
<1>2. IInv => DriverHasDevice
  BY <1>1 DEF DriverHasDevice
<1> QED
  BY <1>2, Inductive, PTL

(* A display that is gone has nothing open, wherever its life ended; the   *)
(* application's own descriptor is open until the application closes it.   *)
THEOREM Returned == Spec => []DescriptorsReturned
<1>1. ASSUME IInv, ~ ClosedTwice
      PROVE  X11Returned /\ WlReturned /\ DrmReturned
  <2>1. X11Returned
    BY <1>1 DEF X11Returned, IInv, X11Owns, Over
  <2>2. WlReturned
    <3> SUFFICES ASSUME NEW d \in WlDisplay
                 PROVE  /\ WlOver(d) => \A n \in FD : file[n].by # d
                        /\ WlOver(d) \/ wl_pc[d] = "display" =>
                             proxies[d] \subseteq (IF faults[d] THEN {"feedback"} ELSE {})
      BY DEF WlReturned
    <3>1. WlLocal(d) /\ FeedbackInv(d) /\ WlOwns(d)
      BY <1>1 DEF IInv
    <3>2. WlOver(d) => WlFd(d) = -2
      BY <3>1, Numbers DEF WlLocal, WlFd
    <3>3. WlOver(d) => \A n \in FD : file[n].by # d
      BY <3>1, <3>2, Numbers DEF WlOwns
    <3>4. WlOver(d) \/ wl_pc[d] = "display" => wl_pc[d] # "dispatch"
      BY DEF WlOver
    <3>5. WlOver(d) \/ wl_pc[d] = "display" =>
            proxies[d] \subseteq (IF faults[d] THEN {"feedback"} ELSE {})
      BY <3>1, <3>4 DEF FeedbackInv
    <3> QED
      BY <3>3, <3>5
  <2>3. DrmReturned
    BY <1>1 DEF DrmReturned, IInv, DrmOwns
  <2> QED
    BY <2>1, <2>2, <2>3
<1>2. IInv => DescriptorsReturned
  BY <1>1 DEF DescriptorsReturned
<1> QED
  BY <1>2, Inductive, PTL

(* A Wayland display is given whenever the compositor has what a back end  *)
(* needs: the events that it waits for are never lost and never come too   *)
(* late, whatever else is on the connection.                               *)
THEOREM DisplayIsGiven == Spec => []DisplayGiven
<1>1. IInv => DisplayGiven
  BY DEF DisplayGiven, IInv, ProgressInv, WlDrmProgress
<1> QED
  BY <1>1, Inductive, PTL

(* A drawable is put before the ones of its bucket.                        *)
LEMMA Prepending ==
  ASSUME NEW s \in Seq(Drawable), NEW x \in Drawable
  PROVE  ToSet(<<x>> \o s) \subseteq ToSet(s) \cup {x}
<1> DEFINE r == <<x>> \o s
<1>1. /\ DOMAIN r = 1 .. Len(r) /\ DOMAIN s = 1 .. Len(s) /\ Len(s) \in Nat
      /\ Len(r) = Len(s) + 1 /\ r[1] = x
      /\ \A i \in 1 .. Len(r) : i # 1 => r[i] = s[i - 1]
  OBVIOUS
<1> HIDE DEF r
<1>2. \A i \in 1 .. Len(r) : i # 1 => i - 1 \in 1 .. Len(s)
  BY <1>1
<1>3. ToSet(r) \subseteq ToSet(s) \cup {x}
  BY <1>1, <1>2 DEF ToSet
<1> QED
  BY <1>3 DEF r

(* No drawable of the table has been freed, whatever the driver gets and   *)
(* frees between vaInitialize and vaTerminate.                             *)
THEOREM DrawablesAreOwned == Spec => []DrawablesOwned
<1>1. Init => DrawablesOwned
  BY DEF Init, X11Init, DrawablesOwned, ToSet
<1>2. IInv /\ DrawablesOwned /\ [Next]_<<vars, wl_vars, drm_vars>> => DrawablesOwned'
  <2> SUFFICES ASSUME IInv, DrawablesOwned, [Next]_<<vars, wl_vars, drm_vars>>
               PROVE  DrawablesOwned'
    OBVIOUS
  <2>1. /\ chain \in [Display -> Seq(Drawable)]
        /\ allocated \in [Display -> SUBSET Drawable]
    BY DEF IInv, TypeOK, X11Type
  <2>2. CASE UNCHANGED <<chain, allocated>>
    BY <2>2 DEF DrawablesOwned
  <2>3. ToSet(<< >>) = {}
    BY DEF ToSet
  <2>4. ASSUME NEW d \in Display, NEW x \in Drawable, va_dri_get_drawable(d, x)
        PROVE  DrawablesOwned'
    <3> DEFINE longer == <<x>> \o chain[d]
               more == allocated[d] \cup {x}
    <3>1. chain' = [chain EXCEPT ![d] = longer] /\ allocated' = [allocated EXCEPT ![d] = more]
      BY <2>4 DEF va_dri_get_drawable
    <3>2. ToSet(longer) \subseteq more
      BY <2>1, Prepending DEF DrawablesOwned
    <3> HIDE DEF longer, more
    <3> QED
      BY <2>1, <3>1, <3>2 DEF DrawablesOwned
  <2>5. ASSUME NEW d \in Display, NEW x \in Drawable, va_dri_free_drawable(d, x)
        PROVE  DrawablesOwned'
    BY <2>1, <2>3, <2>5 DEF va_dri_free_drawable, BucketLeft, DrawablesOwned
  <2>6. ASSUME NEW d \in Display, dri2Close(d)
        PROVE  DrawablesOwned'
    BY <2>1, <2>3, <2>6 DEF dri2Close, DrawablesOwned
  <2>7. CASE X11Next
    <3>1. PICK d \in Display :
            \/ vaInitialize(d) \/ va_DRI3_GetDriverNames(d) \/ va_DRI2_GetDriverNames(d)
            \/ va_DisplayContextGetDriverNames(d) \/ va_openDriver(d) \/ vaTerminate(d)
            \/ dri2Close(d) \/ va_DisplayContextDestroy(d)
            \/ \E x \in Drawable : va_dri_get_drawable(d, x) \/ va_dri_free_drawable(d, x)
      BY <2>7 DEF X11Next
    <3>2. \/ UNCHANGED drawable_vars \/ dri2Close(d)
          \/ \E x \in Drawable : va_dri_get_drawable(d, x) \/ va_dri_free_drawable(d, x)
      BY <3>1 DEF vaInitialize, va_DRI3_GetDriverNames, va_DRI2_GetDriverNames,
                  va_DisplayContextGetDriverNames, va_openDriver, vaTerminate,
                  va_DisplayContextDestroy
    <3> QED
      BY <2>2, <2>4, <2>5, <2>6, <3>2 DEF drawable_vars
  <2>8. CASE ~ X11Next
    BY <2>2, <2>8 DEF Next, vars, x11_vars, drawable_vars
  <2> QED
    BY <2>7, <2>8
<1> QED
  BY <1>1, <1>2, Inductive, PTL DEF Spec
=============================================================================
