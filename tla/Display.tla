------------------------------ MODULE Display ------------------------------
(***************************************************************************)
(* The life of one VADisplay in va/va.c: how vaInitialize finds, opens and *)
(* checks a driver among several candidates, what each failure leaves      *)
(* behind for the next candidate or the next attempt, and what vaTerminate *)
(* gives back.  One thread initialises a display; drivers, files and       *)
(* allocations answer as they like.                                        *)
(***************************************************************************)
EXTENDS Integers, Sequences

CONSTANTS
  DriverName,
  NumDirs,       \* directories in the driver search path
  Hook,          \* entries of the vtables a driver fills
  Required,      \* those CHECK_VTABLE looks at
  Callback,      \* functions error messages can go to
  Default,       \* the one of va_newDisplayContext
  Environment,   \* what LIBVA_DRIVER_NAME may be, NULL when not set
  TraceOn,       \* va_TraceInit finds a variable that turns tracing on
  NULL,
  MaxInit, MaxNames  \* bounds on the calls of vaInitialize, vaSetDriverName

Driver == DriverName \X (1 .. NumDirs)  \* a library in a directory

ASSUME DisplayAssumption ==
  /\ NumDirs \in Nat \ {0} /\ MaxInit \in Nat /\ MaxNames \in Nat
  /\ Required \subseteq Hook
  /\ Default \in Callback
  /\ Environment \subseteq DriverName \cup {NULL}
  /\ NULL \notin DriverName \cup Callback \cup Driver
  /\ NULL \notin [Hook -> Driver \cup {NULL}]
  /\ TraceOn \in BOOLEAN

VARIABLES
  display,               \* the VADisplay: "none", "valid" or "destroyed"
  error_callback,
  override_driver_name,
  vatrace,               \* whether the display has a struct va_trace
  vtable,                \* which driver set each hook
  handle,                \* the library of the open driver
  opened,                \* references that dlopen holds on each library
  allocated,             \* blocks not freed: trace states, name copies
  vaStatus,              \* of vaInitialize or of the driver just tried
  drivers, dir, lib,     \* va_new_opendriver and va_openDriver: candidates
                         \* left, directory to try, library being tried
  pc,
  called,                \* history: where the driver's last message went
  inits, names           \* calls so far, for the bounds

app   == <<error_callback, override_driver_name, called, names>>
open  == <<drivers, dir, lib>>
vars  == <<display, app, vatrace, vtable, handle, opened, allocated,
           vaStatus, open, pc, inits>>

NoHooks == [h \in Hook |-> NULL]

-----------------------------------------------------------------------------
Init ==
  /\ display = "none"
  /\ error_callback = NULL /\ override_driver_name = NULL
  /\ vatrace = FALSE
  /\ vtable = NULL /\ handle = NULL
  /\ opened = [d \in Driver |-> 0]
  /\ allocated = [va_trace |-> 0, name |-> 0]
  /\ vaStatus = "UNKNOWN"
  /\ drivers = <<>> /\ dir = 1 /\ lib = NULL
  /\ pc = "app"
  /\ called = Default
  /\ inits = 0 /\ names = 0

vaGetDisplay ==
  /\ display = "none"
  /\ display' = "valid"
  /\ error_callback' = Default
  /\ UNCHANGED <<override_driver_name, called, names, vatrace, vtable, handle,
                 opened, allocated, vaStatus, open, pc, inits>>

IdleUnchecked == pc = "app"   \* mutant: CHECK_DISPLAY dropped

(* The application may call a function of the display.                     *)
Idle == display = "valid" /\ pc = "app"

vaSetErrorCallback ==
  /\ Idle
  /\ \E callback \in Callback \cup {NULL} : error_callback' = callback
  /\ UNCHANGED <<display, override_driver_name, called, names, vatrace, vtable,
                 handle, opened, allocated, vaStatus, open, pc, inits>>

(* A name that cannot be copied changes nothing; the copy before this one  *)
(* is not freed.                                                           *)
vaSetDriverName ==
  /\ Idle /\ names < MaxNames
  /\ names' = names + 1
  /\ override_driver_name' \in DriverName
  /\ allocated' = [allocated EXCEPT !.name = @ + 1]
  /\ UNCHANGED <<display, error_callback, called, vatrace, vtable, handle,
                 opened, vaStatus, open, pc, inits>>

-----------------------------------------------------------------------------
(* vaInitialize, which the application calls while no driver is open: for  *)
(* the first time, or again after a failure.                               *)

(* va_TraceInit: when no variable turns tracing on, or calloc fails, the   *)
(* new state is freed at once.                                             *)
va_TraceInit ==
  /\ Idle /\ handle = NULL /\ inits < MaxInit
  /\ inits' = inits + 1
  /\ \/ /\ TraceOn
        /\ vatrace' = TRUE
        /\ allocated' = [allocated EXCEPT !.va_trace = @ + 1]
     \/ UNCHANGED <<vatrace, allocated>>
  /\ pc' = "names"
  /\ UNCHANGED <<display, app, vtable, handle, opened, vaStatus, open>>

(* The names a backend reports: at most two, a failed strdup among them.   *)
Reported == {<<n>> : n \in DriverName \cup {NULL}}
              \cup {<<n, m>> : n, m \in DriverName \cup {NULL}}

\* Mutant: the environment takes the highest priority.
EnvironmentFirst(env) == IF env # NULL THEN env ELSE override_driver_name

(* The name the user asked for, if any.                                    *)
Requested(env) == IF override_driver_name # NULL THEN override_driver_name ELSE env

(* va_new_opendriver asks the backend, then lets a requested name replace  *)
(* whatever it reported.  The environment is read at every call.           *)
vaGetDriverNames ==
  /\ pc = "names"
  /\ \E env \in Environment :
       LET name == Requested(env)
       IN  IF name = NULL
           THEN \/ drivers' \in Reported /\ vaStatus' = "SUCCESS"
                \/ drivers' = <<>> /\ vaStatus' = "FAILED"
           ELSE /\ drivers' \in {<<name>>, <<NULL>>}
                /\ vaStatus' \in {"SUCCESS", "FAILED"}
  /\ pc' = "next"
  /\ UNCHANGED <<display, app, vatrace, vtable, handle, opened, allocated,
                 dir, lib, inits>>

(* The loop over the names: va_openDriver for the next one, unless its     *)
(* strdup failed or there is none left.                                    *)
NextDriver ==
  /\ pc = "next"
  /\ IF drivers # <<>> /\ Head(drivers) # NULL
     THEN pc' = "dir" /\ dir' = 1 /\ vaStatus' = "UNKNOWN" /\ UNCHANGED drivers
     ELSE /\ pc' = "app" /\ drivers' = <<>>
          /\ vaStatus' = IF drivers = <<>> THEN vaStatus ELSE "FAILED"
          /\ UNCHANGED dir
  /\ UNCHANGED <<display, app, vatrace, vtable, handle, opened, allocated, lib, inits>>

\* Mutant: the status of a driver that failed is not kept.
ReturnUnrecorded(status) ==
  /\ vaStatus' = vaStatus
  /\ lib' = NULL
  /\ drivers' = IF status = "SUCCESS" THEN <<>> ELSE Tail(drivers)
  /\ pc' = IF status = "SUCCESS" THEN "app" ELSE "next"

(* va_openDriver returns `status' and the loop goes on after a failure.    *)
Return(status) ==
  /\ vaStatus' = status
  /\ lib' = NULL
  /\ drivers' = IF status = "SUCCESS" THEN <<>> ELSE Tail(drivers)
  /\ pc' = IF status = "SUCCESS" THEN "app" ELSE "next"

(* One round of the loop over the directories: out of memory for the path, *)
(* no library or none with an init function of this version (dlopen and    *)
(* dlclose), or one that has it, for which the vtables are allocated.      *)
NextDir ==
  /\ pc = "dir"
  /\ \/ Return(IF dir > NumDirs THEN vaStatus ELSE "FAILED")
        /\ UNCHANGED <<dir, opened, vtable>>
     \/ /\ dir <= NumDirs
        /\ dir' = dir + 1
        /\ UNCHANGED <<drivers, lib, opened, vtable, vaStatus, pc>>
     \/ /\ dir <= NumDirs
        /\ LET found == <<Head(drivers), dir>>
           IN  lib' = found /\ opened' = [opened EXCEPT ![found] = @ + 1]
        /\ vtable' \in {vtable, IF vtable = NULL THEN NoHooks ELSE vtable}
        /\ vaStatus' \in IF vtable' = NULL THEN {"FAILED"} ELSE {"SUCCESS", "FAILED"}
        /\ pc' = "init"
        /\ UNCHANGED <<drivers, dir>>
  /\ UNCHANGED <<display, app, vatrace, handle, allocated, inits>>

\* Mutants: no check; dlclose forgotten, or called on two error paths.
AcceptAny(hooks)     == TRUE
StaysLoaded(count)   == count
UnloadedTwice(count) == [count EXCEPT ![lib] = @ - 2]

Accepted(hooks) == \A h \in Required : hooks[h] # NULL
Unloaded(count) == [count EXCEPT ![lib] = @ - 1]

(* The driver's init function, which sets some hooks and succeeds or not,  *)
(* then the checks, and dlclose unless all went well.  It is not called    *)
(* when a vtable could not be allocated.                                   *)
DriverInit ==
  /\ pc = "init"
  /\ \E provided \in SUBSET Hook, ok \in BOOLEAN :
       LET hooks == [h \in Hook |-> IF h \in provided THEN lib ELSE vtable[h]]
       IN  IF vaStatus # "SUCCESS"
           THEN /\ Return("FAILED")
                /\ opened' = Unloaded(opened)
                /\ UNCHANGED <<vtable, handle>>
           ELSE /\ vtable' = hooks
                /\ IF ok /\ Accepted(hooks)
                   THEN handle' = lib /\ Return("SUCCESS") /\ UNCHANGED opened
                   ELSE /\ Return("FAILED")
                        /\ opened' = Unloaded(opened)
                        /\ UNCHANGED handle
  /\ UNCHANGED <<display, app, vatrace, allocated, dir, inits>>

-----------------------------------------------------------------------------
(* The driver reports an error through va_driverErrorCallback, from its    *)
(* init function or from any call on the open display.                     *)
DriverMessage ==
  /\ \/ pc = "init" /\ vaStatus = "SUCCESS"
     \/ Idle /\ handle # NULL
  /\ called' = error_callback
  /\ UNCHANGED <<display, error_callback, override_driver_name, names, vatrace,
                 vtable, handle, opened, allocated, vaStatus, open, pc, inits>>

\* Mutant: the copy of the name is forgotten.
NameForgotten ==
  [allocated EXCEPT !.va_trace = @ - (IF vatrace THEN 1 ELSE 0)]

(* va_TraceEnd frees the trace state, vaTerminate the name.                *)
Freed ==
  [va_trace |-> allocated.va_trace - (IF vatrace THEN 1 ELSE 0),
   name |-> allocated.name - (IF override_driver_name # NULL THEN 1 ELSE 0)]

(* The display is destroyed only when the driver has terminated well; the  *)
(* rest is given back either way.                                          *)
vaTerminate ==
  /\ Idle
  /\ \E ok \in BOOLEAN :
       /\ handle = NULL => ok
       /\ vaStatus' = IF ok THEN "SUCCESS" ELSE "FAILED"
       /\ display' = IF ok THEN "destroyed" ELSE display
  /\ opened' = IF handle = NULL THEN opened
               ELSE [opened EXCEPT ![handle] = @ - 1]
  /\ handle' = NULL
  /\ vtable' = NULL
  /\ allocated' = Freed
  /\ vatrace' = FALSE
  /\ override_driver_name' = NULL
  /\ UNCHANGED <<error_callback, called, names, open, pc, inits>>

Next == \/ vaGetDisplay \/ vaSetErrorCallback \/ vaSetDriverName
        \/ va_TraceInit \/ vaGetDriverNames \/ NextDriver \/ NextDir
        \/ DriverInit \/ DriverMessage \/ vaTerminate

Spec == Init /\ [][Next]_vars

-----------------------------------------------------------------------------
(* Every variable has its type.                                            *)
TypeOK ==
  /\ display \in {"none", "valid", "destroyed"}
  /\ {error_callback, called} \subseteq Callback \cup {NULL}
  /\ override_driver_name \in DriverName \cup {NULL}
  /\ vatrace \in BOOLEAN
  /\ vtable \in {NULL} \cup [Hook -> Driver \cup {NULL}]
  /\ {handle, lib} \subseteq Driver \cup {NULL}
  /\ opened \in [Driver -> Nat]
  /\ allocated \in [va_trace : Nat, name : Nat]
  /\ vaStatus \in {"UNKNOWN", "FAILED", "SUCCESS"}
  /\ drivers \in Seq(DriverName \cup {NULL}) /\ Len(drivers) <= 2
  /\ dir \in 1 .. NumDirs + 1
  /\ pc \in {"app", "names", "next", "dir", "init"}
  /\ inits \in 0 .. MaxInit /\ names \in 0 .. MaxNames

(* On a display with an open driver, every entry point that calls its hook *)
(* unchecked finds one, whichever drivers were tried before.               *)
HooksPresent ==
  handle # NULL => vtable # NULL /\ \A h \in Required : vtable[h] # NULL

(* libva holds one reference to the library of the open driver, one to the *)
(* library it is trying, and none to the drivers that failed.              *)
OneReference ==
  \A d \in Driver : opened[d] = (IF handle = d THEN 1 ELSE 0)
                                   + (IF lib = d THEN 1 ELSE 0)

(* Between calls, the last vaInitialize or vaTerminate succeeded if and    *)
(* only if a driver is open (or the display is gone): neither the status   *)
(* of vaGetDriverNames nor that of an earlier candidate leaks into it.     *)
StatusTellsOpen == Idle => (vaStatus = "SUCCESS" <=> handle # NULL)

(* va.h:472, "After this call, all library internal resources will be      *)
(* cleaned up", holds of a display that is initialised and named once,     *)
(* whatever failed on the way: the drivers tried, or the driver's own      *)
(* termination before the one that destroys the display.                   *)
ResourcesCleaned ==
  display = "destroyed" /\ inits <= 1 /\ names <= 1
    => allocated = [va_trace |-> 0, name |-> 0]

(* The search for a driver implements the one step the application sees.   *)
Slot == INSTANCE DriverSlot WITH driver <- handle
ImplementsSlot == Slot!Spec

(* Why they hold: what vaInitialize may rely on at each place.             *)
IInv ==
  /\ TypeOK /\ HooksPresent /\ OneReference /\ StatusTellsOpen
  /\ lib # NULL <=> pc = "init"
  /\ pc # "app" => display = "valid" /\ handle = NULL
  /\ display = "none" => handle = NULL /\ vaStatus = "UNKNOWN"
  /\ pc = "next" /\ vaStatus = "SUCCESS" => drivers # <<>>
  /\ pc = "dir" => vaStatus = "UNKNOWN"
  /\ pc \in {"dir", "init"} => drivers # <<>> /\ Head(drivers) # NULL
  /\ pc = "init" /\ vaStatus = "SUCCESS" => vtable # NULL
  /\ vatrace => allocated.va_trace > 0
  /\ override_driver_name # NULL => allocated.name > 0

(* va.h:456: a name set by vaSetDriverName is tried instead of the names   *)
(* the backend reports, and goes before LIBVA_DRIVER_NAME.                 *)
OverrideWins ==
  [][handle = NULL /\ handle' # NULL /\ override_driver_name # NULL
       => handle'[1] = override_driver_name]_vars

(* va_backend.h:525: "This structure is allocated from libva with      *)
(* calloc()".  So the hooks of an open driver are its own or NULL.         *)
HooksOfOpenDriver ==
  handle # NULL => \A h \in Hook : vtable[h] \in {NULL, handle}
=============================================================================
