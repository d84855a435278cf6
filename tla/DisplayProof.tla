---------------------------- MODULE DisplayProof ----------------------------
(***************************************************************************)
(* Proofs about Display: however many candidates fail, and wherever, an    *)
(* open driver has every checked hook, libva holds one reference to its    *)
(* library and none to the others, and the status tells if one is open.    *)
(***************************************************************************)
EXTENDS Display, TLAPS

(* The lists of candidates vaGetDriverNames leaves.                        *)
LEMMA NoCandidates == ASSUME NEW S PROVE <<>> \in Seq(S) /\ Len(<<>>) = 0
  OBVIOUS

(* What the list of candidates is.                                         *)
LEMMA Candidates ==
  ASSUME NEW S, NEW n \in S, NEW m \in S
  PROVE  /\ <<n>> \in Seq(S) /\ Len(<<n>>) = 1 /\ <<n>> # <<>>
         /\ <<n, m>> \in Seq(S) /\ Len(<<n, m>>) = 2 /\ <<n, m>> # <<>>
  OBVIOUS

(* A display that does not exist yet has no driver.                        *)
LEMMA InitIInv == Init => IInv
<1> SUFFICES ASSUME Init PROVE IInv
  OBVIOUS
<1>1. drivers \in Seq(DriverName \cup {NULL}) /\ Len(drivers) <= 2
  BY NoCandidates DEF Init
<1>2. /\ opened \in [Driver -> Nat] /\ allocated \in [va_trace : Nat, name : Nat]
      /\ dir \in 1 .. NumDirs + 1 /\ inits \in 0 .. MaxInit
      /\ names \in 0 .. MaxNames
  BY DisplayAssumption DEF Init
<1>3. TypeOK
  BY <1>1, <1>2, DisplayAssumption DEF Init, TypeOK
<1>4. QED
  BY <1>3, DisplayAssumption
     DEF Init, IInv, HooksPresent, OneReference, StatusTellsOpen, Idle

(* vaGetDisplay, vaSetErrorCallback and vaSetDriverName leave the driver   *)
(* alone.                                                                  *)
LEMMA SettersIInv ==
  IInv /\ (vaGetDisplay \/ vaSetErrorCallback \/ vaSetDriverName) => IInv'
<1> SUFFICES ASSUME IInv, vaGetDisplay \/ vaSetErrorCallback \/ vaSetDriverName
             PROVE  IInv'
  OBVIOUS
<1> USE DisplayAssumption
<1>1. CASE vaGetDisplay
  BY <1>1 DEF vaGetDisplay, open, IInv, TypeOK, HooksPresent, OneReference,
              StatusTellsOpen, Idle
<1>2. CASE vaSetErrorCallback
  BY <1>2 DEF vaSetErrorCallback, open, IInv, TypeOK, HooksPresent,
              OneReference, StatusTellsOpen, Idle
<1>3. CASE vaSetDriverName
  <2>1. /\ allocated' \in [va_trace : Nat, name : Nat]
        /\ allocated'.va_trace = allocated.va_trace
        /\ allocated'.name > 0
    <3>1. allocated \in [va_trace : Nat, name : Nat]
      BY DEF IInv, TypeOK
    <3>2. allocated' = [allocated EXCEPT !.name = @ + 1]
      BY <1>3 DEF vaSetDriverName
    <3> QED
      BY <3>1, <3>2
  <2>2. names' \in 0 .. MaxNames /\ override_driver_name' \in DriverName
    BY <1>3 DEF vaSetDriverName, IInv, TypeOK
  <2>3. TypeOK'
    <3>1. /\ display' = display /\ error_callback' = error_callback
          /\ called' = called /\ vatrace' = vatrace /\ vtable' = vtable
          /\ handle' = handle /\ lib' = lib /\ opened' = opened
          /\ vaStatus' = vaStatus /\ drivers' = drivers /\ dir' = dir
          /\ pc' = pc /\ inits' = inits
      BY <1>3 DEF vaSetDriverName, open
    <3>2. override_driver_name' \in DriverName \cup {NULL}
      BY <2>2
    <3>3. TypeOK
      BY DEF IInv
    <3> QED
      BY <2>1, <2>2, <3>1, <3>2, <3>3, Zenon DEF TypeOK
  <2>4. QED
    BY <1>3, <2>1, <2>3 DEF vaSetDriverName, open, IInv, HooksPresent,
                            OneReference, StatusTellsOpen, Idle
<1>4. QED
  BY <1>1, <1>2, <1>3

(* va_TraceInit allocates before it sets vatrace.                          *)
LEMMA TraceInitIInv == IInv /\ va_TraceInit => IInv'
<1> SUFFICES ASSUME IInv, va_TraceInit PROVE IInv'
  OBVIOUS
<1>1. /\ allocated' \in [va_trace : Nat, name : Nat]
      /\ vatrace' \in BOOLEAN /\ (vatrace' => allocated'.va_trace > 0)
      /\ allocated'.name = allocated.name
  <2>0. allocated \in [va_trace : Nat, name : Nat] /\ vatrace \in BOOLEAN
        /\ (vatrace => allocated.va_trace > 0)
    BY DEF IInv, TypeOK
  <2>1. CASE vatrace' = TRUE
             /\ allocated' = [allocated EXCEPT !.va_trace = @ + 1]
    <3>1. /\ allocated' \in [va_trace : Nat, name : Nat]
          /\ allocated'.va_trace > 0 /\ allocated'.name = allocated.name
      BY <2>0, <2>1
    <3>2. QED
      BY <2>1, <3>1, Zenon
  <2>2. CASE UNCHANGED <<vatrace, allocated>>
    BY <2>0, <2>2, Zenon
  <2>3. QED
    BY <2>1, <2>2, Zenon DEF va_TraceInit
<1>2. inits' \in 0 .. MaxInit
  BY DisplayAssumption DEF va_TraceInit, IInv, TypeOK
<1>3. TypeOK'
  BY <1>1, <1>2 DEF va_TraceInit, app, open, IInv, TypeOK
<1>4. QED
  BY <1>1, <1>3
     DEF va_TraceInit, app, open, IInv, HooksPresent, OneReference,
         StatusTellsOpen, Idle

(* The candidates are names; a successful answer has at least one.         *)
LEMMA NamesIInv == IInv /\ vaGetDriverNames => IInv'
<1> SUFFICES ASSUME IInv, vaGetDriverNames PROVE IInv'
  OBVIOUS
<1>1. /\ drivers' \in Seq(DriverName \cup {NULL}) /\ Len(drivers') <= 2
      /\ vaStatus' = "SUCCESS" => drivers' # <<>>
      /\ vaStatus' \in {"SUCCESS", "FAILED"}
  <2>0. PICK env \in Environment :
          IF Requested(env) = NULL
          THEN \/ drivers' \in Reported /\ vaStatus' = "SUCCESS"
               \/ drivers' = <<>> /\ vaStatus' = "FAILED"
          ELSE /\ drivers' \in {<<Requested(env)>>, <<NULL>>}
               /\ vaStatus' \in {"SUCCESS", "FAILED"}
    BY DEF vaGetDriverNames
  <2>1. CASE Requested(env) = NULL
    <3>1. ASSUME NEW list \in Reported
          PROVE  list \in Seq(DriverName \cup {NULL}) /\ Len(list) <= 2 /\ list # <<>>
      <4>1. PICK n \in DriverName \cup {NULL}, m \in DriverName \cup {NULL} :
              list = <<n>> \/ list = <<n, m>>
        <5>1. \/ \E n \in DriverName \cup {NULL} : list = <<n>>
              \/ \E n, m \in DriverName \cup {NULL} : list = <<n, m>>
          BY <3>1 DEF Reported
        <5>2. NULL \in DriverName \cup {NULL}
          OBVIOUS
        <5>3. QED
          BY <5>1, <5>2, Zenon
      <4>2. CASE list = <<n>>
        BY <4>2, Candidates
      <4>3. CASE list = <<n, m>>
        BY <4>3, Candidates
      <4>4. QED
        BY <4>1, <4>2, <4>3
    <3>2. CASE drivers' \in Reported /\ vaStatus' = "SUCCESS"
      BY <3>1, <3>2
    <3>3. CASE drivers' = <<>> /\ vaStatus' = "FAILED"
      BY <3>3, NoCandidates
    <3>4. QED
      BY <2>0, <2>1, <3>2, <3>3
  <2>2. CASE Requested(env) # NULL
    <3>1. Requested(env) \in DriverName
      BY <2>2, DisplayAssumption DEF Requested, IInv, TypeOK
    <3>2. QED
      <4>1. drivers' = <<Requested(env)>> \/ drivers' = <<NULL>>
        BY <2>0, <2>2
      <4>2. vaStatus' \in {"SUCCESS", "FAILED"}
        BY <2>0, <2>2
      <4>3. QED
        <5>1. PICK n \in DriverName \cup {NULL} : drivers' = <<n>>
          BY <3>1, <4>1
        <5>2. <<n>> \in Seq(DriverName \cup {NULL}) /\ Len(<<n>>) = 1 /\ <<n>> # <<>>
          BY Candidates
        <5>3. QED
          BY <4>2, <5>1, <5>2
  <2>3. QED
    BY <2>1, <2>2
<1>2. QED
  BY <1>1, DisplayAssumption
     DEF vaGetDriverNames, app, IInv, TypeOK, HooksPresent, OneReference,
         StatusTellsOpen, Idle

(* The loop over the names ends without success or tries the next name.    *)
LEMMA NextDriverIInv == IInv /\ NextDriver => IInv'
<1> SUFFICES ASSUME IInv, NextDriver PROVE IInv'
  OBVIOUS
<1>1. CASE drivers # <<>> /\ Head(drivers) # NULL
  BY <1>1, DisplayAssumption
     DEF NextDriver, app, IInv, TypeOK, HooksPresent, OneReference,
         StatusTellsOpen, Idle
<1>2. CASE ~(drivers # <<>> /\ Head(drivers) # NULL)
  <2>1. drivers' \in Seq(DriverName \cup {NULL}) /\ Len(drivers') <= 2
    <3>1. drivers' = <<>>
      BY <1>2 DEF NextDriver
    <3>2. QED
      BY <3>1, NoCandidates
  <2>2. TypeOK'
    BY <1>2, <2>1 DEF NextDriver, app, IInv, TypeOK
  <2>3. QED
    BY <1>2, <2>2
       DEF NextDriver, app, IInv, TypeOK, HooksPresent, OneReference,
           StatusTellsOpen, Idle
<1>3. QED
  BY <1>1, <1>2

(* The tail of a non-empty list of candidates is a list of candidates.     *)
LEMMA TailTyped ==
  ASSUME IInv, drivers # <<>>
  PROVE  Tail(drivers) \in Seq(DriverName \cup {NULL}) /\ Len(Tail(drivers)) <= 2
  BY DEF IInv, TypeOK

(* A round of the loop over the directories.                               *)
LEMMA NextDirIInv == IInv /\ NextDir => IInv'
<1> SUFFICES ASSUME IInv, NextDir PROVE IInv'
  OBVIOUS
<1> USE DisplayAssumption
<1>0. drivers # <<>> /\ Head(drivers) # NULL /\ pc = "dir"
  BY DEF NextDir, IInv
<1>1. CASE Return(IF dir > NumDirs THEN vaStatus ELSE "FAILED")
           /\ UNCHANGED <<dir, opened, vtable>>
  BY <1>0, <1>1, TailTyped
     DEF NextDir, Return, app, IInv, TypeOK, HooksPresent, OneReference,
         StatusTellsOpen, Idle
<1>2. CASE dir <= NumDirs /\ dir' = dir + 1
           /\ UNCHANGED <<drivers, lib, opened, vtable, vaStatus, pc>>
  BY <1>0, <1>2
     DEF NextDir, app, IInv, TypeOK, HooksPresent, OneReference,
         StatusTellsOpen, Idle
<1>3. CASE /\ dir <= NumDirs
           /\ lib' = <<Head(drivers), dir>>
           /\ opened' = [opened EXCEPT ![<<Head(drivers), dir>>] = @ + 1]
           /\ vtable' \in {vtable, IF vtable = NULL THEN NoHooks ELSE vtable}
           /\ vaStatus' \in IF vtable' = NULL THEN {"FAILED"}
                            ELSE {"SUCCESS", "FAILED"}
           /\ pc' = "init"
           /\ UNCHANGED <<drivers, dir>>
  <2>1. lib' \in Driver /\ lib' # NULL
    BY <1>0, <1>3 DEF IInv, TypeOK, Driver
  <2>2. vtable' \in {NULL} \cup [Hook -> Driver \cup {NULL}]
    BY <1>3 DEF IInv, TypeOK, NoHooks
  <2>3. TypeOK'
    BY <1>0, <1>3, <2>1, <2>2 DEF NextDir, app, IInv, TypeOK
  <2>4. OneReference'
    BY <1>0, <1>3, <2>1, SMTT(20) DEF NextDir, IInv, TypeOK, OneReference
  <2>5. QED
    BY <1>0, <1>3, <2>1, <2>3, <2>4
       DEF NextDir, app, IInv, HooksPresent, StatusTellsOpen, Idle
<1>4. QED
  BY <1>1, <1>2, <1>3 DEF NextDir

(* The init function and the checks: a driver that is not accepted is      *)
(* unloaded; one that is has every required hook.                          *)
LEMMA DriverInitIInv == IInv /\ DriverInit => IInv'
<1> SUFFICES ASSUME IInv, DriverInit PROVE IInv'
  OBVIOUS
<1> USE DisplayAssumption
<1>0. /\ pc = "init" /\ lib \in Driver /\ lib # NULL /\ handle = NULL
      /\ drivers # <<>> /\ display = "valid"
  BY DEF DriverInit, IInv, TypeOK
<1>1. ASSUME Return("FAILED"), opened' = Unloaded(opened), handle' = handle,
             vtable' \in {NULL} \cup [Hook -> Driver \cup {NULL}]
      PROVE  IInv'
  <2>1. TypeOK'
    BY <1>0, <1>1, TailTyped
       DEF DriverInit, Return, Unloaded, app, IInv, TypeOK, OneReference
  <2>2. OneReference'
    BY <1>0, <1>1 DEF Return, Unloaded, IInv, TypeOK, OneReference
  <2>3. QED
    BY <1>0, <1>1, <2>1, <2>2
       DEF DriverInit, Return, app, IInv, HooksPresent, StatusTellsOpen, Idle
<1>2. PICK provided \in SUBSET Hook, ok \in BOOLEAN :
        LET hooks == [h \in Hook |-> IF h \in provided THEN lib ELSE vtable[h]]
        IN  IF vaStatus # "SUCCESS"
            THEN /\ Return("FAILED")
                 /\ opened' = Unloaded(opened)
                 /\ UNCHANGED <<vtable, handle>>
            ELSE /\ vtable' = hooks
                 /\ IF ok /\ Accepted(hooks)
                    THEN handle' = lib /\ Return("SUCCESS") /\ UNCHANGED opened
                    ELSE /\ Return("FAILED")
                         /\ opened' = Unloaded(opened)
                         /\ UNCHANGED handle
  BY DEF DriverInit
<1> DEFINE hooks == [h \in Hook |-> IF h \in provided THEN lib ELSE vtable[h]]
<1>3. CASE vaStatus # "SUCCESS"
  <2>1. vtable' \in {NULL} \cup [Hook -> Driver \cup {NULL}]
    BY <1>2, <1>3 DEF IInv, TypeOK
  <2>2. QED
    BY <1>1, <1>2, <1>3, <2>1
<1>4. CASE vaStatus = "SUCCESS"
  <2>1. hooks \in [Hook -> Driver \cup {NULL}]
    BY <1>0, <1>4 DEF IInv, TypeOK
  <2>2. CASE ~(ok /\ Accepted(hooks))
    BY <1>1, <1>2, <1>4, <2>1, <2>2
  <2>3. CASE ok /\ Accepted(hooks)
    <3>1. handle' = lib /\ Return("SUCCESS") /\ opened' = opened /\ vtable' = hooks
      BY <1>2, <1>4, <2>3
    <3>2. TypeOK'
      BY <1>0, <2>1, <3>1 DEF DriverInit, Return, app, IInv, TypeOK
    <3>3. HooksPresent'
      <4>1. vtable' # NULL
        BY <2>1, <3>1
      <4>2. QED
        BY <2>3, <3>1, <4>1 DEF HooksPresent, Accepted
    <3>4. QED
      BY <1>0, <3>1, <3>2, <3>3
         DEF DriverInit, Return, app, IInv, OneReference, StatusTellsOpen, Idle
  <2>4. QED
    BY <2>2, <2>3
<1>5. QED
  BY <1>3, <1>4

(* A message of the driver changes only the history of messages.           *)
LEMMA MessageIInv == IInv /\ DriverMessage => IInv'
  BY DEF DriverMessage, open, IInv, TypeOK, HooksPresent, OneReference,
         StatusTellsOpen, Idle

(* vaTerminate gives back the library of the open driver and what the      *)
(* display still points to.                                                *)
LEMMA TerminateIInv == IInv /\ vaTerminate => IInv'
<1> SUFFICES ASSUME IInv, vaTerminate PROVE IInv'
  OBVIOUS
<1> USE DisplayAssumption
<1>1. OneReference' /\ opened' \in [Driver -> Nat]
  BY DEF vaTerminate, open, IInv, TypeOK, OneReference, Idle
<1>2. allocated' \in [va_trace : Nat, name : Nat]
  BY DEF vaTerminate, Freed, IInv, TypeOK
<1>3. TypeOK'
  BY <1>1, <1>2 DEF vaTerminate, open, IInv, TypeOK, Idle
<1>4. QED
  BY <1>1, <1>3 DEF vaTerminate, open, IInv, HooksPresent, StatusTellsOpen, Idle

(* The invariant holds in every reachable state, for all drivers, hooks    *)
(* and directories.                                                        *)
THEOREM Inductive == Spec => []IInv
<1>1. IInv /\ UNCHANGED vars => IInv'
  BY DEF vars, app, open, IInv, TypeOK, HooksPresent, OneReference,
         StatusTellsOpen, Idle
<1>2. IInv /\ [Next]_vars => IInv'
  BY <1>1, SettersIInv, TraceInitIInv, NamesIInv, NextDriverIInv, NextDirIInv,
     DriverInitIInv, MessageIInv, TerminateIInv DEF Next
<1>3. QED
  BY <1>2, InitIInv, PTL DEF Spec

(* vaInitialize never leaves a driver open that lacks a checked hook.      *)
THEOREM HooksCorrect == Spec => []HooksPresent
  BY Inductive, PTL DEF IInv

(* dlopen and dlclose balance along every failure path.                    *)
THEOREM ReferenceCorrect == Spec => []OneReference
  BY Inductive, PTL DEF IInv

(* The status of the last call tells whether a driver is open.             *)
THEOREM StatusCorrect == Spec => []StatusTellsOpen
  BY Inductive, PTL DEF IInv

(* Every variable has its type.                                            *)
THEOREM TypeCorrect == Spec => []TypeOK
  BY Inductive, PTL DEF IInv

-----------------------------------------------------------------------------
(* What is allocated on a display that is initialised and named once: what *)
(* it points to, until vaTerminate has freed that.                         *)
Held ==
  /\ inits = 0 => ~vatrace
  /\ inits <= 1 => allocated.va_trace = IF vatrace THEN 1 ELSE 0
  /\ names = 0 => override_driver_name = NULL
  /\ names <= 1 => allocated.name = IF override_driver_name # NULL THEN 1 ELSE 0
  /\ display = "destroyed" => ~vatrace /\ override_driver_name = NULL

(* A step that allocates and frees nothing.                                *)
LEMMA HeldFrame ==
  ASSUME Held, UNCHANGED <<vatrace, override_driver_name, allocated, inits, names>>,
         display' = "destroyed" => display = "destroyed"
  PROVE  Held'
  BY DEF Held

(* The copy of a name is the one the display points to, if it is the       *)
(* first.                                                                  *)
LEMMA SetDriverNameHeld ==
  ASSUME IInv, Held, vaSetDriverName PROVE Held'
<1>1. /\ display = "valid" /\ names' = names + 1 /\ override_driver_name' \in DriverName
      /\ allocated' = [allocated EXCEPT !.name = @ + 1]
      /\ UNCHANGED <<display, vatrace, inits>>
  BY DEF vaSetDriverName, Idle
<1>2. allocated \in [va_trace : Nat, name : Nat] /\ names \in Nat
  BY DisplayAssumption DEF IInv, TypeOK
<1>3. allocated'.va_trace = allocated.va_trace /\ allocated'.name = allocated.name + 1
  BY <1>1, <1>2
<1>4. override_driver_name' # NULL
  BY <1>1, DisplayAssumption
<1>5. names' <= 1 => names = 0 /\ allocated.name = 0
  BY <1>1, <1>2 DEF Held
<1>6. names' <= 1 => allocated'.name = 1
  BY <1>3, <1>5
<1>7. names' # 0
  BY <1>1, <1>2
<1> QED
  BY <1>1, <1>3, <1>4, <1>6, <1>7 DEF Held

(* So is the trace state of the first vaInitialize.                        *)
LEMMA TraceInitHeld ==
  ASSUME IInv, Held, va_TraceInit PROVE Held'
<1>1. /\ display = "valid" /\ inits' = inits + 1
      /\ \/ vatrace' = TRUE /\ allocated' = [allocated EXCEPT !.va_trace = @ + 1]
         \/ UNCHANGED <<vatrace, allocated>>
      /\ UNCHANGED <<display, override_driver_name, names>>
  BY DEF va_TraceInit, app, Idle
<1>2. allocated \in [va_trace : Nat, name : Nat] /\ inits \in Nat
  BY DisplayAssumption DEF IInv, TypeOK
<1>3. allocated'.name = allocated.name
  BY <1>1, <1>2
<1>4. inits' # 0
  BY <1>1, <1>2
<1>5. ASSUME inits' <= 1 PROVE allocated'.va_trace = IF vatrace' THEN 1 ELSE 0
  <2>1. inits = 0 /\ ~vatrace /\ allocated.va_trace = 0
    BY <1>1, <1>2, <1>5 DEF Held
  <2>2. CASE vatrace' = TRUE /\ allocated' = [allocated EXCEPT !.va_trace = @ + 1]
    <3>1. allocated'.va_trace = 1
      BY <1>2, <2>1, <2>2
    <3> QED
      BY <2>2, <3>1, Zenon
  <2>3. CASE UNCHANGED <<vatrace, allocated>>
    BY <2>1, <2>3
  <2> QED
    BY <1>1, <2>2, <2>3
<1> QED
  BY <1>1, <1>3, <1>4, <1>5 DEF Held

(* vaTerminate frees both.                                                 *)
LEMMA TerminateHeld ==
  ASSUME IInv, Held, vaTerminate PROVE Held'
<1>1. /\ allocated' = Freed /\ ~vatrace' /\ override_driver_name' = NULL
      /\ UNCHANGED <<inits, names>>
  BY DEF vaTerminate
<1>2. allocated \in [va_trace : Nat, name : Nat]
  BY DEF IInv, TypeOK
<1>3. inits <= 1 => allocated'.va_trace = 0
  BY <1>1, <1>2 DEF Freed, Held
<1>4. names <= 1 => allocated'.name = 0
  BY <1>1, <1>2 DEF Freed, Held
<1> QED
  BY <1>1, <1>3, <1>4 DEF Held

(* The other steps leave the allocations alone.                            *)
LEMMA NextHeld == IInv /\ Held /\ [Next]_vars => Held'
<1> SUFFICES ASSUME IInv, Held, [Next]_vars PROVE Held'
  OBVIOUS
<1>1. CASE vaSetDriverName
  BY <1>1, SetDriverNameHeld
<1>2. CASE va_TraceInit
  BY <1>2, TraceInitHeld
<1>3. CASE vaTerminate
  BY <1>3, TerminateHeld
<1>4. CASE UNCHANGED vars
  BY <1>4, HeldFrame DEF vars, app
<1>5. CASE vaGetDisplay \/ vaSetErrorCallback
  BY <1>5, HeldFrame DEF vaGetDisplay, vaSetErrorCallback
<1>6. CASE vaGetDriverNames \/ NextDriver \/ NextDir \/ DriverInit \/ DriverMessage
  BY <1>6, HeldFrame
     DEF vaGetDriverNames, NextDriver, NextDir, DriverInit, DriverMessage, app
<1> QED
  BY <1>1, <1>2, <1>3, <1>4, <1>5, <1>6 DEF Next

(* va.h:472: a destroyed display has freed what it allocated, whatever     *)
(* drivers were tried and whatever failed, if it was initialised and named *)
(* once.                                                                   *)
THEOREM ResourcesAreCleaned == Spec => []ResourcesCleaned
<1>1. Init => Held
  BY DEF Init, Held
<1>2. IInv /\ Held => ResourcesCleaned
  <2> SUFFICES ASSUME IInv, Held, display = "destroyed", inits <= 1, names <= 1
               PROVE  allocated = [va_trace |-> 0, name |-> 0]
    BY DEF ResourcesCleaned
  <2>1. allocated.va_trace = 0 /\ allocated.name = 0
    BY DEF Held
  <2>2. allocated \in [va_trace : Nat, name : Nat]
    BY DEF IInv, TypeOK
  <2> QED
    BY <2>1, <2>2
<1> QED
  BY <1>1, <1>2, NextHeld, Inductive, PTL DEF Spec

-----------------------------------------------------------------------------
(* While a requested name is looked for there is no other candidate, and   *)
(* the library that is tried has the name of the candidate.                *)
OnlyRequested ==
  /\ pc \in {"next", "dir", "init"} /\ override_driver_name # NULL =>
       drivers \in {<<override_driver_name>>, <<NULL>>, <<>>}
  /\ pc = "init" => lib[1] = Head(drivers)

(* The list gets shorter as candidates fail.                               *)
LEMMA ShorterList ==
  ASSUME NEW n, NEW list \in {<<n>>, <<NULL>>, <<>>}, list # <<>>
  PROVE  Tail(list) \in {<<n>>, <<NULL>>, <<>>}
<1>1. CASE list = <<n>>
  BY <1>1
<1>2. CASE list = <<NULL>>
  BY <1>2
<1> QED
  BY <1>1, <1>2

(* A candidate that fails leaves those that come after it.                 *)
LEMMA ReturnOnlyRequested ==
  ASSUME IInv, OnlyRequested, NEW status, Return(status), pc \in {"dir", "init"},
         UNCHANGED override_driver_name
  PROVE  OnlyRequested'
<1>1. pc' # "init" /\ (pc' = "next" => drivers' = Tail(drivers)) /\ pc' \in {"app", "next"}
  BY DEF Return
<1>2. drivers # <<>>
  BY DEF IInv
<1>3. override_driver_name # NULL =>
        Tail(drivers) \in {<<override_driver_name>>, <<NULL>>, <<>>}
  BY <1>2, ShorterList DEF OnlyRequested
<1> QED
  BY <1>1, <1>3 DEF OnlyRequested

(* Every step keeps the list that vaSetDriverName asked for.               *)
LEMMA NextOnlyRequested == IInv /\ OnlyRequested /\ [Next]_vars => OnlyRequested'
<1> SUFFICES ASSUME IInv, OnlyRequested, [Next]_vars PROVE OnlyRequested'
  OBVIOUS
<1>1. CASE vaGetDisplay \/ vaSetErrorCallback \/ vaSetDriverName \/ va_TraceInit
           \/ vaTerminate
  <2>1. pc' \in {"app", "names"}
    BY <1>1 DEF vaGetDisplay, vaSetErrorCallback, vaSetDriverName, va_TraceInit,
                vaTerminate, Idle, IInv
  <2> QED
    BY <2>1 DEF OnlyRequested
<1>2. CASE vaGetDriverNames
  <2>1. /\ pc' = "next" /\ override_driver_name' = override_driver_name
        /\ override_driver_name # NULL =>
             drivers' \in {<<override_driver_name>>, <<NULL>>}
    BY <1>2 DEF vaGetDriverNames, Requested, app
  <2> QED
    BY <2>1 DEF OnlyRequested
<1>3. CASE NextDriver
  BY <1>3 DEF NextDriver, app, OnlyRequested
<1>4. CASE NextDir
  <2>1. pc = "dir" /\ override_driver_name' = override_driver_name
    BY <1>4 DEF NextDir, app
  <2>2. CASE Return(IF dir > NumDirs THEN vaStatus ELSE "FAILED")
    BY <2>1, <2>2, ReturnOnlyRequested
  <2>3. CASE UNCHANGED <<drivers, pc>>
    BY <2>1, <2>3 DEF OnlyRequested
  <2>4. CASE lib' = <<Head(drivers), dir>> /\ pc' = "init" /\ drivers' = drivers
    BY <2>1, <2>4 DEF OnlyRequested
  <2> QED
    BY <1>4, <2>2, <2>3, <2>4 DEF NextDir
<1>5. CASE DriverInit
  <2>1. pc = "init" /\ override_driver_name' = override_driver_name
    BY <1>5 DEF DriverInit, app
  <2>2. PICK status : Return(status)
    BY <1>5 DEF DriverInit
  <2> QED
    BY <2>1, <2>2, ReturnOnlyRequested
<1>6. CASE DriverMessage \/ UNCHANGED vars
  BY <1>6 DEF DriverMessage, vars, open, app, OnlyRequested
<1> QED
  BY <1>1, <1>2, <1>3, <1>4, <1>5, <1>6 DEF Next

(* va.h:456: the driver that is opened has the name that vaSetDriverName   *)
(* asked for.                                                              *)
THEOREM OverrideGoesFirst == Spec => OverrideWins
<1>1. Init => OnlyRequested
  BY DEF Init, OnlyRequested
<1>2. ASSUME IInv, OnlyRequested, [Next]_vars,
             handle = NULL, handle' # NULL, override_driver_name # NULL
      PROVE  handle'[1] = override_driver_name
  <2>1. DriverInit /\ handle' = lib
    BY <1>2 DEF Next, vars, vaGetDisplay, vaSetErrorCallback, vaSetDriverName,
                va_TraceInit, vaGetDriverNames, NextDriver, NextDir, DriverInit,
                DriverMessage, vaTerminate
  <2>2. pc = "init" /\ drivers # <<>> /\ Head(drivers) # NULL
    BY <1>2, <2>1 DEF DriverInit, IInv
  <2>3. drivers = <<override_driver_name>>
    BY <1>2, <2>2 DEF OnlyRequested
  <2> QED
    BY <1>2, <2>1, <2>2, <2>3 DEF OnlyRequested
<1>3. IInv /\ OnlyRequested /\ [Next]_vars =>
        [handle = NULL /\ handle' # NULL /\ override_driver_name # NULL
           => handle'[1] = override_driver_name]_vars
  BY <1>2
<1> QED
  BY <1>1, <1>3, NextOnlyRequested, Inductive, PTL DEF Spec, OverrideWins

-----------------------------------------------------------------------------
(* A step of the search is invisible, until the driver that is tried       *)
(* passes every check.                                                     *)
LEMMA DriverInitImplements == IInv /\ DriverInit => [Slot!Next]_Slot!vars
<1> SUFFICES ASSUME IInv, DriverInit PROVE [Slot!Next]_Slot!vars
  OBVIOUS
<1>1. display = "valid" /\ handle = NULL /\ lib \in Driver
  BY DisplayAssumption DEF IInv, TypeOK, DriverInit
<1>2. display' = display
  BY DEF DriverInit
<1>3. handle' = handle \/ handle' = lib
  BY DEF DriverInit
<1>4. CASE handle' = handle
  BY <1>2, <1>4 DEF Slot!vars
<1>5. CASE handle' = lib
  <2>1. Slot!vaInitialize(lib)
    BY <1>1, <1>2, <1>5 DEF Slot!vaInitialize
  <2>2. QED
    BY <1>1, <2>1 DEF Slot!Next
<1>6. QED
  BY <1>3, <1>4, <1>5

(* vaTerminate takes the driver away.                                      *)
LEMMA TerminateImplements == vaTerminate => [Slot!Next]_Slot!vars
  BY DEF vaTerminate, Idle, Slot!Next, Slot!vaTerminate

(* The other steps change neither the display nor its driver, except that  *)
(* vaGetDisplay makes the one there is.                                    *)
LEMMA OthersImplement ==
  Next /\ ~DriverInit /\ ~vaTerminate => [Slot!Next]_Slot!vars
<1> SUFFICES ASSUME Next, ~DriverInit, ~vaTerminate PROVE [Slot!Next]_Slot!vars
  OBVIOUS
<1>1. CASE vaGetDisplay
  BY <1>1 DEF vaGetDisplay, Slot!Next, Slot!vaGetDisplay
<1>2. CASE ~vaGetDisplay
  <2>1. display' = display /\ handle' = handle
    BY <1>2 DEF Next, vaSetErrorCallback, vaSetDriverName, va_TraceInit,
                vaGetDriverNames, NextDriver, NextDir, DriverMessage
  <2>2. QED
    BY <2>1 DEF Slot!vars
<1>3. QED
  BY <1>1, <1>2

(* The search through candidates and directories implements the one step   *)
(* of the abstract display, for all drivers, hooks and directories.        *)
THEOREM SlotImplemented == Spec => ImplementsSlot
<1>1. Init => Slot!Init
  BY DEF Init, Slot!Init
<1>2. IInv /\ [Next]_vars => [Slot!Next]_Slot!vars
  BY DriverInitImplements, TerminateImplements, OthersImplement
     DEF vars, Slot!vars
<1>3. QED
  BY <1>1, <1>2, Inductive, PTL DEF Spec, ImplementsSlot, Slot!Spec
=============================================================================
