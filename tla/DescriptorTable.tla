--------------------------- MODULE DescriptorTable ---------------------------
(***************************************************************************)
(* The descriptor table of the process, which the displays of all window   *)
(* systems share: open gives the lowest free number, and close of a number *)
(* asks nobody who opened it.                                              *)
(***************************************************************************)
EXTENDS Integers, FiniteSets, FiniteSetsExt

CONSTANT FD     \* descriptor numbers of the process

ASSUME FDAssumption == FD \subseteq Nat /\ IsFiniteSet(FD)

VARIABLE file   \* what each number is open on: who opened it, which node

Closed == [by |-> "nobody", node |-> "none"]

Free == {n \in FD : file[n] = Closed}
AllClosed == [n \in FD |-> Closed]

Open(owner, node) ==
  [file EXCEPT ![Min(Free)] = [by |-> owner, node |-> node]]

(* Closing -1 or a number that is not open does nothing.                   *)
Close(n) == IF n \in FD THEN [file EXCEPT ![n] = Closed] ELSE file

(* The node can be used by a driver, and is the one that `owner' opened.   *)
Usable(n, owner) ==
  n \in FD /\ file[n].by = owner /\ file[n].node \in {"render", "authenticated"}
=============================================================================
