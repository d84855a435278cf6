--------------------------- MODULE TraceRenderProof ---------------------------
(***************************************************************************)
(* Proofs about TraceRender, for any threads, buffers and lists of them,   *)
(* any flags and any size of an event.  What a call does is a script, put  *)
(* together from smaller ones.  A logic of triples, {P} script {Q}, with a *)
(* rule for each way of putting scripts together, says what each of them   *)
(* leaves mapped, locked and open; its triples are about one thread, and   *)
(* hold however the steps of others come between those of the script.      *)
(***************************************************************************)
EXTENDS TraceRender, LeastElement, SequenceTheorems, FiniteSetTheorems

-----------------------------------------------------------------------------
(* What a thread sees of the state.                                        *)

(* The hooks that are called without a test.                              *)
Untested == CHECK_VTABLE \cup Unchecked
Event == {"CREATE_CONFIG", "DESTROY_CONFIG", "QUERY_SURFACE_ATTR",
          "CREATE_SURFACE", "DESTROY_SURFACE", "CREATE_CONTEXT",
          "DESTROY_CONTEXT", "CREATE_BUFFER", "DESTROY_BUFFER",
          "BEGIN_PICTURE", "RENDER_PICTURE", "END_PICTURE", "SYNC_SURFACE",
          "SYNC_SURFACE2", "BUFFER_DATA"}
Ids == {b.id : b \in Buffer}

(* Locking the surface gives no buffer, mapping a buffer gives nothing else*)
Pointers ==
  {p \in [Tracer -> Buffer \cup {NULL, FAILED, PIXELS}] :
     /\ p["surface"] \notin Buffer
     /\ \A by \in Tracer \ {"surface"} : p[by] \in Buffer \cup {NULL}}

State ==
  [ptr : Pointers, maps : SUBSET (Tracer \X Ids),
   holds : SUBSET {"mutex", "surface"},
   open : Seq(Event), sent : Nat,
   hooks : {H \in SUBSET (Untested \cup OptionalHooks) : CHECK_VTABLE \subseteq H}]

WithPtr(x, by, p) == [x EXCEPT !.ptr = [x.ptr EXCEPT ![by] = p]]
WithMaps(x, M)    == [x EXCEPT !.maps = M]
WithHolds(x, H)   == [x EXCEPT !.holds = H]
WithOpen(x, s)    == [x EXCEPT !.open = s]
WithSent(x, n)    == [x EXCEPT !.sent = n]

(* A step of a script leads from x to y.                                   *)
Moves(op, x, y) ==
  /\ op.op \in {"driver", "if", "switch", "read", "iterated"} => y = x
  /\ op.op = "begin" => y = WithOpen(x, Append(x.open, op.arg))
  /\ op.op = "end"   => y = WithOpen(x, Front(x.open))
  /\ op.op = "data"  =>
       y = WithSent(x, IF Carries(op.extra + op.bytes)
                       THEN x.sent + op.bytes ELSE x.sent)
  /\ op.op = "lock"   => y = WithHolds(x, x.holds \cup {"mutex"})
  /\ op.op = "unlock" => y = WithHolds(x, x.holds \ {"mutex"})
  /\ op.op = "map" =>
       \/ y = x
       \/ y = WithMaps(WithPtr(x, op.arg, op.buf),
                       x.maps \cup {<<op.arg, op.buf.id>>})
  /\ op.op = "unmap" => y = WithMaps(x, x.maps \ {<<op.arg, op.buf.id>>})
  /\ op.op = "reset" =>
       y = WithSent(WithPtr(x, op.arg, NULL), IF op.arg = "event" THEN 0 ELSE x.sent)
  /\ op.op = "lockSurface" =>
       \/ y = WithPtr(x, "surface", FAILED)
       \/ \E data \in {NULL, PIXELS} :
            y = WithHolds(WithPtr(x, "surface", data), x.holds \cup {"surface"})
  /\ op.op = "unlockSurface" => y = WithHolds(x, x.holds \ {"surface"})

(* What the script goes on with in the place of the step.                  *)
Chosen(op, x) ==
  IF op.op = "if" THEN IF op.arg \in x.hooks THEN op.then ELSE op.else
  ELSE IF op.op = "switch"
  THEN op.of[IF x.ptr[op.arg] = NULL THEN "null"
             ELSE IF x.ptr[op.arg] = FAILED THEN "failed" ELSE "mapped"]
  ELSE << >>

(* What has to hold for the step to be right.                              *)
Right(op, x) ==
  /\ op.op \in {"driver", "if", "switch", "read", "iterated", "begin", "end",
                "data", "lock", "unlock", "map", "unmap", "reset",
                "lockSurface", "unlockSurface"}
  /\ op.op = "driver" => op.arg \in x.hooks \cup Unchecked
  /\ op.op = "read" /\ op.arg # "surface" =>
       x.ptr[op.arg] # NULL /\ <<op.arg, x.ptr[op.arg].id>> \in x.maps
  /\ op.op = "read" => op.arg \in Tracer
  /\ op.op = "iterated" => x.sent = x.ptr["event"].total
  /\ op.op = "end"    => x.open # << >> /\ Last(x.open) = op.arg
  /\ op.op = "lock"   => "mutex" \notin x.holds
  /\ op.op = "unlock" => "mutex" \in x.holds
  /\ op.op \in {"map", "unmap"} => op.arg \in Tracer /\ op.buf \in Buffer
  /\ op.op = "reset" => op.arg \in Tracer

IsScript(s) == \E S : s \in Seq(S)

(* At state x and script s no step is wrong, what comes after is in R, and *)
(* a script that is over is over in Q.                                     *)
Fits(R, Q, x, s) ==
  /\ x \in State /\ IsScript(s)
  /\ s = << >> => x \in Q
  /\ s # << >> =>
       /\ Right(Head(s), x)
       /\ IsScript(Chosen(Head(s), x))
       /\ \A y : Moves(Head(s), x, y) => <<y, Chosen(Head(s), x) \o Tail(s)>> \in R

Safe(R, Q) == \A x, s : <<x, s>> \in R => Fits(R, Q, x, s)

Triple(P, s, Q) ==
  IsScript(s) /\ \E R : Safe(R, Q) /\ \A x \in P : <<x, s>> \in R

-----------------------------------------------------------------------------
(* Scripts are sequences.                                                  *)

LEMMA EmptyScript == IsScript(<< >>)
<1>1. << >> \in Seq({})
  OBVIOUS
<1> QED
  BY <1>1 DEF IsScript

LEMMA ScriptOfOne ==
  ASSUME NEW op
  PROVE  /\ IsScript(<<op>>) /\ <<op>> # << >>
         /\ Head(<<op>>) = op /\ Tail(<<op>>) = << >>
<1>1. <<op>> \in Seq({op}) /\ Len(<<op>>) = 1 /\ <<op>>[1] = op
  OBVIOUS
<1>2. IsScript(<<op>>)
  BY <1>1 DEF IsScript
<1> DEFINE s == <<op>>
<1> HIDE DEF s
<1>3. s # << >> /\ Head(s) = op
  BY <1>1 DEF s
<1>4. Tail(s) = << >>
  <2>1. Tail(s) \in Seq({op}) /\ Len(Tail(s)) = 0
    BY <1>1, <1>3, HeadTailProperties DEF s
  <2> QED
    BY <2>1, EmptySeq
<1> QED
  BY <1>2, <1>3, <1>4 DEF s

LEMMA ScriptsConcat ==
  ASSUME NEW s, NEW u, IsScript(s), IsScript(u)
  PROVE  /\ IsScript(s \o u)
         /\ s = << >> => s \o u = u
         /\ u = << >> => s \o u = s
         /\ s # << >> => /\ s \o u # << >>
                         /\ Head(s \o u) = Head(s)
                         /\ Tail(s \o u) = Tail(s) \o u
                         /\ IsScript(Tail(s))
<1>1. PICK S : s \in Seq(S)
  BY DEF IsScript
<1>2. PICK U : u \in Seq(U)
  BY DEF IsScript
<1> DEFINE W == S \cup U
<1>3. s \in Seq(W) /\ u \in Seq(W)
  BY <1>1, <1>2
<1> HIDE DEF W
<1>4. s \o u \in Seq(W)
  BY <1>3
<1>5. s = << >> => s \o u = u
  BY <1>3
<1>6. u = << >> => s \o u = s
  BY <1>3
<1>7. ASSUME s # << >>
      PROVE  /\ s \o u # << >>
             /\ Head(s \o u) = Head(s)
             /\ Tail(s \o u) = Tail(s) \o u
             /\ Tail(s) \in Seq(W)
  BY <1>3, <1>7
<1> QED
  BY <1>4, <1>5, <1>6, <1>7 DEF IsScript

LEMMA ScriptsAssociative ==
  ASSUME NEW s, NEW u, NEW w, IsScript(s), IsScript(u), IsScript(w)
  PROVE  (s \o u) \o w = s \o (u \o w)
<1>1. PICK S : s \in Seq(S)
  BY DEF IsScript
<1>2. PICK U : u \in Seq(U)
  BY DEF IsScript
<1>3. PICK W : w \in Seq(W)
  BY DEF IsScript
<1> DEFINE Z == S \cup U \cup W
<1>4. s \in Seq(Z) /\ u \in Seq(Z) /\ w \in Seq(Z)
  BY <1>1, <1>2, <1>3
<1> HIDE DEF Z
<1> QED
  BY <1>4

-----------------------------------------------------------------------------
(* The rules.                                                              *)

(* A script of no steps.                                                   *)
LEMMA NothingRule ==
  ASSUME NEW P \in SUBSET State
  PROVE  Triple(P, << >>, P)
<1> DEFINE R == P \X {<< >>}
<1>1. Safe(R, P)
  BY EmptyScript DEF Safe, Fits, Chosen
<1> QED
  BY <1>1, EmptyScript DEF Triple

(* The condition before a script may say more, and the one after it less.  *)
LEMMA ConsequenceRule ==
  ASSUME NEW P, NEW Q, NEW s, NEW P1, NEW Q1,
         Triple(P, s, Q), P1 \subseteq P, Q \subseteq Q1
  PROVE  Triple(P1, s, Q1)
<1>1. PICK R : Safe(R, Q) /\ \A x \in P : <<x, s>> \in R
  BY DEF Triple
<1>2. Safe(R, Q1)
  BY <1>1 DEF Safe, Fits
<1> QED
  BY <1>1, <1>2 DEF Triple

(* A script is right for a set of states when it is for each of them.      *)
LEMMA PointRule ==
  ASSUME NEW P, NEW s, NEW Q, IsScript(s),
         \A x \in P : Triple({x}, s, Q)
  PROVE  Triple(P, s, Q)
<1> DEFINE F(x) == CHOOSE R : Safe(R, Q) /\ <<x, s>> \in R
           R == UNION {F(x) : x \in P}
<1>1. ASSUME NEW x \in P
      PROVE  Safe(F(x), Q) /\ <<x, s>> \in F(x)
  <2>1. \E r : Safe(r, Q) /\ <<x, s>> \in r
    BY DEF Triple
  <2> QED
    BY <2>1
<1> HIDE DEF F
<1>2. Safe(R, Q)
  <2> SUFFICES ASSUME NEW x, NEW u, <<x, u>> \in R
               PROVE  Fits(R, Q, x, u)
    BY DEF Safe
  <2>1. PICK z \in P : <<x, u>> \in F(z)
    OBVIOUS
  <2>2. F(z) \subseteq R
    OBVIOUS
  <2> HIDE DEF R
  <2> QED
    BY <1>1, <2>1, <2>2 DEF Safe, Fits
<1>3. \A x \in P : <<x, s>> \in R
  BY <1>1
<1> QED
  BY <1>2, <1>3 DEF Triple

(* Either of two conditions before a script.                               *)
LEMMA EitherRule ==
  ASSUME NEW P, NEW P1, NEW s, NEW Q, Triple(P, s, Q), Triple(P1, s, Q)
  PROVE  Triple(P \cup P1, s, Q)
<1>1. IsScript(s)
  BY DEF Triple
<1>2. ASSUME NEW x \in P \cup P1
      PROVE  Triple({x}, s, Q)
  <2>1. CASE x \in P
    BY <2>1, ConsequenceRule
  <2>2. CASE x \in P1
    BY <2>2, ConsequenceRule
  <2> QED
    BY <2>1, <2>2
<1> QED
  BY <1>1, <1>2, PointRule

(* One step that chooses nothing.                                          *)
LEMMA StepRule ==
  ASSUME NEW P \in SUBSET State, NEW Q \in SUBSET State, NEW op,
         \A x \in P : /\ Right(op, x) /\ Chosen(op, x) = << >>
                      /\ \A y : Moves(op, x, y) => y \in Q
  PROVE  Triple(P, <<op>>, Q)
<1> DEFINE R == (P \X {<<op>>}) \cup (Q \X {<< >>})
<1>1. Safe(R, Q)
  <2> SUFFICES ASSUME NEW x, NEW u, <<x, u>> \in R
               PROVE  Fits(R, Q, x, u)
    BY DEF Safe
  <2>1. CASE x \in P /\ u = <<op>>
    <3>1. u # << >> /\ Head(u) = op /\ Tail(u) = << >> /\ IsScript(u)
      BY <2>1, ScriptOfOne
    <3>2. Chosen(op, x) \o Tail(u) = << >>
      BY <2>1, <3>1, EmptyScript, ScriptsConcat
    <3> QED
      BY <2>1, <3>1, <3>2, EmptyScript DEF Fits
  <2>2. CASE x \in Q /\ u = << >>
    BY <2>2, EmptyScript DEF Fits
  <2> QED
    BY <2>1, <2>2
<1>2. \A x \in P : <<x, <<op>>>> \in R
  OBVIOUS
<1> HIDE DEF R
<1> QED
  BY <1>1, <1>2, ScriptOfOne DEF Triple

(* One step that goes on with a script of its own.                         *)
LEMMA ChoiceRule ==
  ASSUME NEW P \in SUBSET State, NEW Q, NEW op,
         \A x \in P : /\ Right(op, x)
                      /\ \A y : Moves(op, x, y) => y = x
                      /\ Triple({x}, Chosen(op, x), Q)
  PROVE  Triple(P, <<op>>, Q)
<1>1. ASSUME NEW x \in P
      PROVE  Triple({x}, <<op>>, Q)
  <2> DEFINE c == Chosen(op, x)
  <2>1. IsScript(c)
    BY DEF Triple
  <2>2. PICK R : Safe(R, Q) /\ <<x, c>> \in R
    BY DEF Triple
  <2>3. c \o Tail(<<op>>) = c
    BY <2>1, ScriptOfOne, EmptyScript, ScriptsConcat
  <2> DEFINE R1 == R \cup {<<x, <<op>>>>}
  <2>4. Safe(R1, Q)
    <3> SUFFICES ASSUME NEW z, NEW u, <<z, u>> \in R1
                 PROVE  Fits(R1, Q, z, u)
      BY DEF Safe
    <3>1. CASE <<z, u>> \in R
      BY <2>2, <3>1 DEF Safe, Fits
    <3>2. CASE z = x /\ u = <<op>>
      <4>1. u # << >> /\ Head(u) = op /\ IsScript(u)
        BY <3>2, ScriptOfOne
      <4>2. Chosen(Head(u), z) \o Tail(u) = c
        BY <2>3, <3>2, <4>1
      <4>3. Right(op, x) /\ \A y : Moves(op, x, y) => y = x
        OBVIOUS
      <4>4. Chosen(Head(u), z) = c /\ x \in State
        BY <3>2, <4>1
      <4> HIDE DEF c
      <4> QED
        BY <2>1, <2>2, <3>2, <4>1, <4>2, <4>3, <4>4 DEF Fits
    <3> QED
      BY <3>1, <3>2
  <2> HIDE DEF R1
  <2>5. <<x, <<op>>>> \in R1
    BY DEF R1
  <2> QED
    BY <2>4, <2>5, ScriptOfOne DEF Triple
<1> QED
  BY <1>1, PointRule, ScriptOfOne

(* One script after the other.                                             *)
LEMMA ThenRule ==
  ASSUME NEW P, NEW s, NEW Q, NEW u, NEW W, Triple(P, s, Q), Triple(Q, u, W)
  PROVE  Triple(P, s \o u, W)
<1>1. IsScript(s) /\ IsScript(u)
  BY DEF Triple
<1>2. PICK R : Safe(R, Q) /\ \A x \in P : <<x, s>> \in R
  BY DEF Triple
<1>3. PICK U : Safe(U, W) /\ \A x \in Q : <<x, u>> \in U
  BY DEF Triple
<1> DEFINE Z == {<<c[1], c[2] \o u>> : c \in {c \in R : c = <<c[1], c[2]>>}} \cup U
<1>4. \A x, v : <<x, v>> \in R => <<x, v \o u>> \in Z
  <2> SUFFICES ASSUME NEW x, NEW v, <<x, v>> \in R
               PROVE  <<x, v \o u>> \in Z
    OBVIOUS
  <2> DEFINE c == <<x, v>>
  <2>1. c \in R /\ c = <<c[1], c[2]>> /\ <<c[1], c[2] \o u>> = <<x, v \o u>>
    OBVIOUS
  <2> HIDE DEF c
  <2> QED
    BY <2>1
<1>5. Safe(Z, W)
  <2> SUFFICES ASSUME NEW x, NEW v, <<x, v>> \in Z
               PROVE  Fits(Z, W, x, v)
    BY DEF Safe
  <2>1. CASE <<x, v>> \in U
    <3>1. U \subseteq Z
      OBVIOUS
    <3> HIDE DEF Z
    <3> QED
      BY <1>3, <2>1, <3>1 DEF Safe, Fits
  <2>2. CASE \E r : <<x, r>> \in R /\ v = r \o u
    <3>1. PICK r : <<x, r>> \in R /\ v = r \o u
      BY <2>2
    <3> HIDE DEF Z
    <3>2. x \in State /\ IsScript(r)
      BY <1>2, <3>1 DEF Safe, Fits
    <3>3. CASE r = << >>
      <4>1. v = u /\ x \in Q
        BY <1>1, <1>2, <3>1, <3>2, <3>3, ScriptsConcat DEF Safe, Fits
      <4>2. <<x, v>> \in U
        BY <1>3, <4>1
      <4> QED
        BY <1>3, <4>2 DEF Safe, Fits, Z
    <3>4. CASE r # << >>
      <4>1. /\ IsScript(v) /\ v # << >> /\ Head(v) = Head(r)
            /\ Tail(v) = Tail(r) \o u /\ IsScript(Tail(r))
        BY <1>1, <3>1, <3>2, <3>4, ScriptsConcat
      <4>2. Right(Head(r), x) /\ IsScript(Chosen(Head(r), x))
        BY <1>2, <3>1, <3>4 DEF Safe, Fits
      <4>3. ASSUME NEW y, Moves(Head(r), x, y)
            PROVE  <<y, Chosen(Head(v), x) \o Tail(v)>> \in Z
        <5>1. <<y, Chosen(Head(r), x) \o Tail(r)>> \in R
          BY <1>2, <3>1, <3>4, <4>3 DEF Safe, Fits
        <5>2. <<y, (Chosen(Head(r), x) \o Tail(r)) \o u>> \in Z
          BY <1>4, <5>1
        <5>3. (Chosen(Head(r), x) \o Tail(r)) \o u = Chosen(Head(r), x) \o (Tail(r) \o u)
          <6> DEFINE a == Chosen(Head(r), x)
                     b == Tail(r)
          <6>1. IsScript(a) /\ IsScript(b) /\ IsScript(u)
            BY <1>1, <4>1, <4>2
          <6> HIDE DEF a, b
          <6>2. (a \o b) \o u = a \o (b \o u)
            BY <6>1, ScriptsAssociative
          <6> QED
            BY <6>2 DEF a, b
        <5> QED
          BY <4>1, <5>2, <5>3
      <4> QED
        BY <3>2, <4>1, <4>2, <4>3 DEF Fits
    <3> QED
      BY <3>3, <3>4
  <2> QED
    BY <2>1, <2>2
<1>6. \A x \in P : <<x, s \o u>> \in Z
  BY <1>2, <1>4
<1> HIDE DEF Z
<1> QED
  BY <1>1, <1>5, <1>6, ScriptsConcat DEF Triple

-----------------------------------------------------------------------------
(* One part of a thread's state changed.                                   *)

LEMMA SameState ==
  ASSUME NEW x \in State, NEW y \in State,
         x.ptr = y.ptr, x.maps = y.maps, x.holds = y.holds,
         x.open = y.open, x.sent = y.sent, x.hooks = y.hooks
  PROVE  x = y
  BY DEF State

LEMMA PtrChanged ==
  ASSUME NEW x \in State, NEW by \in Tracer, NEW p,
         IF by = "surface" THEN p \in {NULL, FAILED, PIXELS} ELSE p \in Buffer \cup {NULL}
  PROVE  LET y == WithPtr(x, by, p)
         IN  /\ y \in State
             /\ y.ptr[by] = p /\ \A by2 \in Tracer \ {by} : y.ptr[by2] = x.ptr[by2]
             /\ y.ptr = [x.ptr EXCEPT ![by] = p]
             /\ y.maps = x.maps /\ y.holds = x.holds /\ y.open = x.open
             /\ y.sent = x.sent /\ y.hooks = x.hooks
<1> DEFINE q == [x.ptr EXCEPT ![by] = p]
<1>1. x.ptr \in Pointers
  BY DEF State
<1>2. q \in Pointers
  BY <1>1, RenderAssumption DEF Pointers, Tracer
<1>3. q[by] = p /\ \A by2 \in Tracer \ {by} : q[by2] = x.ptr[by2]
  BY <1>1 DEF Pointers
<1>4. WithPtr(x, by, p) = [x EXCEPT !.ptr = q]
  BY DEF WithPtr
<1> HIDE DEF q
<1>5. /\ [x EXCEPT !.ptr = q] \in State
      /\ [x EXCEPT !.ptr = q].ptr = q
      /\ [x EXCEPT !.ptr = q].maps = x.maps
      /\ [x EXCEPT !.ptr = q].holds = x.holds
      /\ [x EXCEPT !.ptr = q].open = x.open
      /\ [x EXCEPT !.ptr = q].sent = x.sent
      /\ [x EXCEPT !.ptr = q].hooks = x.hooks
  BY <1>2 DEF State
<1> QED
  BY <1>3, <1>4, <1>5 DEF q

(* Mapping a buffer, or not, gives a pointer to it or none.                *)
LEMMA BufferPtrChanged ==
  ASSUME NEW x \in State, NEW by \in Tracer \ {"surface"}, NEW p \in Buffer \cup {NULL}
  PROVE  LET y == WithPtr(x, by, p)
         IN  /\ y \in State
             /\ y.ptr[by] = p /\ \A by2 \in Tracer \ {by} : y.ptr[by2] = x.ptr[by2]
             /\ y.ptr = [x.ptr EXCEPT ![by] = p]
             /\ y.maps = x.maps /\ y.holds = x.holds /\ y.open = x.open
             /\ y.sent = x.sent /\ y.hooks = x.hooks
<1>1. by \in Tracer /\ by # "surface"
  OBVIOUS
<1> QED
  BY <1>1, PtrChanged

(* Locking the surface gives its data, or none, or fails.                  *)
LEMMA SurfacePtrChanged ==
  ASSUME NEW x \in State, NEW p \in {NULL, FAILED, PIXELS}
  PROVE  LET y == WithPtr(x, "surface", p)
         IN  /\ y \in State /\ y.ptr["surface"] = p
             /\ y.ptr = [x.ptr EXCEPT !["surface"] = p]
             /\ y.maps = x.maps /\ y.holds = x.holds /\ y.open = x.open
             /\ y.sent = x.sent /\ y.hooks = x.hooks
<1>1. "surface" \in Tracer
  BY DEF Tracer
<1> QED
  BY <1>1, PtrChanged

LEMMA MapsChanged ==
  ASSUME NEW x \in State, NEW M \in SUBSET (Tracer \X Ids)
  PROVE  LET y == WithMaps(x, M)
         IN  /\ y \in State /\ y.maps = M
             /\ y.ptr = x.ptr /\ y.holds = x.holds /\ y.open = x.open
             /\ y.sent = x.sent /\ y.hooks = x.hooks
  BY DEF State, WithMaps

LEMMA HoldsChanged ==
  ASSUME NEW x \in State, NEW H \in SUBSET {"mutex", "surface"}
  PROVE  LET y == WithHolds(x, H)
         IN  /\ y \in State /\ y.holds = H
             /\ y.ptr = x.ptr /\ y.maps = x.maps /\ y.open = x.open
             /\ y.sent = x.sent /\ y.hooks = x.hooks
  BY DEF State, WithHolds

LEMMA OpenChanged ==
  ASSUME NEW x \in State, NEW s \in Seq(Event)
  PROVE  LET y == WithOpen(x, s)
         IN  /\ y \in State /\ y.open = s
             /\ y.ptr = x.ptr /\ y.maps = x.maps /\ y.holds = x.holds
             /\ y.sent = x.sent /\ y.hooks = x.hooks
  BY DEF State, WithOpen

LEMMA SentChanged ==
  ASSUME NEW x \in State, NEW n \in Nat
  PROVE  LET y == WithSent(x, n)
         IN  /\ y \in State /\ y.sent = n
             /\ y.ptr = x.ptr /\ y.maps = x.maps /\ y.holds = x.holds
             /\ y.open = x.open /\ y.hooks = x.hooks
  BY DEF State, WithSent

LEMMA StateTyped ==
  ASSUME NEW x \in State
  PROVE  /\ x.ptr \in Pointers /\ x.maps \in SUBSET (Tracer \X Ids)
         /\ x.holds \in SUBSET {"mutex", "surface"} /\ x.open \in Seq(Event)
         /\ x.sent \in Nat /\ CHECK_VTABLE \subseteq x.hooks
  BY DEF State

-----------------------------------------------------------------------------
(* Scripts that leave the state as it was, the steps of which are the      *)
(* driver's, or take context_mutex and give it back at once.               *)

Ready == {x \in State : "mutex" \notin x.holds}

Neutral(s) == \A P \in SUBSET Ready : Triple(P, s, P)

LEMMA NeutralNothing == Neutral(<< >>)
<1>1. \A P \in SUBSET Ready : P \in SUBSET State
  BY DEF Ready
<1> QED
  BY <1>1, NothingRule DEF Neutral

LEMMA NeutralThen ==
  ASSUME NEW s, NEW u, Neutral(s), Neutral(u)
  PROVE  Neutral(s \o u)
<1> SUFFICES ASSUME NEW P \in SUBSET Ready
             PROVE  Triple(P, s \o u, P)
  BY DEF Neutral
<1>1. Triple(P, s, P) /\ Triple(P, u, P)
  BY DEF Neutral
<1> QED
  BY <1>1, ThenRule

(* A hook is called that was checked, or never will be.                    *)
LEMMA NeutralHook ==
  ASSUME NEW h \in Untested
  PROVE  Neutral(Hook(h))
<1> SUFFICES ASSUME NEW P \in SUBSET Ready
             PROVE  Triple(P, Hook(h), P)
  BY DEF Neutral
<1> DEFINE op == [op |-> "driver", arg |-> h]
<1>1. Hook(h) = <<op>>
  BY DEF Hook, Do
<1>2. P \in SUBSET State
  BY DEF Ready
<1>3. ASSUME NEW x \in P
      PROVE  /\ Right(op, x) /\ Chosen(op, x) = << >>
             /\ \A y : Moves(op, x, y) => y \in P
  <2>1. h \in x.hooks \cup Unchecked
    BY <1>2, StateTyped DEF Untested
  <2> QED
    BY <2>1 DEF Right, Chosen, Moves
<1> HIDE DEF op
<1>4. Triple(P, <<op>>, P)
  BY <1>2, <1>3, StepRule
<1> QED
  BY <1>1, <1>4

(* The states of P with the mutex taken besides.                           *)
Locked(P) ==
  {x \in State : "mutex" \in x.holds /\ WithHolds(x, x.holds \ {"mutex"}) \in P}

LEMMA LockRule ==
  ASSUME NEW P \in SUBSET Ready
  PROVE  Triple(P, Do("lock", ""), Locked(P))
<1> DEFINE op == [op |-> "lock", arg |-> ""]
<1>1. P \in SUBSET State /\ Locked(P) \in SUBSET State
  BY DEF Ready, Locked
<1>2. ASSUME NEW x \in P
      PROVE  /\ Right(op, x) /\ Chosen(op, x) = << >>
             /\ \A y : Moves(op, x, y) => y \in Locked(P)
  <2>1. x \in State /\ "mutex" \notin x.holds
    BY DEF Ready
  <2> DEFINE y == WithHolds(x, x.holds \cup {"mutex"})
             z == WithHolds(y, y.holds \ {"mutex"})
  <2>2. /\ y \in State /\ y.holds = x.holds \cup {"mutex"}
        /\ y.ptr = x.ptr /\ y.maps = x.maps /\ y.open = x.open
        /\ y.sent = x.sent /\ y.hooks = x.hooks
    BY <2>1, HoldsChanged, StateTyped
  <2> HIDE DEF y
  <2>3. /\ z \in State /\ z.holds = x.holds
        /\ z.ptr = x.ptr /\ z.maps = x.maps /\ z.open = x.open
        /\ z.sent = x.sent /\ z.hooks = x.hooks
    <3> DEFINE H == y.holds \ {"mutex"}
    <3>1. H = x.holds /\ H \in SUBSET {"mutex", "surface"}
      BY <2>1, <2>2, StateTyped
    <3> HIDE DEF H
    <3>2. WithHolds(y, H) = z
      BY DEF H
    <3>3. LET w == WithHolds(y, H)
          IN  /\ w \in State /\ w.holds = H
              /\ w.ptr = y.ptr /\ w.maps = y.maps /\ w.open = y.open
              /\ w.sent = y.sent /\ w.hooks = y.hooks
      BY <2>2, <3>1, HoldsChanged
    <3> QED
      BY <2>2, <3>1, <3>2, <3>3
  <2>4. z = x
    BY <2>1, <2>3, SameState
  <2>5. y \in Locked(P)
    BY <2>2, <2>4 DEF Locked
  <2>6. Right(op, x) /\ Chosen(op, x) = << >>
    BY <2>1 DEF Right, Chosen
  <2>7. \A w : Moves(op, x, w) => w = y
    BY DEF Moves, y
  <2> QED
    BY <2>5, <2>6, <2>7
<1> HIDE DEF op
<1>3. Triple(P, <<op>>, Locked(P))
  BY <1>1, <1>2, StepRule
<1> QED
  BY <1>3 DEF op, Do

LEMMA UnlockRule ==
  ASSUME NEW P \in SUBSET Ready
  PROVE  Triple(Locked(P), Do("unlock", ""), P)
<1> DEFINE op == [op |-> "unlock", arg |-> ""]
<1>1. P \in SUBSET State /\ Locked(P) \in SUBSET State
  BY DEF Ready, Locked
<1>2. ASSUME NEW x \in Locked(P)
      PROVE  /\ Right(op, x) /\ Chosen(op, x) = << >>
             /\ \A y : Moves(op, x, y) => y \in P
  BY DEF Right, Chosen, Moves, Locked
<1> HIDE DEF op
<1>3. Triple(Locked(P), <<op>>, P)
  BY <1>1, <1>2, StepRule
<1> QED
  BY <1>3 DEF op, Do

(* DPY2TRACE_VIRCTX, and the trace of a call's result.                     *)
LEMMA NeutralVirctx == Neutral(DPY2TRACE_VIRCTX)
<1> SUFFICES ASSUME NEW P \in SUBSET Ready
             PROVE  Triple(P, DPY2TRACE_VIRCTX, P)
  BY DEF Neutral
<1> QED
  BY LockRule, UnlockRule, ThenRule DEF DPY2TRACE_VIRCTX

LEMMA NeutralRet == Neutral(VA_TRACE_RET)
  BY NeutralVirctx, NeutralNothing DEF VA_TRACE_RET, VA_TRACE_ALL, va_TraceStatus

LEMMA NeutralBufferInfo == Neutral(vaBufferInfo)
<1>1. "BufferInfo" \in Untested
  BY DEF Untested, Unchecked
<1> QED
  BY <1>1, NeutralHook, NeutralRet, NeutralThen DEF vaBufferInfo

-----------------------------------------------------------------------------
(* A trace function maps one buffer at a time, and what it does with it    *)
(* has no part in P.                                                       *)

Reader == Tracer \ {"surface", "event"}

LEMMA ReadersTrace ==
  ASSUME NEW by \in Reader
  PROVE  by \in Tracer /\ by \in Tracer \ {"surface"} /\ by # "event" /\ by # "surface"
  BY DEF Reader

Apart(by, P) ==
  /\ P \in SUBSET Ready
  /\ \A x \in P : /\ \A i \in Ids : <<by, i>> \notin x.maps
                  /\ \A p \in Buffer \cup {NULL} : WithPtr(x, by, p) \in P

Null(by, P) == {x \in P : x.ptr[by] = NULL}

(* The states of P with the buffer mapped besides.                         *)
Mapped(by, b, P) ==
  {x \in Ready : /\ x.ptr[by] = b
                 /\ <<by, b.id>> \in x.maps
                 /\ WithMaps(x, x.maps \ {<<by, b.id>>}) \in P}

LEMMA ResetRule ==
  ASSUME NEW by \in Reader, NEW P, Apart(by, P)
  PROVE  Triple(P, Reset(by), Null(by, P))
<1> DEFINE op == [op |-> "reset", arg |-> by]
<1>1. P \in SUBSET State /\ Null(by, P) \in SUBSET State /\ by \in Tracer
  BY DEF Apart, Ready, Null, Reader
<1>2. ASSUME NEW x \in P
      PROVE  /\ Right(op, x) /\ Chosen(op, x) = << >>
             /\ \A y : Moves(op, x, y) => y \in Null(by, P)
  <2> DEFINE y == WithPtr(x, by, NULL)
             z == WithSent(y, x.sent)
  <2>1. x \in State /\ x.sent \in Nat
    BY <1>1, StateTyped
  <2>2. y \in State /\ y.ptr[by] = NULL /\ y.sent = x.sent /\ y \in P
    <3>1. NULL \in Buffer \cup {NULL}
      OBVIOUS
    <3>2. y \in P
      BY <3>1 DEF Apart
    <3>3. by \in Tracer \ {"surface"}
      BY ReadersTrace
    <3> QED
      BY <2>1, <3>1, <3>2, <3>3, BufferPtrChanged
  <2> HIDE DEF y
  <2>3. /\ z \in State /\ z.sent = y.sent
        /\ z.ptr = y.ptr /\ z.maps = y.maps /\ z.holds = y.holds
        /\ z.open = y.open /\ z.hooks = y.hooks
    BY <2>1, <2>2, SentChanged
  <2>4. z = y
    BY <2>2, <2>3, SameState
  <2>5. Right(op, x) /\ Chosen(op, x) = << >>
    BY <1>1 DEF Right, Chosen
  <2>6. \A w : Moves(op, x, w) => w = z
    BY DEF Moves, Reader, y
  <2> QED
    BY <2>2, <2>4, <2>5, <2>6 DEF Null
<1> HIDE DEF op
<1>3. Triple(P, <<op>>, Null(by, P))
  BY <1>1, <1>2, StepRule
<1> QED
  BY <1>3 DEF op, Reset, Do

LEMMA MapRule ==
  ASSUME NEW by \in Reader, NEW b \in Buffer, NEW P, Apart(by, P)
  PROVE  Triple(Null(by, P), vaMapBuffer(by, b), Mapped(by, b, P) \cup Null(by, P))
<1> DEFINE op == [op |-> "map", arg |-> by, buf |-> b]
           Q == Mapped(by, b, P) \cup Null(by, P)
           m == <<by, b.id>>
<1>1. /\ Null(by, P) \in SUBSET State /\ Q \in SUBSET State /\ Q \in SUBSET Ready
      /\ by \in Tracer /\ by # "surface" /\ m \in Tracer \X Ids /\ b.id \in Ids
  BY DEF Apart, Ready, Null, Mapped, Reader, Ids
<1>2. ASSUME NEW x \in Null(by, P)
      PROVE  /\ Right(op, x) /\ Chosen(op, x) = << >>
             /\ \A y : Moves(op, x, y) => y \in Q
  <2> DEFINE y == WithPtr(x, by, b)
             M == x.maps \cup {m}
             z == WithMaps(y, M)
             w == WithMaps(z, z.maps \ {m})
  <2>1. x \in State /\ x.maps \in SUBSET (Tracer \X Ids) /\ m \notin x.maps /\ x \in P
    BY <1>1, StateTyped DEF Null, Apart
  <2>2. /\ y \in State /\ y.ptr[by] = b /\ y \in P /\ y.maps = x.maps
        /\ "mutex" \notin y.holds
    <3>1. b \in Buffer \cup {NULL}
      OBVIOUS
    <3>2. y \in P
      BY <2>1, <3>1 DEF Apart
    <3>3. "mutex" \notin y.holds
      BY <3>2 DEF Apart, Ready
    <3>4. by \in Tracer \ {"surface"}
      BY ReadersTrace
    <3>5. x \in State
      BY <2>1
    <3>6. y \in State /\ y.ptr[by] = b /\ y.maps = x.maps
      BY <3>1, <3>4, <3>5, BufferPtrChanged
    <3> QED
      BY <3>2, <3>3, <3>6
  <2> HIDE DEF m, y
  <2>3. /\ z \in State /\ z.maps = M
        /\ z.ptr = y.ptr /\ z.holds = y.holds /\ z.open = y.open
        /\ z.sent = y.sent /\ z.hooks = y.hooks
    BY <1>1, <2>1, <2>2, MapsChanged
  <2>4. M \ {m} = x.maps
    BY <2>1
  <2> HIDE DEF z
  <2>5. /\ w \in State /\ w.maps = y.maps
        /\ w.ptr = y.ptr /\ w.holds = y.holds /\ w.open = y.open
        /\ w.sent = y.sent /\ w.hooks = y.hooks
    <3> DEFINE U == z.maps \ {m}
    <3>1. U = x.maps /\ U \in SUBSET (Tracer \X Ids)
      BY <2>1, <2>3, <2>4
    <3> HIDE DEF U
    <3>2. WithMaps(z, U) = w
      BY DEF U
    <3>3. LET v == WithMaps(z, U)
          IN  /\ v \in State /\ v.maps = U
              /\ v.ptr = z.ptr /\ v.holds = z.holds /\ v.open = z.open
              /\ v.sent = z.sent /\ v.hooks = z.hooks
      BY <2>3, <3>1, MapsChanged
    <3> QED
      BY <2>2, <2>3, <3>1, <3>2, <3>3
  <2>6. w = y
    BY <2>2, <2>5, SameState
  <2>7. z \in Mapped(by, b, P)
    BY <2>2, <2>3, <2>6 DEF Mapped, Ready, m
  <2>8. Right(op, x) /\ Chosen(op, x) = << >>
    BY <1>1 DEF Right, Chosen
  <2>9. \A v : Moves(op, x, v) => v = x \/ v = z
    BY DEF Moves, y, z, m
  <2> QED
    BY <2>7, <2>8, <2>9
<1> HIDE DEF op, Q
<1>3. Triple(Null(by, P), <<op>>, Q)
  BY <1>1, <1>2, StepRule
<1>4. Triple(Q, VA_TRACE_RET, Q)
  BY <1>1, NeutralRet DEF Neutral
<1>5. Triple(Null(by, P), <<op>> \o VA_TRACE_RET, Q)
  BY <1>3, <1>4, ThenRule
<1> QED
  BY <1>5 DEF op, Q, vaMapBuffer, Map

(* Unmapping gives back what was mapped, and does nothing otherwise.       *)
LEMMA UnmapRule ==
  ASSUME NEW by \in Reader, NEW b \in Buffer, NEW P, Apart(by, P)
  PROVE  Triple(Mapped(by, b, P) \cup Null(by, P), vaUnmapBuffer(by, b), P)
<1> DEFINE op == [op |-> "unmap", arg |-> by, buf |-> b]
           Q == Mapped(by, b, P) \cup Null(by, P)
           m == <<by, b.id>>
<1>1. /\ P \in SUBSET State /\ Q \in SUBSET State /\ P \in SUBSET Ready
      /\ by \in Tracer /\ m \in Tracer \X Ids /\ b.id \in Ids
  BY DEF Apart, Ready, Null, Mapped, Reader, Ids
<1>2. ASSUME NEW x \in Q
      PROVE  /\ Right(op, x) /\ Chosen(op, x) = << >>
             /\ \A y : Moves(op, x, y) => y \in P
  <2> DEFINE y == WithMaps(x, x.maps \ {m})
  <2>1. ASSUME x \in Mapped(by, b, P)
        PROVE  y \in P
    BY <2>1 DEF Mapped
  <2>2. ASSUME x \in Null(by, P)
        PROVE  y \in P
    <3>1. x \in State /\ x.maps \in SUBSET (Tracer \X Ids) /\ m \notin x.maps /\ x \in P
      BY <1>1, <2>2, StateTyped DEF Null, Apart
    <3>2. x.maps \ {m} = x.maps
      BY <3>1
    <3>3. /\ y \in State /\ y.maps = x.maps
          /\ y.ptr = x.ptr /\ y.holds = x.holds /\ y.open = x.open
          /\ y.sent = x.sent /\ y.hooks = x.hooks
      BY <3>1, <3>2, MapsChanged
    <3>4. y = x
      BY <3>1, <3>3, SameState
    <3> QED
      BY <3>1, <3>4
  <2>3. y \in P
    BY <2>1, <2>2
  <2>4. Right(op, x) /\ Chosen(op, x) = << >>
    BY <1>1 DEF Right, Chosen
  <2>5. \A w : Moves(op, x, w) => w = y
    BY DEF Moves
  <2> QED
    BY <2>3, <2>4, <2>5
<1> HIDE DEF op, Q
<1>3. Triple(Q, <<op>>, P)
  BY <1>1, <1>2, StepRule
<1>4. Triple(P, VA_TRACE_RET, P)
  BY <1>1, NeutralRet DEF Neutral
<1>5. Triple(Q, <<op>> \o VA_TRACE_RET, P)
  BY <1>3, <1>4, ThenRule
<1> QED
  BY <1>5 DEF op, Q, vaUnmapBuffer, Unmap

(* A read through a pointer to a mapped buffer.                            *)
LEMMA ReadRule ==
  ASSUME NEW by \in Reader, NEW P \in SUBSET State,
         \A x \in P : x.ptr[by] # NULL /\ <<by, x.ptr[by].id>> \in x.maps
  PROVE  Triple(P, Reads(by), P)
<1> DEFINE op == [op |-> "read", arg |-> by]
<1>1. ASSUME NEW x \in P
      PROVE  /\ Right(op, x) /\ Chosen(op, x) = << >>
             /\ \A y : Moves(op, x, y) => y \in P
  BY DEF Right, Chosen, Moves, Reader
<1> HIDE DEF op
<1>2. Triple(P, <<op>>, P)
  BY <1>1, StepRule
<1> QED
  BY <1>2 DEF op, Reads, Do

LEMMA ReadMapped ==
  ASSUME NEW by \in Reader, NEW b \in Buffer, NEW P
  PROVE  Triple(Mapped(by, b, P), Reads(by), Mapped(by, b, P))
<1>1. Mapped(by, b, P) \in SUBSET State
  BY DEF Mapped, Ready
<1>2. \A x \in Mapped(by, b, P) :
        x.ptr[by] # NULL /\ <<by, x.ptr[by].id>> \in x.maps
  BY RenderAssumption DEF Mapped
<1> QED
  BY <1>1, <1>2, ReadRule

(* The switch on the pointer.                                              *)
LEMMA IfMappedRule ==
  ASSUME NEW by \in Tracer \ {"surface"}, NEW M \in SUBSET State, NEW N \in SUBSET State,
         \A x \in M : x.ptr[by] \in Buffer, \A x \in N : x.ptr[by] = NULL,
         NEW then, NEW else, NEW Q, Triple(M, then, Q), Triple(N, else, Q)
  PROVE  Triple(M \cup N, IfMapped(by, then, else), Q)
<1> DEFINE op == [op |-> "switch", arg |-> by, of |-> [mapped |-> then, null |-> else]]
<1>1. ASSUME NEW x \in M \cup N
      PROVE  /\ Right(op, x)
             /\ \A y : Moves(op, x, y) => y = x
             /\ Triple({x}, Chosen(op, x), Q)
  <2>1. CASE x \in M
    <3>1. Chosen(op, x) = then
      BY <2>1, RenderAssumption DEF Chosen
    <3>2. Triple({x}, then, Q)
      BY <2>1, ConsequenceRule
    <3> QED
      BY <3>1, <3>2 DEF Right, Moves
  <2>2. CASE x \in N
    <3>1. Chosen(op, x) = else
      BY <2>2 DEF Chosen
    <3>2. Triple({x}, else, Q)
      BY <2>2, ConsequenceRule
    <3> QED
      BY <3>1, <3>2 DEF Right, Moves
  <2> QED
    BY <2>1, <2>2
<1> HIDE DEF op
<1>2. Triple(M \cup N, <<op>>, Q)
  BY <1>1, ChoiceRule
<1> QED
  BY <1>2 DEF op, IfMapped, Switch

(* What one trace function has mapped is no matter to another.             *)
LEMMA ApartMapped ==
  ASSUME NEW by \in Reader, NEW by2 \in Reader \ {by}, NEW b \in Buffer, NEW P,
         Apart(by2, P)
  PROVE  Apart(by2, Mapped(by, b, P))
<1> DEFINE m == <<by, b.id>>
<1>1. ASSUME NEW x \in Mapped(by, b, P), NEW i \in Ids
      PROVE  <<by2, i>> \notin x.maps
  <2> DEFINE y == WithMaps(x, x.maps \ {m})
  <2>1. x \in State /\ y \in P
    BY DEF Mapped, Ready
  <2>2. y.maps = x.maps \ {m}
    BY <2>1, StateTyped, MapsChanged
  <2>3. <<by2, i>> \notin y.maps
    BY <2>1 DEF Apart
  <2> QED
    BY <2>2, <2>3
<1>2. ASSUME NEW x \in Mapped(by, b, P), NEW p \in Buffer \cup {NULL}
      PROVE  WithPtr(x, by2, p) \in Mapped(by, b, P)
  <2> DEFINE M == x.maps \ {m}
             y == WithMaps(x, M)
             z == WithPtr(x, by2, p)
             v == WithMaps(z, z.maps \ {m})
             w == WithPtr(y, by2, p)
  <2>1. /\ x \in State /\ y \in P /\ x.ptr[by] = b /\ m \in x.maps
        /\ "mutex" \notin x.holds /\ M \in SUBSET (Tracer \X Ids)
    <3>1. /\ x \in State /\ y \in P /\ x.ptr[by] = b /\ m \in x.maps
          /\ "mutex" \notin x.holds
      BY DEF Mapped, Ready
    <3> QED
      BY <3>1, StateTyped
  <2> HIDE DEF M, m
  <2>2. /\ y \in State /\ y.maps = M
        /\ y.ptr = x.ptr /\ y.holds = x.holds /\ y.open = x.open
        /\ y.sent = x.sent /\ y.hooks = x.hooks
    BY <2>1, MapsChanged
  <2> HIDE DEF y
  <2>3. /\ w \in State /\ w \in P /\ w.ptr = [y.ptr EXCEPT ![by2] = p]
        /\ w.maps = M /\ w.holds = x.holds /\ w.open = x.open
        /\ w.sent = x.sent /\ w.hooks = x.hooks
    <3>1. by2 \in Reader
      OBVIOUS
    <3>2. w \in P
      BY <2>1 DEF Apart
    <3> QED
      BY <2>2, <3>1, <3>2, ReadersTrace, BufferPtrChanged
  <2>4. /\ z \in State /\ z.ptr = [x.ptr EXCEPT ![by2] = p] /\ z.ptr[by] = x.ptr[by]
        /\ z.maps = x.maps /\ z.holds = x.holds /\ z.open = x.open
        /\ z.sent = x.sent /\ z.hooks = x.hooks
    <3>1. by2 \in Tracer \ {"surface"} /\ by \in Tracer \ {by2}
      BY DEF Reader
    <3> QED
      BY <2>1, <3>1, BufferPtrChanged
  <2> HIDE DEF w, z
  <2>5. /\ v \in State /\ v.ptr = z.ptr
        /\ v.maps = M /\ v.holds = x.holds /\ v.open = x.open
        /\ v.sent = x.sent /\ v.hooks = x.hooks
    BY <2>1, <2>4, MapsChanged DEF M
  <2>6. v = w
    BY <2>2, <2>3, <2>4, <2>5, SameState
  <2>7. z \in Mapped(by, b, P)
    BY <2>1, <2>3, <2>4, <2>6 DEF Mapped, Ready, m
  <2> QED
    BY <2>7 DEF z
<1>3. Mapped(by, b, P) \in SUBSET Ready
  BY DEF Mapped
<1> HIDE DEF m
<1> QED
  BY <1>1, <1>2, <1>3 DEF Apart

-----------------------------------------------------------------------------
(* Scripts glued together: a loop with a condition after each turn.        *)

LEMMA FlattenRule ==
  ASSUME NEW n \in Nat, NEW S, NEW P, S = [i \in 1 .. n |-> S[i]],
         P[0] \in SUBSET State,
         \A i \in 1 .. n : Triple(P[i - 1], S[i], P[i])
  PROVE  Triple(P[0], FlattenSeq(S), P[n])
<1>1. Len(S) = n
  <2>1. S \in Seq({S[i] : i \in 1 .. n})
    OBVIOUS
  <2> QED
    BY <2>1
<1>2. CASE n = 0
  <2>1. S = << >>
    BY <1>2
  <2>2. FlattenSeq(S) = << >>
    BY <1>1, <1>2, <2>1 DEF FlattenSeq
  <2> QED
    BY <1>2, <2>2, NothingRule
<1>3. CASE n # 0
  <2>1. PICK g : /\ FlattenSeq(S) = g[n]
                 /\ g = [i \in 1 .. n |-> IF i = 1 THEN S[i] ELSE g[i-1] \o S[i]]
    BY <1>1, <1>3, FlattenUnfold
  <2>2. \A i \in 1 .. n : g[i] = IF i = 1 THEN S[i] ELSE g[i-1] \o S[i]
    BY <2>1
  <2> DEFINE Bad == {i \in 1 .. n : ~ Triple(P[0], g[i], P[i])}
  <2>3. Bad = {}
    <3>1. SUFFICES ASSUME Bad # {}
                   PROVE  FALSE
      OBVIOUS
    <3>2. Bad \in SUBSET Nat
      OBVIOUS
    <3>3. PICK m \in Bad : \A k \in Bad : m <= k
      BY <3>1, <3>2, MinIsLeast
    <3>4. m \in 1 .. n /\ ~ Triple(P[0], g[m], P[m])
      BY <3>3
    <3>5. m # 1
      <4>1. 1 - 1 = 0
        OBVIOUS
      <4>2. m = 1 => g[m] = S[1] /\ Triple(P[0], S[1], P[1])
        BY <2>2, <3>4, <4>1
      <4> QED
        BY <3>4, <4>2
    <3>6. m - 1 \in 1 .. n /\ ~ (m <= m - 1)
      BY <3>4, <3>5
    <3>7. Triple(P[0], g[m - 1], P[m - 1])
      <4> HIDE DEF Bad
      <4>1. m - 1 \notin Bad
        BY <3>3, <3>6
      <4> QED
        BY <3>6, <4>1 DEF Bad
    <3>8. Triple(P[m - 1], S[m], P[m])
      BY <3>4
    <3>9. g[m] = g[m - 1] \o S[m]
      BY <2>2, <3>4, <3>5
    <3>10. Triple(P[0], g[m - 1] \o S[m], P[m])
      BY <3>7, <3>8, ThenRule
    <3> QED
      BY <3>4, <3>9, <3>10
  <2>4. n \in 1 .. n
    BY <1>3
  <2>5. Triple(P[0], g[n], P[n])
    BY <2>3, <2>4
  <2> QED
    BY <2>1, <2>5
<1> QED
  BY <1>2, <1>3

(* A loop each turn of which keeps a condition.                            *)
LEMMA LoopRule ==
  ASSUME NEW n \in Nat, NEW S, NEW P \in SUBSET State, S = [i \in 1 .. n |-> S[i]],
         \A i \in 1 .. n : Triple(P, S[i], P)
  PROVE  Triple(P, FlattenSeq(S), P)
<1> DEFINE F == [i \in 0 .. n |-> P]
<1>1. F[0] = P /\ F[n] = P /\ \A i \in 1 .. n : F[i - 1] = P /\ F[i] = P
  OBVIOUS
<1> HIDE DEF F
<1>2. \A i \in 1 .. n : Triple(F[i - 1], S[i], F[i])
  BY <1>1
<1>3. Triple(F[0], FlattenSeq(S), F[n])
  BY <1>1, <1>2, FlattenRule
<1> QED
  BY <1>1, <1>3

-----------------------------------------------------------------------------
(* The loop over the filters of a pipeline buffer.                         *)

(* One turn of it, with what comes after it.                               *)
FilterTrace(f, rest) ==
  vaBufferInfo
  \o IF ~f.filter THEN << >>
     ELSE Reset("filter") \o vaMapBuffer("filter", f)
          \o IfMapped("filter",
               Reads("filter") \o vaUnmapBuffer("filter", f) \o rest,
               vaUnmapBuffer("filter", f))

LEMMA FilterRule ==
  ASSUME NEW P, Apart("filter", P), NEW f \in Buffer, NEW rest, Triple(P, rest, P)
  PROVE  Triple(P, FilterTrace(f, rest), P)
<1> DEFINE M == Mapped("filter", f, P)
           N == Null("filter", P)
<1>1. /\ "filter" \in Reader /\ "filter" \in Tracer \ {"surface"}
      /\ P \in SUBSET Ready /\ P \in SUBSET State
      /\ M \in SUBSET State /\ N \in SUBSET State /\ N \subseteq P
      /\ \A x \in M : x.ptr["filter"] \in Buffer
      /\ \A x \in N : x.ptr["filter"] = NULL
  BY DEF Reader, Tracer, Apart, Ready, Mapped, Null
<1>2. Triple(P, vaBufferInfo, P)
  BY <1>1, NeutralBufferInfo DEF Neutral
<1>3. CASE ~f.filter
  <2>1. FilterTrace(f, rest) = vaBufferInfo \o << >>
    BY <1>3 DEF FilterTrace
  <2> QED
    BY <1>1, <1>2, <2>1, NothingRule, ThenRule
<1>4. CASE f.filter
  <2> DEFINE read == Reads("filter")
             unmap == vaUnmapBuffer("filter", f)
             if == IfMapped("filter", read \o unmap \o rest, unmap)
             reset == Reset("filter")
             map == vaMapBuffer("filter", f)
  <2>1. Triple(M \cup N, unmap, P)
    BY <1>1, UnmapRule
  <2>2. Triple(M, unmap, P) /\ Triple(N, unmap, P)
    <3>1. M \subseteq M \cup N /\ N \subseteq M \cup N /\ P \subseteq P
      OBVIOUS
    <3> HIDE DEF M, N, unmap
    <3> QED
      BY <2>1, <3>1, ConsequenceRule
  <2>3. Triple(M, read, M)
    BY <1>1, ReadMapped
  <2>4. Triple(P, reset, N)
    BY <1>1, ResetRule
  <2>5. Triple(N, map, M \cup N)
    BY <1>1, MapRule
  <2>6. FilterTrace(f, rest) = vaBufferInfo \o (reset \o map \o if)
    BY <1>4 DEF FilterTrace
  <2> HIDE DEF read, unmap, reset, map
  <2>7. Triple(M, read \o unmap \o rest, P)
    BY <2>2, <2>3, ThenRule
  <2>8. Triple(M \cup N, if, P)
    BY <1>1, <2>2, <2>7, IfMappedRule
  <2> HIDE DEF if, M, N
  <2>9. Triple(P, reset \o map \o if, P)
    BY <2>4, <2>5, <2>8, ThenRule
  <2> QED
    BY <1>2, <2>6, <2>9, ThenRule
<1> QED
  BY <1>3, <1>4

(* The sets of at most n of the indices in D.                              *)
Few(D, n) == {T \in SUBSET D : IsFiniteSet(T) /\ Cardinality(T) <= n}

Folded(s, D, g) ==
  g = [T \in D |-> IF T = {} THEN << >>
                   ELSE FilterTrace(s[Min(T)], g[T \ {Min(T)}])]

(* The recursive function that the fold over the filters chooses exists.   *)
LEMMA FoldDefined ==
  ASSUME NEW s, NEW D \in SUBSET Nat, IsFiniteSet(D)
  PROVE  \E g : Folded(s, SUBSET D, g)
<1> DEFINE Bad == {n \in Nat : ~ \E g : Folded(s, Few(D, n), g)}
<1>1. Bad = {}
  <2>1. SUFFICES ASSUME Bad # {}
                 PROVE  FALSE
    OBVIOUS
  <2>2. PICK n \in Bad : \A m \in Bad : n <= m
    BY <2>1, MinIsLeast
  <2>3. n # 0
    <3>1. \A T \in Few(D, 0) : T = {}
      BY FS_EmptySet, FS_CardinalityType DEF Few
    <3>2. Folded(s, Few(D, 0), [T \in Few(D, 0) |-> << >>])
      BY <3>1 DEF Folded
    <3> QED
      BY <3>2
  <2>4. PICK g : Folded(s, Few(D, n - 1), g)
    <3>1. n - 1 \in Nat /\ ~ (n <= n - 1)
      BY <2>3
    <3> QED
      BY <2>2, <3>1
  <2> DEFINE Turn(T, h) == IF T = {} THEN << >>
                           ELSE FilterTrace(s[Min(T)], h[T \ {Min(T)}])
             h == [T \in Few(D, n) |-> Turn(T, g)]
  <2>5. ASSUME NEW T \in Few(D, n), T # {}
        PROVE  h[T \ {Min(T)}] = g[T \ {Min(T)}]
    <3>1. Min(T) \in T
      BY <2>5, MinIsLeast DEF Few
    <3>2. IsFiniteSet(T) /\ Cardinality(T) \in Nat /\ Cardinality(T) <= n
      BY FS_CardinalityType DEF Few
    <3> DEFINE U == T \ {Min(T)}
    <3>3. IsFiniteSet(U) /\ Cardinality(U) = Cardinality(T) - 1
      BY <3>1, <3>2, FS_RemoveElement
    <3>4. U \in Few(D, n - 1) /\ U \in Few(D, n)
      <4>1. n \in Nat /\ U \in SUBSET D
        BY DEF Few
      <4>2. Cardinality(U) <= n - 1 /\ Cardinality(U) <= n
        BY <3>2, <3>3, <4>1
      <4> HIDE DEF U
      <4> QED
        BY <3>3, <4>1, <4>2 DEF Few
    <3> HIDE DEF U
    <3>5. h[U] = Turn(U, g)
      BY <3>4
    <3>6. g[U] = Turn(U, g)
      BY <2>4, <3>4 DEF Folded
    <3> QED
      BY <3>5, <3>6 DEF U
  <2>6. Folded(s, Few(D, n), h)
    <3>1. ASSUME NEW T \in Few(D, n)
          PROVE  h[T] = Turn(T, h)
      <4>1. h[T] = Turn(T, g)
        OBVIOUS
      <4> HIDE DEF h
      <4> QED
        BY <2>5, <4>1
    <3>2. h = [T \in Few(D, n) |-> h[T]]
      OBVIOUS
    <3> HIDE DEF h
    <3>3. h = [T \in Few(D, n) |-> Turn(T, h)]
      BY <3>1, <3>2
    <3> QED
      BY <3>3 DEF Folded
  <2> QED
    BY <2>2, <2>6
<1>2. Few(D, Cardinality(D)) = SUBSET D /\ Cardinality(D) \in Nat
  BY FS_Subset, FS_CardinalityType DEF Few
<1>3. Cardinality(D) \notin Bad
  BY <1>1
<1> QED
  BY <1>2, <1>3

(* However many filters there are, and whichever cannot be mapped.         *)
LEMMA FiltersRule ==
  ASSUME NEW P, Apart("filter", P), NEW filters \in Seq(Buffer)
  PROVE  Triple(P, va_TraceProcFilterParameterBuffer(filters), P)
<1> DEFINE D == DOMAIN filters
<1>1. D \in SUBSET Nat /\ IsFiniteSet(D) /\ \A i \in D : filters[i] \in Buffer
  <2>1. D = 1 .. Len(filters) /\ Len(filters) \in Nat
    OBVIOUS
  <2> QED
    BY <2>1, FS_Interval
<1> DEFINE g == CHOOSE g : Folded(filters, SUBSET D, g)
<1>2. Folded(filters, SUBSET D, g) /\ va_TraceProcFilterParameterBuffer(filters) = g[D]
  <2>1. Folded(filters, SUBSET D, g)
    BY <1>1, FoldDefined
  <2>2. va_TraceProcFilterParameterBuffer(filters) = g[D]
    BY DEF Folded, FilterTrace, va_TraceProcFilterParameterBuffer, FoldRight,
           MapThenFoldSet
  <2> QED
    BY <2>1, <2>2
<1> HIDE DEF g
<1> HIDE DEF D
<1>3. \A T \in SUBSET D : g[T] = IF T = {} THEN << >>
                                 ELSE FilterTrace(filters[Min(T)], g[T \ {Min(T)}])
  BY <1>2 DEF Folded
<1> DEFINE Kept(T) == Triple(P, g[T], P)
           Bad == {n \in Nat : \E T \in SUBSET D : Cardinality(T) = n /\ ~Kept(T)}
<1>4. Bad = {}
  <2>1. SUFFICES ASSUME Bad # {}
                 PROVE  FALSE
    OBVIOUS
  <2>2. PICK n \in Bad : \A m \in Bad : n <= m
    BY <2>1, MinIsLeast
  <2>3. PICK T \in SUBSET D : Cardinality(T) = n /\ ~Kept(T)
    BY <2>2
  <2>4. T # {}
    <3>1. {} \in SUBSET D /\ P \in SUBSET State
      BY DEF Apart, Ready
    <3>2. g[{}] = << >>
      BY <1>3, <3>1
    <3>3. Kept({})
      BY <3>1, <3>2, NothingRule
    <3> QED
      BY <2>3, <3>3
  <2>5. T \in SUBSET Nat
    BY <1>1
  <2>6. Min(T) \in T
    BY <2>4, <2>5, MinIsLeast
  <2> DEFINE U == T \ {Min(T)}
  <2>7. IsFiniteSet(T) /\ IsFiniteSet(U) /\ Cardinality(U) = n - 1 /\ U \in SUBSET D
    BY <1>1, <2>3, <2>6, FS_RemoveElement, FS_Subset
  <2>8. n - 1 \in Nat /\ ~ (n <= n - 1)
    BY <2>2, <2>7, FS_CardinalityType
  <2>9. Kept(U)
    <3> HIDE DEF U, Kept
    <3>1. n - 1 \notin Bad
      BY <2>2, <2>8
    <3> QED
      BY <2>7, <2>8, <3>1
  <2>10. filters[Min(T)] \in Buffer
    BY <1>1, <2>6
  <2>11. g[T] = FilterTrace(filters[Min(T)], g[U])
    BY <1>3, <2>4
  <2> HIDE DEF U
  <2>12. Kept(T)
    BY <2>9, <2>10, <2>11, FilterRule
  <2> QED
    BY <2>3, <2>12
<1>5. Cardinality(D) \in Nat /\ D \in SUBSET D
  BY <1>1, FS_CardinalityType
<1>6. Kept(D)
  <2> HIDE DEF Kept
  <2> QED
    BY <1>4, <1>5
<1> QED
  BY <1>2, <1>6

-----------------------------------------------------------------------------
(* Scripts that a call is made of: from a state in which nothing is held   *)
(* and nothing mapped but by the trace of events, to such a state again.   *)

Base(o) ==
  {x \in State : /\ x.holds = {}
                 /\ x.open = o
                 /\ \A m \in x.maps : m[1] = "event"}

Steady(s) == \A o \in Seq(Event) : Triple(Base(o), s, Base(o))

LEMMA BaseReady ==
  ASSUME NEW o
  PROVE  Base(o) \in SUBSET Ready /\ Base(o) \in SUBSET State
  BY DEF Base, Ready

LEMMA BaseApart ==
  ASSUME NEW o, NEW by \in Reader
  PROVE  Apart(by, Base(o))
<1>1. ASSUME NEW x \in Base(o), NEW i \in Ids
      PROVE  <<by, i>> \notin x.maps
  <2>1. by # "event"
    BY ReadersTrace
  <2>2. \A m \in x.maps : m[1] = "event"
    BY DEF Base
  <2>3. <<by, i>>[1] = by
    OBVIOUS
  <2> QED
    BY <2>1, <2>2, <2>3
<1>2. ASSUME NEW x \in Base(o), NEW p \in Buffer \cup {NULL}
      PROVE  WithPtr(x, by, p) \in Base(o)
  <2>1. x \in State /\ by \in Tracer \ {"surface"}
    BY ReadersTrace DEF Base
  <2> DEFINE y == WithPtr(x, by, p)
  <2>2. y \in State /\ y.maps = x.maps /\ y.holds = x.holds /\ y.open = x.open
    BY <2>1, BufferPtrChanged
  <2> HIDE DEF y
  <2>3. y \in Base(o)
    BY <2>2 DEF Base
  <2> QED
    BY <2>3 DEF y
<1> QED
  BY <1>1, <1>2, BaseReady DEF Apart

LEMMA SteadyNeutral ==
  ASSUME NEW s, Neutral(s)
  PROVE  Steady(s)
  BY BaseReady DEF Neutral, Steady

LEMMA SteadyNothing == Steady(<< >>)
  BY NeutralNothing, SteadyNeutral

LEMMA SteadyThen ==
  ASSUME NEW s, NEW u, Steady(s), Steady(u)
  PROVE  Steady(s \o u)
<1> SUFFICES ASSUME NEW o \in Seq(Event)
             PROVE  Triple(Base(o), s \o u, Base(o))
  BY DEF Steady
<1>1. Triple(Base(o), s, Base(o)) /\ Triple(Base(o), u, Base(o))
  BY DEF Steady
<1> QED
  BY <1>1, ThenRule

-----------------------------------------------------------------------------
(* The trace of vaRenderPicture.                                           *)

LEMMA TraceBufferRule ==
  ASSUME NEW P, Apart("render", P), Apart("filter", P), NEW b \in Buffer
  PROVE  Triple(P, TraceBuffer(b), P)
<1> DEFINE M == Mapped("render", b, P)
           N == Null("render", P)
<1>1. /\ "render" \in Reader /\ "render" \in Tracer \ {"surface"}
      /\ "filter" \in Reader \ {"render"} /\ b.filters \in Seq(Buffer)
      /\ N \in SUBSET Ready /\ M \in SUBSET State /\ N \in SUBSET State /\ N \subseteq P
      /\ \A x \in M : x.ptr["render"] \in Buffer
      /\ \A x \in N : x.ptr["render"] = NULL
  BY RenderAssumption DEF Reader, Tracer, Apart, Ready, Mapped, Null
<1>2. Triple(N, vaBufferInfo, N)
  BY <1>1, NeutralBufferInfo DEF Neutral
<1> DEFINE read == Reads("render")
           filters == va_TraceProcFilterParameterBuffer(b.filters)
           unmap == vaUnmapBuffer("render", b)
           if == IfMapped("render", read \o filters \o read \o unmap, << >>)
           reset == Reset("render")
           map == vaMapBuffer("render", b)
<1>3. Triple(M, read, M)
  BY <1>1, ReadMapped
<1>4. Triple(M, filters, M)
  <2>1. Apart("filter", M)
    BY <1>1, ApartMapped
  <2> HIDE DEF M
  <2> QED
    BY <1>1, <2>1, FiltersRule
<1>5. Triple(M \cup N, unmap, P)
  BY <1>1, UnmapRule
<1>6. Triple(M, unmap, P)
  <2>1. M \subseteq M \cup N /\ P \subseteq P
    OBVIOUS
  <2> HIDE DEF M, N, unmap
  <2> QED
    BY <1>5, <2>1, ConsequenceRule
<1>7. Triple(P, reset, N)
  BY <1>1, ResetRule
<1>8. Triple(N, map, M \cup N)
  BY <1>1, MapRule
<1>9. Triple(N, << >>, P)
  <2>1. N \subseteq P /\ N \subseteq N
    BY <1>1
  <2>2. Triple(N, << >>, N)
    BY <1>1, NothingRule
  <2> HIDE DEF N
  <2> QED
    BY <2>1, <2>2, ConsequenceRule
<1>10. TraceBuffer(b) = reset \o vaBufferInfo \o map \o if
  BY DEF TraceBuffer
<1> HIDE DEF read, filters, unmap, reset, map
<1>11. Triple(M, read \o filters \o read \o unmap, P)
  BY <1>3, <1>4, <1>6, ThenRule
<1>12. Triple(M \cup N, if, P)
  BY <1>1, <1>9, <1>11, IfMappedRule
<1> HIDE DEF if, M, N
<1>13. Triple(P, reset \o vaBufferInfo \o map \o if, P)
  BY <1>2, <1>7, <1>8, <1>12, ThenRule
<1> QED
  BY <1>10, <1>13

LEMMA RenderSteady ==
  ASSUME NEW buffers \in Seq(Buffer)
  PROVE  Steady(va_TraceRenderPicture(buffers))
<1> SUFFICES ASSUME NEW o \in Seq(Event)
             PROVE  Triple(Base(o), va_TraceRenderPicture(buffers), Base(o))
  BY DEF Steady
<1> DEFINE n == Len(buffers)
           S == [i \in 1 .. n |-> TraceBuffer(buffers[i])]
<1>1. n \in Nat /\ \A i \in 1 .. n : buffers[i] \in Buffer
  OBVIOUS
<1>2. Apart("render", Base(o)) /\ Apart("filter", Base(o)) /\ Base(o) \in SUBSET State
  BY BaseApart, BaseReady DEF Reader, Tracer
<1>3. \A i \in 1 .. n : Triple(Base(o), S[i], Base(o))
  BY <1>1, <1>2, TraceBufferRule
<1>4. va_TraceRenderPicture(buffers) = FlattenSeq(S)
  BY DEF va_TraceRenderPicture
<1>5. S = [i \in 1 .. n |-> S[i]]
  OBVIOUS
<1> HIDE DEF S, n
<1> QED
  BY <1>1, <1>2, <1>3, <1>4, <1>5, LoopRule

-----------------------------------------------------------------------------
(* The trace of vaProtectedSessionExecute, which holds the mutex while it  *)
(* reads the buffer.                                                       *)

(* A read under the mutex.                                                 *)
LEMMA LockedMapped ==
  ASSUME NEW by \in Reader, NEW b \in Buffer, NEW P, Apart(by, P)
  PROVE  /\ Locked(Mapped(by, b, P) \cup Null(by, P))
              \subseteq Locked(Mapped(by, b, P)) \cup Locked(Null(by, P))
         /\ Locked(Mapped(by, b, P)) \in SUBSET State
         /\ Locked(Null(by, P)) \in SUBSET State
         /\ \A x \in Locked(Mapped(by, b, P)) :
              x.ptr[by] = b /\ <<by, b.id>> \in x.maps
         /\ \A x \in Locked(Null(by, P)) : x.ptr[by] = NULL
<1>1. ASSUME NEW x \in State
      PROVE  LET y == WithHolds(x, x.holds \ {"mutex"})
             IN  y.ptr = x.ptr /\ y.maps = x.maps
  <2>1. x.holds \ {"mutex"} \in SUBSET {"mutex", "surface"}
    BY StateTyped
  <2> QED
    BY <2>1, HoldsChanged
<1> QED
  BY <1>1 DEF Locked, Mapped, Null

LEMMA ExecuteSteady ==
  ASSUME NEW b \in Buffer
  PROVE  Steady(va_TraceProtectedSessionExecute(b))
<1> SUFFICES ASSUME NEW o \in Seq(Event)
             PROVE  Triple(Base(o), va_TraceProtectedSessionExecute(b), Base(o))
  BY DEF Steady
<1> DEFINE P == Base(o)
           M == Mapped("execute", b, P)
           N == Null("execute", P)
           ML == Locked(M)
           NL == Locked(N)
           B == Locked(M \cup N)
<1>1. /\ "execute" \in Reader /\ "execute" \in Tracer \ {"surface"}
      /\ Apart("execute", P)
  BY BaseApart DEF Reader, Tracer
<1>2. /\ P \in SUBSET Ready /\ N \in SUBSET Ready /\ M \in SUBSET Ready
      /\ M \cup N \in SUBSET Ready /\ M \cup N \in SUBSET State
      /\ N \in SUBSET State /\ N \subseteq M \cup N
  BY BaseReady DEF Ready, Mapped, Null
<1>3. /\ B \subseteq ML \cup NL /\ ML \in SUBSET State /\ NL \in SUBSET State
      /\ \A x \in ML : x.ptr["execute"] = b /\ <<"execute", b.id>> \in x.maps
      /\ \A x \in NL : x.ptr["execute"] = NULL
  BY <1>1, LockedMapped
<1>4. ML \subseteq B /\ NL \subseteq B /\ B \in SUBSET State
  BY DEF Locked
<1>5. Triple(N, vaBufferInfo, N)
  BY <1>2, NeutralBufferInfo DEF Neutral
<1> DEFINE map == IF b.execute THEN vaMapBuffer("execute", b) ELSE << >>
           lock == Do("lock", "")
           read == Reads("execute")
           if == IfMapped("execute", read, << >>)
           unlock == Do("unlock", "")
           unmap == vaUnmapBuffer("execute", b)
           reset == Reset("execute")
<1>6. Triple(P, reset, N)
  BY <1>1, ResetRule
<1>7. Triple(N, map, M \cup N)
  <2>1. Triple(N, vaMapBuffer("execute", b), M \cup N)
    BY <1>1, MapRule
  <2>2. Triple(N, << >>, M \cup N)
    <3>1. Triple(N, << >>, N) /\ N \subseteq N
      BY <1>2, NothingRule
    <3> HIDE DEF M, N
    <3> QED
      BY <1>2, <3>1, ConsequenceRule
  <2> HIDE DEF M, N
  <2> QED
    BY <2>1, <2>2
<1>8. Triple(M \cup N, lock, B) /\ Triple(B, unlock, M \cup N)
  BY <1>2, LockRule, UnlockRule
<1>9. Triple(M \cup N, unmap, P)
  BY <1>1, UnmapRule
<1>10. va_TraceProtectedSessionExecute(b)
         = reset \o vaBufferInfo \o map \o lock \o if \o unlock \o unmap
  BY DEF va_TraceProtectedSessionExecute
<1>11. Triple(ML, read, B)
  <2>1. \A x \in ML : x.ptr["execute"] # NULL
                      /\ <<"execute", x.ptr["execute"].id>> \in x.maps
    BY <1>3, RenderAssumption
  <2> HIDE DEF ML, B
  <2>2. Triple(ML, read, ML)
    BY <1>1, <1>3, <2>1, ReadRule
  <2>3. ML \subseteq ML
    OBVIOUS
  <2> QED
    BY <1>4, <2>2, <2>3, ConsequenceRule
<1>12. Triple(NL, << >>, B)
  <2> HIDE DEF NL, B
  <2>1. Triple(NL, << >>, NL) /\ NL \subseteq NL
    BY <1>3, NothingRule
  <2> QED
    BY <1>4, <2>1, ConsequenceRule
<1> HIDE DEF map, lock, read, unlock, unmap, reset
<1> HIDE DEF M, N, ML, NL, B, P
<1>13. Triple(B, if, B)
  <2>1. \A x \in ML : x.ptr["execute"] \in Buffer
    BY <1>3
  <2>2. Triple(ML \cup NL, if, B)
    BY <1>1, <1>3, <1>11, <1>12, <2>1, IfMappedRule
  <2>3. B \subseteq B
    OBVIOUS
  <2> HIDE DEF if
  <2> QED
    BY <1>3, <2>2, <2>3, ConsequenceRule
<1> HIDE DEF if
<1>14. Triple(P, reset \o vaBufferInfo \o map \o lock \o if \o unlock \o unmap, P)
  BY <1>5, <1>6, <1>7, <1>8, <1>9, <1>13, ThenRule
<1> QED
  BY <1>10, <1>14 DEF P

-----------------------------------------------------------------------------
(* The dump of a surface, and the calls that end a picture.                *)

(* A surface that is locked, with its data or without.                     *)
SurfaceLocked(o) ==
  {x \in Ready : /\ x.ptr["surface"] \in {NULL, PIXELS}
                 /\ WithHolds(x, x.holds \ {"surface"}) \in Base(o)}

SurfaceFailed(o) == {x \in Base(o) : x.ptr["surface"] = FAILED}

LEMMA LockSurfaceRule ==
  ASSUME NEW o \in Seq(Event)
  PROVE  Triple(Base(o), Do("lockSurface", "surface"),
                SurfaceLocked(o) \cup SurfaceFailed(o))
<1> DEFINE op == [op |-> "lockSurface", arg |-> "surface"]
           Q == SurfaceLocked(o) \cup SurfaceFailed(o)
<1>1. Base(o) \in SUBSET State /\ Q \in SUBSET State /\ "surface" \in Tracer
  BY DEF Base, Ready, SurfaceLocked, SurfaceFailed, Tracer
<1>2. ASSUME NEW x \in Base(o)
      PROVE  /\ Right(op, x) /\ Chosen(op, x) = << >>
             /\ \A y : Moves(op, x, y) => y \in Q
  <2>1. x \in State /\ x.holds = {} /\ x.open = o /\ \A m \in x.maps : m[1] = "event"
    BY DEF Base
  <2>2. ASSUME NEW d \in {NULL, PIXELS}
        PROVE  WithHolds(WithPtr(x, "surface", d), x.holds \cup {"surface"}) \in Q
    <3> DEFINE y == WithPtr(x, "surface", d)
               H == x.holds \cup {"surface"}
               z == WithHolds(y, H)
               K == z.holds \ {"surface"}
               w == WithHolds(z, K)
    <3>1. /\ y \in State /\ y.ptr["surface"] = d /\ y.maps = x.maps
          /\ y.holds = x.holds /\ y.open = x.open
      BY <2>1, SurfacePtrChanged
    <3>2. H = {"surface"} /\ H \in SUBSET {"mutex", "surface"}
      BY <2>1
    <3> HIDE DEF y
    <3>3. WithHolds(y, H) = z
      OBVIOUS
    <3> HIDE DEF H, z
    <3>4. /\ z \in State /\ z.ptr = y.ptr /\ z.maps = y.maps
          /\ z.holds = H /\ z.open = y.open
      BY <3>1, <3>2, <3>3, HoldsChanged
    <3>5. K = {} /\ K \in SUBSET {"mutex", "surface"}
      BY <3>2, <3>4
    <3>6. WithHolds(z, K) = w
      OBVIOUS
    <3> HIDE DEF K, w
    <3>7. /\ w \in State /\ w.ptr = z.ptr /\ w.maps = z.maps
          /\ w.holds = K /\ w.open = z.open
      BY <3>4, <3>5, <3>6, HoldsChanged
    <3>8. w \in Base(o)
      BY <2>1, <3>1, <3>4, <3>5, <3>7 DEF Base
    <3>9. WithHolds(z, z.holds \ {"surface"}) \in Base(o)
      BY <3>8 DEF w, K
    <3>10. z.ptr["surface"] \in {NULL, PIXELS} /\ "mutex" \notin z.holds
      BY <3>1, <3>2, <3>4
    <3>11. z \in SurfaceLocked(o)
      BY <3>4, <3>9, <3>10 DEF SurfaceLocked, Ready
    <3> QED
      BY <3>11 DEF z, y, H
  <2>3. WithPtr(x, "surface", FAILED) \in Q
    <3> DEFINE y == WithPtr(x, "surface", FAILED)
    <3>1. /\ y \in State /\ y.ptr["surface"] = FAILED /\ y.maps = x.maps
          /\ y.holds = x.holds /\ y.open = x.open
      BY <2>1, SurfacePtrChanged
    <3> HIDE DEF y
    <3>2. y \in SurfaceFailed(o)
      BY <2>1, <3>1 DEF SurfaceFailed, Base
    <3> QED
      BY <3>2 DEF y
  <2>4. Right(op, x) /\ Chosen(op, x) = << >>
    BY DEF Right, Chosen
  <2>5. \A v : Moves(op, x, v) =>
          \/ v = WithPtr(x, "surface", FAILED)
          \/ \E d \in {NULL, PIXELS} :
               v = WithHolds(WithPtr(x, "surface", d), x.holds \cup {"surface"})
    BY DEF Moves
  <2> HIDE DEF op, Q
  <2> QED
    BY <2>2, <2>3, <2>4, <2>5
<1> HIDE DEF op
<1>3. Triple(Base(o), <<op>>, Q)
  BY <1>1, <1>2, StepRule
<1> QED
  BY <1>3 DEF op, Do

LEMMA UnlockSurfaceRule ==
  ASSUME NEW o \in Seq(Event)
  PROVE  Triple(SurfaceLocked(o), UnlockSurface \o VA_TRACE_RET, Base(o))
<1> DEFINE op == [op |-> "unlockSurface", arg |-> "surface"]
<1>1. Base(o) \in SUBSET State /\ SurfaceLocked(o) \in SUBSET State
  BY DEF Base, Ready, SurfaceLocked
<1>2. ASSUME NEW x \in SurfaceLocked(o)
      PROVE  /\ Right(op, x) /\ Chosen(op, x) = << >>
             /\ \A y : Moves(op, x, y) => y \in Base(o)
  BY DEF Right, Chosen, Moves, SurfaceLocked
<1> HIDE DEF op
<1>3. Triple(SurfaceLocked(o), <<op>>, Base(o))
  BY <1>1, <1>2, StepRule
<1>4. Triple(Base(o), VA_TRACE_RET, Base(o))
  BY BaseReady, NeutralRet DEF Neutral
<1>5. Triple(SurfaceLocked(o), Hook("UnlockSurface"), SurfaceLocked(o))
  <2>1. "UnlockSurface" \in Untested
    BY DEF Untested, Unchecked
  <2>2. SurfaceLocked(o) \in SUBSET Ready
    BY DEF SurfaceLocked
  <2> QED
    BY <2>1, <2>2, NeutralHook DEF Neutral
<1>6. Triple(SurfaceLocked(o), (Hook("UnlockSurface") \o <<op>>) \o VA_TRACE_RET, Base(o))
  BY <1>3, <1>4, <1>5, ThenRule
<1> QED
  BY <1>6 DEF op, UnlockSurface, Do

LEMMA ReadSurfaceRule ==
  ASSUME NEW P \in SUBSET State
  PROVE  Triple(P, Reads("surface"), P)
<1> DEFINE op == [op |-> "read", arg |-> "surface"]
<1>1. ASSUME NEW x \in P
      PROVE  /\ Right(op, x) /\ Chosen(op, x) = << >>
             /\ \A y : Moves(op, x, y) => y \in P
  BY DEF Right, Chosen, Moves, Tracer
<1> HIDE DEF op
<1>2. Triple(P, <<op>>, P)
  BY <1>1, StepRule
<1> QED
  BY <1>2 DEF op, Reads, Do

(* A surface that is locked is unlocked, whether it gave data or not, and  *)
(* one that could not be locked is not.                                    *)
LEMMA SurfaceSteady ==
  ASSUME NEW has_file
  PROVE  Steady(va_TraceSurface(has_file))
<1>1. CASE ~has_file
  BY <1>1, SteadyNothing DEF va_TraceSurface
<1>2. CASE has_file
  <2> SUFFICES ASSUME NEW o \in Seq(Event)
               PROVE  Triple(Base(o), va_TraceSurface(has_file), Base(o))
    BY DEF Steady
  <2> DEFINE L == SurfaceLocked(o)
             F == SurfaceFailed(o)
             unlock == UnlockSurface \o VA_TRACE_RET
             read == Reads("surface") \o UnlockSurface \o VA_TRACE_RET
             of == [mapped |-> read, null |-> unlock, failed |-> << >>]
             op == [op |-> "switch", arg |-> "surface", of |-> of]
  <2>1. L \in SUBSET State /\ F \in SUBSET State /\ F \subseteq Base(o)
        /\ L \cup F \in SUBSET Ready /\ L \cup F \in SUBSET State
    BY BaseReady DEF SurfaceLocked, SurfaceFailed, Ready
  <2>2. Triple(L, unlock, Base(o))
    BY UnlockSurfaceRule
  <2>3. Triple(L, read, Base(o))
    <3>1. Triple(L, Reads("surface"), L)
      BY <2>1, ReadSurfaceRule
    <3> DEFINE rest == UnlockSurface \o VA_TRACE_RET
               r == Reads("surface")
    <3>2. IsScript(UnlockSurface) /\ IsScript(VA_TRACE_RET) /\ IsScript(r)
      <4>1. /\ UnlockSurface = Hook("UnlockSurface") \o Do("unlockSurface", "surface")
            /\ IsScript(Hook("UnlockSurface")) /\ IsScript(Do("unlockSurface", "surface"))
        BY ScriptOfOne DEF UnlockSurface, Hook, Do
      <4>2. Neutral(VA_TRACE_RET) /\ {} \in SUBSET Ready
        BY NeutralRet
      <4> QED
        BY <3>1, <4>1, <4>2, ScriptsConcat DEF Neutral, Triple
    <3>3. read = r \o rest
      BY <3>2, ScriptsAssociative
    <3>4. Triple(L, r \o rest, Base(o))
      BY <2>2, <3>1, ThenRule
    <3> QED
      BY <3>3, <3>4
  <2>4. Triple(F, << >>, Base(o))
    <3> HIDE DEF F
    <3>1. Triple(F, << >>, F) /\ F \subseteq F
      BY <2>1, NothingRule
    <3> QED
      BY <2>1, <3>1, ConsequenceRule
  <2>5. ASSUME NEW x \in L \cup F
        PROVE  /\ Right(op, x)
               /\ \A y : Moves(op, x, y) => y = x
               /\ Triple({x}, Chosen(op, x), Base(o))
    <3>1. Right(op, x) /\ \A y : Moves(op, x, y) => y = x
      BY DEF Right, Moves
    <3>2. CASE x \in L
      <4>1. Chosen(op, x) \in {read, unlock}
        BY <3>2, RenderAssumption DEF Chosen, SurfaceLocked
      <4>2. {x} \subseteq L /\ Base(o) \subseteq Base(o)
        BY <3>2
      <4> HIDE DEF read, unlock, op, L
      <4> QED
        BY <2>2, <2>3, <3>1, <4>1, <4>2, ConsequenceRule
    <3>3. CASE x \in F
      <4>1. Chosen(op, x) = << >>
        BY <3>3, RenderAssumption DEF Chosen, SurfaceFailed
      <4>2. {x} \subseteq F /\ Base(o) \subseteq Base(o)
        BY <3>3
      <4> HIDE DEF op, F
      <4> QED
        BY <2>4, <3>1, <4>1, <4>2, ConsequenceRule
    <3> QED
      BY <3>2, <3>3
  <2>6. Triple(L \cup F, <<op>>, Base(o))
    <3> HIDE DEF op, L, F
    <3> QED
      BY <2>1, <2>5, ChoiceRule
  <2>7. Triple(Base(o), LockSurface, L \cup F)
    <3>1. "LockSurface" \in Untested
      BY DEF Untested, Unchecked
    <3>2. Triple(Base(o), Hook("LockSurface"), Base(o))
      BY <3>1, BaseReady, NeutralHook DEF Neutral
    <3>3. Triple(Base(o), Do("lockSurface", "surface"), L \cup F)
      BY LockSurfaceRule
    <3> HIDE DEF L, F
    <3> QED
      BY <3>2, <3>3, ThenRule DEF LockSurface
  <2>8. Triple(L \cup F, VA_TRACE_RET, L \cup F)
    BY <2>1, NeutralRet DEF Neutral
  <2>9. va_TraceSurface(has_file) = LockSurface \o VA_TRACE_RET \o <<op>>
    BY <1>2 DEF va_TraceSurface, Switch
  <2> HIDE DEF op, L, F
  <2>10. Triple(Base(o), LockSurface \o VA_TRACE_RET \o <<op>>, Base(o))
    BY <2>6, <2>7, <2>8, ThenRule
  <2> QED
    BY <2>9, <2>10
<1> QED
  BY <1>1, <1>2

-----------------------------------------------------------------------------
(* Events that begin and end.                                              *)

(* The events open after it begins.                                       *)
Opened(o, id) == IF FTRACE THEN Append(o, id) ELSE o

LEMMA OpenedTyped ==
  ASSUME NEW o \in Seq(Event), NEW id \in Event
  PROVE  /\ Opened(o, id) \in Seq(Event)
         /\ FTRACE => /\ Opened(o, id) # << >>
                      /\ Last(Opened(o, id)) = id /\ Front(Opened(o, id)) = o
<1> DEFINE a == Append(o, id)
<1>1. /\ a \in Seq(Event) /\ Len(a) = Len(o) + 1 /\ Len(o) \in Nat
      /\ a[Len(o) + 1] = id /\ \A i \in 1 .. Len(o) : a[i] = o[i]
  BY AppendProperties
<1>2. a # << >>
  BY <1>1
<1>3. Last(a) = id
  BY <1>1 DEF Last
<1>4. Front(a) = o
  <2>1. Front(a) = SubSeq(a, 1, Len(o))
    BY <1>1 DEF Front
  <2>2. SubSeq(a, 1, Len(o)) = [i \in 1 .. Len(o) |-> a[i]]
    BY <1>1
  <2>3. o = [i \in 1 .. Len(o) |-> o[i]]
    OBVIOUS
  <2> HIDE DEF a
  <2> QED
    BY <1>1, <2>1, <2>2, <2>3
<1> QED
  BY <1>1, <1>2, <1>3, <1>4 DEF Opened

LEMMA BeginRule ==
  ASSUME NEW o \in Seq(Event), NEW id \in Event, NEW n,
         NEW P \in SUBSET State, NEW Q \in SUBSET State,
         \A x \in P : x.open = o /\ WithOpen(x, Opened(o, id)) \in Q
  PROVE  Triple(P, TraceEvent("begin", id, n), Q)
<1>1. CASE FTRACE
  <2> DEFINE op == [op |-> "begin", arg |-> id, bytes |-> n]
  <2>1. ASSUME NEW x \in P
        PROVE  /\ Right(op, x) /\ Chosen(op, x) = << >>
               /\ \A y : Moves(op, x, y) => y \in Q
    BY <1>1 DEF Right, Chosen, Moves, Opened
  <2> HIDE DEF op
  <2>2. Triple(P, <<op>>, Q)
    BY <2>1, StepRule
  <2> QED
    BY <1>1, <2>2 DEF op, TraceEvent
<1>2. CASE ~FTRACE
  <2>1. ASSUME NEW x \in P
        PROVE  x \in Q
    <3> DEFINE y == WithOpen(x, o)
    <3>1. y \in Q /\ x \in State /\ x.open = o
      BY <1>2 DEF Opened
    <3>2. /\ y \in State /\ y.open = x.open
          /\ y.ptr = x.ptr /\ y.maps = x.maps /\ y.holds = x.holds
          /\ y.sent = x.sent /\ y.hooks = x.hooks
      BY <3>1, OpenChanged
    <3>3. y = x
      BY <3>1, <3>2, SameState
    <3> QED
      BY <3>1, <3>3
  <2>2. Triple(P, << >>, P) /\ P \subseteq P /\ P \subseteq Q
    BY <2>1, NothingRule
  <2>3. Triple(P, << >>, Q)
    BY <2>2, ConsequenceRule
  <2> QED
    BY <1>2, <2>3 DEF TraceEvent
<1> QED
  BY <1>1, <1>2

LEMMA EndRule ==
  ASSUME NEW o \in Seq(Event), NEW id \in Event, NEW n,
         NEW P \in SUBSET State, NEW Q \in SUBSET State,
         \A x \in P : x.open = Opened(o, id) /\ WithOpen(x, o) \in Q
  PROVE  Triple(P, TraceEvent("end", id, n), Q)
<1>1. CASE FTRACE
  <2> DEFINE op == [op |-> "end", arg |-> id, bytes |-> n]
  <2>1. ASSUME NEW x \in P
        PROVE  /\ Right(op, x) /\ Chosen(op, x) = << >>
               /\ \A y : Moves(op, x, y) => y \in Q
    <3>1. x.open # << >> /\ Last(x.open) = id /\ Front(x.open) = o
      BY <1>1, OpenedTyped
    <3> QED
      BY <3>1 DEF Right, Chosen, Moves
  <2> HIDE DEF op
  <2>2. Triple(P, <<op>>, Q)
    BY <2>1, StepRule
  <2> QED
    BY <1>1, <2>2 DEF op, TraceEvent
<1>2. CASE ~FTRACE
  <2>1. ASSUME NEW x \in P
        PROVE  x \in Q
    <3> DEFINE y == WithOpen(x, o)
    <3>1. y \in Q /\ x \in State /\ x.open = o
      BY <1>2 DEF Opened
    <3>2. /\ y \in State /\ y.open = x.open
          /\ y.ptr = x.ptr /\ y.maps = x.maps /\ y.holds = x.holds
          /\ y.sent = x.sent /\ y.hooks = x.hooks
      BY <3>1, OpenChanged
    <3>3. y = x
      BY <3>1, <3>2, SameState
    <3> QED
      BY <3>1, <3>3
  <2>2. Triple(P, << >>, P) /\ P \subseteq P /\ P \subseteq Q
    BY <2>1, NothingRule
  <2>3. Triple(P, << >>, Q)
    BY <2>2, ConsequenceRule
  <2> QED
    BY <1>2, <2>3 DEF TraceEvent
<1> QED
  BY <1>1, <1>2

(* A script inside of an event, and that event with it.                    *)
Opens(id, s) == \A o \in Seq(Event) : Triple(Base(o), s, Base(Opened(o, id)))

LEMMA BaseOpened ==
  ASSUME NEW o \in Seq(Event), NEW s \in Seq(Event), NEW x \in Base(o)
  PROVE  x.open = o /\ WithOpen(x, s) \in Base(s)
<1>1. x \in State /\ x.open = o
  BY DEF Base
<1> DEFINE y == WithOpen(x, s)
<1>2. y \in State /\ y.open = s /\ y.maps = x.maps /\ y.holds = x.holds
  BY <1>1, OpenChanged
<1> HIDE DEF y
<1>3. y \in Base(s)
  BY <1>2 DEF Base
<1> QED
  BY <1>1, <1>3 DEF y

LEMMA OpensBegin ==
  ASSUME NEW id \in Event, NEW n
  PROVE  Opens(id, TraceEvent("begin", id, n))
<1> SUFFICES ASSUME NEW o \in Seq(Event)
             PROVE  Triple(Base(o), TraceEvent("begin", id, n), Base(Opened(o, id)))
  BY DEF Opens
<1>1. Opened(o, id) \in Seq(Event)
  BY OpenedTyped
<1>2. \A x \in Base(o) : x.open = o /\ WithOpen(x, Opened(o, id)) \in Base(Opened(o, id))
  BY <1>1, BaseOpened
<1>3. Base(o) \in SUBSET State /\ Base(Opened(o, id)) \in SUBSET State
  BY BaseReady
<1> QED
  BY <1>2, <1>3, BeginRule

LEMMA OpensThen ==
  ASSUME NEW id \in Event, NEW s, NEW u, Opens(id, s), Steady(u)
  PROVE  Opens(id, s \o u)
<1> SUFFICES ASSUME NEW o \in Seq(Event)
             PROVE  Triple(Base(o), s \o u, Base(Opened(o, id)))
  BY DEF Opens
<1>1. Opened(o, id) \in Seq(Event)
  BY OpenedTyped
<1>2. Triple(Base(Opened(o, id)), u, Base(Opened(o, id)))
  BY <1>1 DEF Steady
<1>3. Triple(Base(o), s, Base(Opened(o, id)))
  BY DEF Opens
<1> QED
  BY <1>2, <1>3, ThenRule

LEMMA SteadyEnd ==
  ASSUME NEW id \in Event, NEW n, NEW s, Opens(id, s)
  PROVE  Steady(s \o TraceEvent("end", id, n))
<1> SUFFICES ASSUME NEW o \in Seq(Event)
             PROVE  Triple(Base(o), s \o TraceEvent("end", id, n), Base(o))
  BY DEF Steady
<1> DEFINE p == Opened(o, id)
<1>1. p \in Seq(Event)
  BY OpenedTyped
<1>2. \A x \in Base(p) : x.open = Opened(o, id) /\ WithOpen(x, o) \in Base(o)
  BY <1>1, BaseOpened
<1>3. Base(o) \in SUBSET State /\ Base(p) \in SUBSET State
  BY BaseReady
<1>4. Triple(Base(p), TraceEvent("end", id, n), Base(o))
  BY <1>2, <1>3, EndRule
<1>5. Triple(Base(o), s, Base(p))
  BY DEF Opens
<1> QED
  BY <1>4, <1>5, ThenRule

-----------------------------------------------------------------------------
(* The bytes of a buffer in events.                                        *)

EventUnmapped(o) == {x \in Base(o) : x.ptr["event"] = NULL /\ x.sent = 0}

(* The buffer is mapped and n bytes of it are in events.                   *)
EventMapped(o, b, n) == {x \in Base(o) : x.ptr["event"] = b /\ x.sent = n}

LEMMA EventPtrChanged ==
  ASSUME NEW x \in State, NEW p \in Buffer \cup {NULL}
  PROVE  LET y == WithPtr(x, "event", p)
         IN  /\ y \in State /\ y.ptr["event"] = p
             /\ y.maps = x.maps /\ y.holds = x.holds /\ y.open = x.open
             /\ y.sent = x.sent /\ y.hooks = x.hooks
<1> DEFINE by == "event"
<1>1. by \in Tracer \ {"surface"}
  BY DEF Tracer
<1> HIDE DEF by
<1>2. LET y == WithPtr(x, by, p)
      IN  /\ y \in State
          /\ y.ptr[by] = p /\ \A by2 \in Tracer \ {by} : y.ptr[by2] = x.ptr[by2]
          /\ y.ptr = [x.ptr EXCEPT ![by] = p]
          /\ y.maps = x.maps /\ y.holds = x.holds /\ y.open = x.open
          /\ y.sent = x.sent /\ y.hooks = x.hooks
  BY <1>1, BufferPtrChanged
<1> QED
  BY <1>2 DEF by

LEMMA EventResetRule ==
  ASSUME NEW o \in Seq(Event)
  PROVE  Triple(Base(o), Reset("event"), EventUnmapped(o))
<1> DEFINE op == [op |-> "reset", arg |-> "event"]
<1>1. /\ Base(o) \in SUBSET State /\ EventUnmapped(o) \in SUBSET State
      /\ "event" \in Tracer /\ "event" \in Tracer \ {"surface"}
  BY DEF Base, EventUnmapped, Tracer
<1>2. ASSUME NEW x \in Base(o)
      PROVE  /\ Right(op, x) /\ Chosen(op, x) = << >>
             /\ \A y : Moves(op, x, y) => y \in EventUnmapped(o)
  <2> DEFINE y == WithPtr(x, "event", NULL)
             z == WithSent(y, 0)
  <2>1. x \in State
    BY <1>1
  <2>2. /\ y \in State /\ y.ptr["event"] = NULL /\ y.maps = x.maps
        /\ y.holds = x.holds /\ y.open = x.open
    BY <2>1, EventPtrChanged
  <2> HIDE DEF y
  <2>3. /\ z \in State /\ z.sent = 0 /\ z.ptr = y.ptr
        /\ z.maps = y.maps /\ z.holds = y.holds /\ z.open = y.open
    BY <2>2, SentChanged
  <2> HIDE DEF z
  <2>4. z \in EventUnmapped(o)
    BY <2>2, <2>3 DEF EventUnmapped, Base
  <2>5. Right(op, x) /\ Chosen(op, x) = << >>
    BY <1>1 DEF Right, Chosen
  <2>6. \A w : Moves(op, x, w) => w = z
    BY DEF Moves, y, z
  <2> QED
    BY <2>4, <2>5, <2>6
<1> HIDE DEF op
<1>3. Triple(Base(o), <<op>>, EventUnmapped(o))
  BY <1>1, <1>2, StepRule
<1> QED
  BY <1>3 DEF op, Reset, Do

LEMMA EventMapRule ==
  ASSUME NEW o \in Seq(Event), NEW b \in Buffer
  PROVE  Triple(EventUnmapped(o), vaMapBuffer("event", b),
                EventMapped(o, b, 0) \cup EventUnmapped(o))
<1> DEFINE op == [op |-> "map", arg |-> "event", buf |-> b]
           Q == EventMapped(o, b, 0) \cup EventUnmapped(o)
<1>1. /\ EventUnmapped(o) \in SUBSET State /\ Q \in SUBSET State /\ Q \in SUBSET Ready
      /\ "event" \in Tracer /\ "event" \in Tracer \ {"surface"}
      /\ b.id \in Ids
  BY BaseReady DEF EventUnmapped, EventMapped, Ready, Tracer, Ids
<1>2. ASSUME NEW x \in EventUnmapped(o)
      PROVE  /\ Right(op, x) /\ Chosen(op, x) = << >>
             /\ \A y : Moves(op, x, y) => y \in Q
  <2> DEFINE y == WithPtr(x, "event", b)
             m == <<"event", b.id>>
             M == x.maps \cup {m}
             z == WithMaps(y, M)
  <2>1. /\ x \in State /\ x.maps \in SUBSET (Tracer \X Ids)
        /\ x.holds = {} /\ x.open = o /\ x.sent = 0
        /\ \A n \in x.maps : n[1] = "event"
    BY StateTyped DEF EventUnmapped, Base
  <2>2. x \in State
    BY <2>1
  <2>3. /\ y \in State /\ y.ptr["event"] = b /\ y.maps = x.maps
        /\ y.holds = x.holds /\ y.open = x.open /\ y.sent = x.sent
    BY <2>2, EventPtrChanged
  <2>4. M \in SUBSET (Tracer \X Ids) /\ \A n \in M : n[1] = "event"
    BY <1>1, <2>1
  <2> HIDE DEF y, M
  <2>5. /\ z \in State /\ z.maps = M /\ z.ptr = y.ptr
        /\ z.holds = y.holds /\ z.open = y.open /\ z.sent = y.sent
    BY <2>3, <2>4, MapsChanged
  <2> HIDE DEF z
  <2>6. z \in Q
    BY <2>1, <2>3, <2>4, <2>5 DEF EventMapped, Base
  <2>7. Right(op, x) /\ Chosen(op, x) = << >>
    BY <1>1 DEF Right, Chosen
  <2>8. \A v : Moves(op, x, v) => v = x \/ v = z
    BY DEF Moves, y, z, M
  <2> QED
    BY <2>6, <2>7, <2>8
<1> HIDE DEF op, Q
<1>3. Triple(EventUnmapped(o), <<op>>, Q)
  BY <1>1, <1>2, StepRule
<1>4. Triple(Q, VA_TRACE_RET, Q)
  BY <1>1, NeutralRet DEF Neutral
<1>5. Triple(EventUnmapped(o), <<op>> \o VA_TRACE_RET, Q)
  BY <1>3, <1>4, ThenRule
<1> QED
  BY <1>5 DEF op, Q, vaMapBuffer, Map

(* An event that is not too big adds its bytes.                            *)
LEMMA DataRule ==
  ASSUME NEW o \in Seq(Event), NEW b \in Buffer, NEW n \in Nat,
         NEW extra \in Nat, NEW bytes \in Nat,
         VA_TRACE_HEADER_SIZE + extra + bytes <= VA_TRACE_MAX_SIZE
  PROVE  Triple(EventMapped(o, b, n), Data(extra, bytes), EventMapped(o, b, n + bytes))
<1> DEFINE op == [op |-> "data", arg |-> "BUFFER_DATA", extra |-> extra, bytes |-> bytes]
           P == EventMapped(o, b, n)
           Q == EventMapped(o, b, n + bytes)
<1>1. P \in SUBSET State /\ Q \in SUBSET State
  BY DEF EventMapped, Base
<1>2. ASSUME NEW x \in P
      PROVE  /\ Right(op, x) /\ Chosen(op, x) = << >>
             /\ \A y : Moves(op, x, y) => y \in Q
  <2> DEFINE y == WithSent(x, n + bytes)
  <2>1. /\ x \in State /\ x.sent = n /\ n + bytes \in Nat /\ x.ptr["event"] = b
        /\ x.holds = {} /\ x.open = o /\ \A m \in x.maps : m[1] = "event"
    BY DEF EventMapped, Base
  <2>2. /\ y \in State /\ y.sent = n + bytes /\ y.ptr = x.ptr
        /\ y.maps = x.maps /\ y.holds = x.holds /\ y.open = x.open
    BY <2>1, SentChanged
  <2> HIDE DEF y
  <2>3. y \in Q
    BY <2>1, <2>2 DEF EventMapped, Base
  <2>4. Right(op, x) /\ Chosen(op, x) = << >>
    BY DEF Right, Chosen
  <2>5. \A v : Moves(op, x, v) => v = y
    BY <2>1 DEF Moves, y, Carries, VA_TRACE_HEADER_SIZE
  <2> QED
    BY <2>3, <2>4, <2>5
<1> HIDE DEF op, P, Q
<1>3. Triple(P, <<op>>, Q)
  BY <1>1, <1>2, StepRule
<1> QED
  BY <1>3 DEF op, P, Q, Data

-----------------------------------------------------------------------------
(* A buffer in chunks of C bytes: n are as many as it takes, and the last  *)
(* has what the others leave.                                              *)
LEMMA ChunkArithmetic ==
  ASSUME NEW total \in Nat, NEW C \in Nat \ {0}, NEW n,
         n = (total + C - 1) \div C
  PROVE  /\ n \in Nat /\ total <= n * C
         /\ \A i \in 1 .. n : /\ i * C \in Nat /\ (i - 1) * C \in Nat
                              /\ (i - 1) * C < total /\ i * C = (i - 1) * C + C
                              /\ i * C > total => total % C = total - (i - 1) * C
<1> DEFINE a == total + C - 1
           d == total \div C
<1>1. a \in Nat
  OBVIOUS
<1> HIDE DEF a
<1>2. a \div C \in Nat /\ C * (a \div C) <= a /\ a < C * (a \div C) + C
  BY <1>1
<1>3. n \in Nat /\ n * C <= a /\ a < n * C + C
  BY <1>1, <1>2 DEF a
<1>4. total <= n * C
  <2>1. n * C \in Nat
    BY <1>3
  <2> QED
    BY <1>3, <2>1 DEF a
<1>5. /\ d \in Nat /\ d * C <= total /\ total < d * C + C
      /\ total % C = total - d * C
  OBVIOUS
<1> HIDE DEF d
<1>6. ASSUME NEW i \in 1 .. n
      PROVE  /\ i * C \in Nat /\ (i - 1) * C \in Nat
             /\ (i - 1) * C < total /\ i * C = (i - 1) * C + C
             /\ i * C > total => total % C = total - (i - 1) * C
  <2>1. i \in Nat /\ i - 1 \in Nat /\ i <= n
    BY <1>3
  <2>2. i * C \in Nat /\ (i - 1) * C \in Nat /\ i * C = (i - 1) * C + C
    BY <2>1
  <2>3. i * C <= n * C
    BY <1>3, <2>1
  <2>4. n * C \in Nat
    BY <1>3
  <2>5. (i - 1) * C < total
    BY <1>3, <2>2, <2>3, <2>4 DEF a
  <2>6. ASSUME i * C > total
        PROVE  total % C = total - (i - 1) * C
    <3> DEFINE j == i - 1
    <3>1. j \in Nat /\ j * C <= total /\ total < j * C + C
      BY <2>1, <2>2, <2>5, <2>6
    <3> HIDE DEF j
    <3>2. j = d
      BY <1>5, <3>1
    <3> QED
      BY <1>5, <3>2 DEF j
  <2> QED
    BY <2>2, <2>5, <2>6
<1> QED
  BY <1>3, <1>4, <1>6

LEMMA DataChunksRule ==
  ASSUME NEW o \in Seq(Event), NEW b \in Buffer
  PROVE  Triple(EventMapped(o, b, 0), DataChunks(b.total), EventMapped(o, b, b.total))
<1> DEFINE total == b.total
           C == ChunkSize(total)
           n == (total + C - 1) \div C
           sent_(i) == IF i * C <= total THEN i * C ELSE total
           P == [i \in 0 .. n |-> EventMapped(o, b, sent_(i))]
           chunk(i) == Data(4, IF i * C <= total THEN C ELSE total % C)
           S == [i \in 1 .. n |-> chunk(i)]
<1>1. /\ total \in Nat /\ C \in Nat \ {0}
      /\ VA_TRACE_HEADER_SIZE + 4 + C = VA_TRACE_MAX_SIZE
  BY RenderAssumption DEF ChunkSize, VA_TRACE_HEADER_SIZE
<1>2. DataChunks(total) = FlattenSeq(S)
  BY DEF DataChunks
<1> HIDE DEF total, C, n
<1>3. /\ n \in Nat /\ total <= n * C
      /\ \A i \in 1 .. n : /\ i * C \in Nat /\ (i - 1) * C \in Nat
                           /\ (i - 1) * C < total /\ i * C = (i - 1) * C + C
                           /\ i * C > total => total % C = total - (i - 1) * C
  BY <1>1, ChunkArithmetic DEF n
<1>4. P[0] = EventMapped(o, b, 0)
  <2>1. 0 * C = 0
    BY <1>1
  <2> QED
    BY <1>1, <1>3, <2>1
<1>5. P[n] = EventMapped(o, b, total)
  <2>1. n * C \in Nat
    BY <1>1, <1>3
  <2>2. sent_(n) = total
    BY <1>1, <1>3, <2>1
  <2>3. n \in 0 .. n
    BY <1>3
  <2> QED
    BY <2>2, <2>3
<1>6. ASSUME NEW i \in 1 .. n
      PROVE  Triple(P[i - 1], S[i], P[i])
  <2> DEFINE bytes == IF i * C <= total THEN C ELSE total % C
             before == (i - 1) * C
  <2>1. /\ i * C \in Nat /\ before \in Nat /\ before < total /\ i * C = before + C
        /\ i * C > total => total % C = total - before
    BY <1>3
  <2>2. i - 1 \in 0 .. n /\ i \in 0 .. n
    BY <1>3
  <2> HIDE DEF before
  <2>3. bytes \in Nat /\ bytes <= C /\ before + bytes = sent_(i)
    BY <1>1, <2>1
  <2>4. sent_(i - 1) = before
    <3>1. sent_(i - 1) = IF before <= total THEN before ELSE total
      BY DEF before
    <3>2. before <= total
      BY <1>1, <2>1
    <3> HIDE DEF sent_
    <3> QED
      BY <3>1, <3>2
  <2>5. S[i] = Data(4, bytes)
    OBVIOUS
  <2>6. P[i - 1] = EventMapped(o, b, before) /\ P[i] = EventMapped(o, b, before + bytes)
    BY <2>2, <2>3, <2>4
  <2>7. VA_TRACE_HEADER_SIZE + 4 + bytes <= VA_TRACE_MAX_SIZE
    BY <1>1, <2>3 DEF VA_TRACE_HEADER_SIZE
  <2>8. 4 \in Nat
    OBVIOUS
  <2> HIDE DEF bytes, S, P
  <2>9. Triple(EventMapped(o, b, before), Data(4, bytes), EventMapped(o, b, before + bytes))
    BY <2>1, <2>3, <2>7, <2>8, DataRule
  <2> QED
    BY <2>5, <2>6, <2>9
<1>7. P[0] \in SUBSET State
  BY <1>4 DEF EventMapped, Base
<1>8. S = [i \in 1 .. n |-> S[i]]
  OBVIOUS
<1> HIDE DEF S, P
<1>9. Triple(P[0], FlattenSeq(S), P[n])
  BY <1>3, <1>6, <1>7, <1>8, FlattenRule
<1> QED
  BY <1>2, <1>4, <1>5, <1>9 DEF total

-----------------------------------------------------------------------------
(* The trace of events of a list of buffers.                               *)

LEMMA EventMappedOpened ==
  ASSUME NEW o \in Seq(Event), NEW s \in Seq(Event), NEW b \in Buffer, NEW n \in Nat,
         NEW x \in EventMapped(o, b, n)
  PROVE  x.open = o /\ WithOpen(x, s) \in EventMapped(s, b, n)
<1>1. x \in State /\ x.open = o
  BY DEF EventMapped, Base
<1> DEFINE y == WithOpen(x, s)
<1>2. /\ y \in State /\ y.open = s /\ y.maps = x.maps /\ y.holds = x.holds
      /\ y.ptr = x.ptr /\ y.sent = x.sent
  BY <1>1, OpenChanged
<1> HIDE DEF y
<1>3. y \in EventMapped(s, b, n)
  BY <1>2 DEF EventMapped, Base
<1> QED
  BY <1>1, <1>3 DEF y

LEMMA BufferDataRule ==
  ASSUME NEW o \in Seq(Event), NEW b \in Buffer
  PROVE  Triple(EventMapped(o, b, 0), BufferData(b.total), EventMapped(o, b, b.total))
<1> DEFINE total == b.total
<1>1. total \in Nat /\ 0 \in Nat /\ BufferHeader \in Nat
  BY RenderAssumption DEF BufferHeader
<1>2. CASE VA_TRACE_HEADER_SIZE + BufferHeader + total <= VA_TRACE_MAX_SIZE
  <2> HIDE DEF total
  <2>1. Triple(EventMapped(o, b, 0), Data(BufferHeader, total),
               EventMapped(o, b, 0 + total))
    BY <1>1, <1>2, DataRule
  <2>2. 0 + total = total
    BY <1>1
  <2>3. BufferData(total) = Data(BufferHeader, total)
    BY <1>2 DEF BufferData
  <2> QED
    BY <2>1, <2>2, <2>3 DEF total
<1>3. CASE ~(VA_TRACE_HEADER_SIZE + BufferHeader + total <= VA_TRACE_MAX_SIZE)
  <2> DEFINE id == "BUFFER_DATA"
             p == Opened(o, id)
             begin == TraceEvent("begin", id, BufferHeader)
             end == TraceEvent("end", id, 0)
             chunks == DataChunks(total)
  <2>1. id \in Event
    BY DEF Event
  <2> HIDE DEF id
  <2>2. p \in Seq(Event)
    BY <2>1, OpenedTyped
  <2>3. /\ EventMapped(o, b, 0) \in SUBSET State /\ EventMapped(p, b, 0) \in SUBSET State
        /\ EventMapped(o, b, total) \in SUBSET State
        /\ EventMapped(p, b, total) \in SUBSET State
    BY DEF EventMapped, Base
  <2>4. Triple(EventMapped(o, b, 0), begin, EventMapped(p, b, 0))
    <3>1. \A x \in EventMapped(o, b, 0) :
            x.open = o /\ WithOpen(x, p) \in EventMapped(p, b, 0)
      BY <1>1, <2>2, EventMappedOpened
    <3> QED
      BY <2>1, <2>3, <3>1, BeginRule
  <2>5. Triple(EventMapped(p, b, 0), chunks, EventMapped(p, b, total))
    BY <2>2, DataChunksRule
  <2>6. Triple(EventMapped(p, b, total), end, EventMapped(o, b, total))
    <3>1. \A x \in EventMapped(p, b, total) :
            x.open = p /\ WithOpen(x, o) \in EventMapped(o, b, total)
      BY <1>1, <2>2, EventMappedOpened
    <3> QED
      BY <2>1, <2>3, <3>1, EndRule
  <2>7. BufferData(total) = begin \o chunks \o end
    BY <1>3 DEF BufferData, TRACE_BEGIN_LIST, TRACE_END, id
  <2> HIDE DEF begin, chunks, end, p
  <2>8. Triple(EventMapped(o, b, 0), begin \o chunks \o end, EventMapped(o, b, total))
    BY <2>4, <2>5, <2>6, ThenRule
  <2> QED
    BY <2>7, <2>8
<1> QED
  BY <1>2, <1>3

(* At the end of a turn of the loop all the bytes are in events.           *)
LEMMA IteratedRule ==
  ASSUME NEW o \in Seq(Event), NEW b \in Buffer
  PROVE  Triple(EventMapped(o, b, b.total), Iterated("event"), Base(o))
<1> DEFINE op == [op |-> "iterated", arg |-> "event"]
           P == EventMapped(o, b, b.total)
<1>1. P \in SUBSET State /\ Base(o) \in SUBSET State
  BY DEF EventMapped, Base
<1>2. ASSUME NEW x \in P
      PROVE  /\ Right(op, x) /\ Chosen(op, x) = << >>
             /\ \A y : Moves(op, x, y) => y \in Base(o)
  BY DEF Right, Chosen, Moves, EventMapped
<1> HIDE DEF op, P
<1>3. Triple(P, <<op>>, Base(o))
  BY <1>1, <1>2, StepRule
<1> QED
  BY <1>3 DEF op, P, Iterated, Do

LEMMA EventBufferSteady ==
  ASSUME NEW o \in Seq(Event), NEW b \in Buffer
  PROVE  Triple(Base(o),
                Reset("event") \o vaBufferInfo \o vaMapBuffer("event", b)
                \o IfMapped("event", BufferData(b.total) \o Iterated("event"), << >>),
                Base(o))
<1> DEFINE M == EventMapped(o, b, 0)
           N == EventUnmapped(o)
           then == BufferData(b.total) \o Iterated("event")
           reset == Reset("event")
           map == vaMapBuffer("event", b)
           if == IfMapped("event", then, << >>)
<1>1. /\ M \in SUBSET State /\ N \in SUBSET State /\ N \in SUBSET Ready
      /\ N \subseteq Base(o) /\ N \subseteq N
      /\ \A x \in M : x.ptr["event"] \in Buffer
      /\ \A x \in N : x.ptr["event"] = NULL
  BY DEF EventMapped, EventUnmapped, Base, Ready
<1>2. Triple(Base(o), reset, N)
  BY EventResetRule
<1>3. Triple(N, vaBufferInfo, N)
  BY <1>1, NeutralBufferInfo DEF Neutral
<1>4. Triple(N, map, M \cup N)
  BY EventMapRule
<1>5. Triple(M, then, Base(o))
  BY BufferDataRule, IteratedRule, ThenRule
<1>6. Triple(N, << >>, Base(o))
  <2>1. Triple(N, << >>, N)
    BY <1>1, NothingRule
  <2> HIDE DEF N
  <2> QED
    BY <1>1, <2>1, ConsequenceRule
<1>7. "event" \in Tracer \ {"surface"}
  BY DEF Tracer
<1> HIDE DEF M, N, then, reset, map
<1>8. Triple(M \cup N, if, Base(o))
  BY <1>1, <1>5, <1>6, <1>7, IfMappedRule
<1> HIDE DEF if
<1>9. Triple(Base(o), reset \o vaBufferInfo \o map \o if, Base(o))
  BY <1>2, <1>3, <1>4, <1>8, ThenRule
<1> QED
  BY <1>9 DEF reset, map, if, then

LEMMA EventsSteady ==
  ASSUME NEW buffers \in Seq(Buffer)
  PROVE  Steady(VA_TRACE_BUFFERS(buffers))
<1>1. Steady(va_TraceEventBuffers(buffers))
  <2> SUFFICES ASSUME NEW o \in Seq(Event)
               PROVE  Triple(Base(o), va_TraceEventBuffers(buffers), Base(o))
    BY DEF Steady
  <2> DEFINE n == Len(buffers)
             S == [i \in 1 .. n |->
                     Reset("event") \o vaBufferInfo \o vaMapBuffer("event", buffers[i])
                     \o IfMapped("event", BufferData(buffers[i].total) \o Iterated("event"),
                                 << >>)]
  <2>1. n \in Nat /\ \A i \in 1 .. n : buffers[i] \in Buffer
    OBVIOUS
  <2>2. \A i \in 1 .. n : Triple(Base(o), S[i], Base(o))
    BY <2>1, EventBufferSteady
  <2>3. va_TraceEventBuffers(buffers) = FlattenSeq(S)
    BY DEF va_TraceEventBuffers
  <2>4. S = [i \in 1 .. n |-> S[i]] /\ Base(o) \in SUBSET State
    BY BaseReady
  <2> HIDE DEF S, n
  <2> QED
    BY <2>1, <2>2, <2>3, <2>4, LoopRule
<1> QED
  BY <1>1, SteadyNothing DEF VA_TRACE_BUFFERS

-----------------------------------------------------------------------------
(* The ways calls are put together.                                        *)

LEMMA SteadyHook ==
  ASSUME NEW h \in Untested
  PROVE  Steady(Hook(h))
  BY NeutralHook, SteadyNeutral

LEMMA SteadyVirctx == Steady(DPY2TRACE_VIRCTX)
  BY NeutralVirctx, SteadyNeutral

LEMMA SteadyRet == Steady(VA_TRACE_RET)
  BY NeutralRet, SteadyNeutral

LEMMA SteadyLog ==
  ASSUME NEW s, Steady(s)
  PROVE  Steady(VA_TRACE_LOG(s))
  BY SteadyNothing DEF VA_TRACE_LOG

LEMMA SteadyAll ==
  ASSUME NEW s, Steady(s)
  PROVE  Steady(VA_TRACE_ALL(s))
  BY SteadyNothing DEF VA_TRACE_ALL

(* A script that is right where the hook was found to be there.            *)
Present(h, s) ==
  \A o \in Seq(Event) : Triple({x \in Base(o) : h \in x.hooks}, s, Base(o))

LEMMA PresentHook ==
  ASSUME NEW h
  PROVE  Present(h, Hook(h))
<1> SUFFICES ASSUME NEW o \in Seq(Event)
             PROVE  Triple({x \in Base(o) : h \in x.hooks}, Hook(h), Base(o))
  BY DEF Present
<1> DEFINE op == [op |-> "driver", arg |-> h]
           P == {x \in Base(o) : h \in x.hooks}
<1>1. P \in SUBSET State /\ Base(o) \in SUBSET State
  BY DEF Base
<1>2. ASSUME NEW x \in P
      PROVE  /\ Right(op, x) /\ Chosen(op, x) = << >>
             /\ \A y : Moves(op, x, y) => y \in Base(o)
  BY DEF Right, Chosen, Moves
<1> HIDE DEF op, P
<1>3. Triple(P, <<op>>, Base(o))
  BY <1>1, <1>2, StepRule
<1> QED
  BY <1>3 DEF op, P, Hook, Do

LEMMA PresentThen ==
  ASSUME NEW h, NEW s, NEW u, Present(h, s), Steady(u)
  PROVE  Present(h, s \o u)
<1> SUFFICES ASSUME NEW o \in Seq(Event)
             PROVE  Triple({x \in Base(o) : h \in x.hooks}, s \o u, Base(o))
  BY DEF Present
<1> DEFINE P == {x \in Base(o) : h \in x.hooks}
<1>1. Triple(P, s, Base(o)) /\ Triple(Base(o), u, Base(o))
  BY DEF Present, Steady
<1> HIDE DEF P
<1>2. Triple(P, s \o u, Base(o))
  BY <1>1, ThenRule
<1> QED
  BY <1>2 DEF P

LEMMA IfHookSteady ==
  ASSUME NEW h, NEW then, NEW else, Present(h, then), Steady(else)
  PROVE  Steady(IfHook(h, then, else))
<1> SUFFICES ASSUME NEW o \in Seq(Event)
             PROVE  Triple(Base(o), IfHook(h, then, else), Base(o))
  BY DEF Steady
<1> DEFINE op == [op |-> "if", arg |-> h, then |-> then, else |-> else]
           P == {x \in Base(o) : h \in x.hooks}
<1>1. Base(o) \in SUBSET State
  BY DEF Base
<1>2. Triple(P, then, Base(o)) /\ Triple(Base(o), else, Base(o))
  BY DEF Present, Steady
<1>3. ASSUME NEW x \in Base(o)
      PROVE  /\ Right(op, x)
             /\ \A y : Moves(op, x, y) => y = x
             /\ Triple({x}, Chosen(op, x), Base(o))
  <2>1. Right(op, x) /\ \A y : Moves(op, x, y) => y = x
    BY DEF Right, Moves
  <2>2. /\ h \in x.hooks => Chosen(op, x) = then /\ {x} \subseteq P
        /\ h \notin x.hooks => Chosen(op, x) = else
        /\ {x} \subseteq Base(o) /\ Base(o) \subseteq Base(o)
    BY DEF Chosen
  <2> HIDE DEF op, P
  <2>3. CASE h \in x.hooks
    BY <1>2, <2>1, <2>2, <2>3, ConsequenceRule
  <2>4. CASE h \notin x.hooks
    BY <1>2, <2>1, <2>2, <2>4, ConsequenceRule
  <2> QED
    BY <2>3, <2>4
<1> HIDE DEF op
<1>4. Triple(Base(o), <<op>>, Base(o))
  BY <1>1, <1>3, ChoiceRule
<1> QED
  BY <1>4 DEF op, IfHook

LEMMA OptionalSteady ==
  ASSUME NEW h
  PROVE  Steady(Optional(h))
  BY PresentHook, SteadyNothing, IfHookSteady DEF Optional

LEMMA NeedsSteady ==
  ASSUME NEW h, NEW s, Steady(s)
  PROVE  Steady(Needs(h, s))
<1>1. Present(h, Hook(h) \o s)
  BY PresentHook, PresentThen
<1> QED
  BY <1>1, SteadyNothing, IfHookSteady DEF Needs

(* Inside of an event.                                                     *)
LEMMA EventSteady ==
  ASSUME NEW id \in Event, NEW n, NEW k, NEW a, NEW b, NEW c,
         Steady(a), Steady(b), Steady(c)
  PROVE  LET begin == TraceEvent("begin", id, n)
             end == TraceEvent("end", id, k)
         IN  /\ Steady(begin \o a \o b \o end)
             /\ Steady(begin \o a \o b \o c \o end)
<1> DEFINE begin == TraceEvent("begin", id, n)
           end == TraceEvent("end", id, k)
<1>1. Opens(id, begin)
  BY OpensBegin
<1> HIDE DEF begin
<1>2. Opens(id, begin \o a)
  BY <1>1, OpensThen
<1>3. Opens(id, begin \o a \o b)
  BY <1>2, OpensThen
<1>4. Opens(id, begin \o a \o b \o c)
  BY <1>3, OpensThen
<1>5. Steady(begin \o a \o b \o end) /\ Steady(begin \o a \o b \o c \o end)
  BY <1>3, <1>4, SteadyEnd
<1> QED
  BY <1>5 DEF begin

-----------------------------------------------------------------------------
(* The calls that are not taken apart.                                     *)

LEMMA ConfigCalls ==
  /\ Steady(vaQueryConfigProfiles) /\ Steady(vaQueryConfigEntrypoints)
  /\ Steady(vaGetConfigAttributes) /\ Steady(vaQueryConfigAttributes)
  /\ Steady(vaQueryProcessingRate) /\ Steady(vaDestroyConfig)
<1>1. {"QueryConfigProfiles", "QueryConfigEntrypoints", "GetConfigAttributes",
       "QueryConfigAttributes", "DestroyConfig"} \subseteq Untested
  BY DEF Untested, CHECK_VTABLE
<1>2. "DESTROY_CONFIG" \in Event
  BY DEF Event
<1>3. Steady(vaQueryConfigProfiles)
  BY <1>1, SteadyHook, SteadyRet, SteadyThen DEF vaQueryConfigProfiles
<1>4. Steady(vaQueryConfigEntrypoints)
  BY <1>1, SteadyHook, SteadyRet, SteadyThen DEF vaQueryConfigEntrypoints
<1>5. Steady(vaGetConfigAttributes)
  BY <1>1, SteadyHook, SteadyRet, SteadyThen DEF vaGetConfigAttributes
<1>6. Steady(vaQueryConfigAttributes)
  BY <1>1, SteadyHook, SteadyRet, SteadyThen DEF vaQueryConfigAttributes
<1>7. Steady(vaQueryProcessingRate)
  BY OptionalSteady, SteadyRet, SteadyThen DEF vaQueryProcessingRate
<1>9. Steady(vaDestroyConfig)
  BY <1>1, <1>2, SteadyHook, SteadyVirctx, SteadyAll, SteadyRet, EventSteady
  DEF TRACE_BEGIN, TRACE_END, vaDestroyConfig, va_TraceDestroyConfig
<1> QED
  BY <1>3, <1>4, <1>5, <1>6, <1>7, <1>9

(* The calls with a list that may be long.                                 *)
LEMMA ListSteady ==
  ASSUME NEW n, NEW m
  PROVE  /\ Steady(vaCreateConfig(n)) /\ Steady(vaQuerySurfaceAttributes(n))
         /\ Steady(vaCreateSurfaces(n, m)) /\ Steady(vaDestroySurfaces(n))
         /\ Steady(vaCreateContext(n))
<1>1. {"CreateConfig", "QueryImageFormats", "CreateSurfaces", "DestroySurfaces",
       "CreateContext"} \subseteq Untested
  BY DEF Untested, CHECK_VTABLE
<1>2. {"CREATE_CONFIG", "QUERY_SURFACE_ATTR", "CREATE_SURFACE", "DESTROY_SURFACE",
       "CREATE_CONTEXT"} \subseteq Event
  BY DEF Event
<1>3. Steady(vaCreateConfig(n))
  BY <1>1, <1>2, SteadyHook, SteadyVirctx, SteadyAll, SteadyRet, EventSteady
  DEF TRACE_BEGIN_LIST, TRACE_END, vaCreateConfig, va_TraceCreateConfig
<1>4. Steady(vaQuerySurfaceAttributes(n))
  BY <1>1, <1>2, SteadyHook, NeedsSteady, PresentHook, IfHookSteady,
     SteadyVirctx, SteadyLog, SteadyRet, EventSteady
  DEF TRACE_BEGIN, TRACE_END_LIST, vaQuerySurfaceAttributes,
      va_impl_query_surface_attributes, va_TraceQuerySurfaceAttributes
<1>5. Steady(vaCreateSurfaces(n, m))
  BY <1>1, <1>2, SteadyHook, PresentHook, IfHookSteady, SteadyVirctx,
     SteadyLog, SteadyRet, EventSteady
  DEF TRACE_BEGIN_LIST, TRACE_END_LIST, vaCreateSurfaces, va_TraceCreateSurfaces
<1>6. Steady(vaDestroySurfaces(n))
  BY <1>1, <1>2, SteadyHook, SteadyVirctx, SteadyLog, SteadyRet, EventSteady
  DEF TRACE_BEGIN_LIST, TRACE_END, vaDestroySurfaces, va_TraceDestroySurfaces
<1>7. Steady(vaCreateContext(n))
  BY <1>1, <1>2, SteadyHook, SteadyVirctx, SteadyAll, SteadyRet, EventSteady
  DEF TRACE_BEGIN_LIST, TRACE_END, vaCreateContext, va_TraceCreateContext
<1> QED
  BY <1>3, <1>4, <1>5, <1>6, <1>7

LEMMA ContextCalls ==
  /\ Steady(vaDestroyContext)
  /\ Steady(vaCreateMFContext) /\ Steady(vaMFAddContext)
  /\ Steady(vaMFReleaseContext) /\ Steady(vaMFSubmit)
<1>1. "DestroyContext" \in Untested
  BY DEF Untested, CHECK_VTABLE
<1>2. "DESTROY_CONTEXT" \in Event
  BY DEF Event
<1>4. Steady(vaDestroyContext)
  BY <1>1, <1>2, SteadyHook, SteadyVirctx, SteadyAll, SteadyRet, EventSteady
  DEF TRACE_BEGIN, TRACE_END, vaDestroyContext, va_TraceDestroyContext
<1>5. Steady(vaCreateMFContext)
  BY OptionalSteady, SteadyRet, SteadyThen DEF vaCreateMFContext
<1>6. Steady(vaMFAddContext)
  BY OptionalSteady, SteadyRet, SteadyThen DEF vaMFAddContext
<1>7. Steady(vaMFReleaseContext)
  BY OptionalSteady, SteadyRet, SteadyThen DEF vaMFReleaseContext
<1>8. Steady(vaMFSubmit)
  BY OptionalSteady, SteadyRet, SteadyThen DEF vaMFSubmit
<1> QED
  BY <1>4, <1>5, <1>6, <1>7, <1>8

LEMMA BufferCalls ==
  /\ Steady(vaCreateBuffer) /\ Steady(vaCreateBuffer2)
  /\ Steady(vaBufferSetNumElements) /\ Steady(vaDestroyBuffer)
  /\ Steady(vaBufferInfo) /\ Steady(vaAcquireBufferHandle)
  /\ Steady(vaReleaseBufferHandle) /\ Steady(vaExportSurfaceHandle)
<1>1. {"CreateBuffer", "BufferSetNumElements", "DestroyBuffer", "BufferInfo"} \subseteq Untested
  BY DEF Untested, CHECK_VTABLE, Unchecked
<1>2. {"CREATE_BUFFER", "DESTROY_BUFFER"} \subseteq Event
  BY DEF Event
<1>3. Steady(vaCreateBuffer)
  BY <1>1, <1>2, SteadyHook, SteadyRet, EventSteady
  DEF TRACE_BEGIN, TRACE_END, vaCreateBuffer
<1>4. Steady(vaCreateBuffer2)
  BY NeedsSteady, SteadyRet DEF vaCreateBuffer2
<1>5. Steady(vaBufferSetNumElements)
  BY <1>1, SteadyHook, SteadyRet, SteadyThen DEF vaBufferSetNumElements
<1>6. Steady(vaDestroyBuffer)
  BY <1>1, <1>2, SteadyHook, SteadyRet, EventSteady
  DEF TRACE_BEGIN, TRACE_END, vaDestroyBuffer
<1>7. Steady(vaBufferInfo)
  BY <1>1, SteadyHook, SteadyRet, SteadyThen DEF vaBufferInfo
<1>8. Steady(vaAcquireBufferHandle)
  BY OptionalSteady, SteadyRet, SteadyThen DEF vaAcquireBufferHandle
<1>9. Steady(vaReleaseBufferHandle)
  BY OptionalSteady, SteadyRet, SteadyThen DEF vaReleaseBufferHandle
<1>10. Steady(vaExportSurfaceHandle)
  BY OptionalSteady, SteadyVirctx, SteadyLog, SteadyRet, SteadyThen
  DEF vaExportSurfaceHandle, va_TraceExportSurfaceHandle
<1> QED
  BY <1>3, <1>4, <1>5, <1>6, <1>7, <1>8, <1>9, <1>10

LEMMA SyncCalls ==
  /\ Steady(vaBeginPicture) /\ Steady(vaSyncSurface)
  /\ Steady(vaSyncSurface2) /\ Steady(vaQuerySurfaceStatus)
  /\ Steady(vaQuerySurfaceError) /\ Steady(vaSyncBuffer)
<1>1. {"BeginPicture", "SyncSurface", "QuerySurfaceStatus",
       "QuerySurfaceError"} \subseteq Untested
  BY DEF Untested, CHECK_VTABLE, Unchecked
<1>2. {"BEGIN_PICTURE", "SYNC_SURFACE", "SYNC_SURFACE2"} \subseteq Event
  BY DEF Event
<1>3. Steady(vaBeginPicture)
  BY <1>1, <1>2, SteadyHook, SteadyRet, EventSteady
  DEF TRACE_BEGIN, TRACE_END, vaBeginPicture
<1>4. Steady(vaSyncSurface)
  BY <1>1, <1>2, SteadyHook, SteadyVirctx, SteadyLog, SteadyRet, EventSteady
  DEF TRACE_BEGIN, TRACE_END, vaSyncSurface, va_TraceSyncSurface
<1>5. Steady(vaSyncSurface2)
  BY <1>2, OptionalSteady, SteadyVirctx, SteadyLog, SteadyRet, EventSteady
  DEF TRACE_BEGIN, TRACE_END, vaSyncSurface2, va_TraceSyncSurface2
<1>6. Steady(vaQuerySurfaceStatus)
  BY <1>1, SteadyHook, SteadyVirctx, SteadyLog, SteadyRet, SteadyThen
  DEF vaQuerySurfaceStatus, va_TraceQuerySurfaceStatus
<1>7. Steady(vaQuerySurfaceError)
  BY <1>1, SteadyHook, SteadyVirctx, SteadyLog, SteadyRet, SteadyThen
  DEF vaQuerySurfaceError, va_TraceQuerySurfaceError
<1>8. Steady(vaSyncBuffer)
  BY OptionalSteady, SteadyVirctx, SteadyLog, SteadyRet, SteadyThen
  DEF vaSyncBuffer, va_TraceSyncBuffer
<1> QED
  BY <1>3, <1>4, <1>5, <1>6, <1>7, <1>8

LEMMA ImageCalls ==
  /\ Steady(vaQueryImageFormats) /\ Steady(vaCreateImage)
  /\ Steady(vaDestroyImage) /\ Steady(vaSetImagePalette)
  /\ Steady(vaGetImage) /\ Steady(vaPutImage) /\ Steady(vaDeriveImage)
<1>1. {"QueryImageFormats", "CreateImage", "DestroyImage",
       "SetImagePalette", "GetImage", "PutImage", "DeriveImage"} \subseteq Untested
  BY DEF Untested, CHECK_VTABLE
<1>3. Steady(vaQueryImageFormats)
  BY <1>1, SteadyHook DEF vaQueryImageFormats
<1>4. Steady(vaCreateImage)
  BY <1>1, SteadyHook, SteadyRet, SteadyThen DEF vaCreateImage
<1>5. Steady(vaDestroyImage)
  BY <1>1, SteadyHook, SteadyRet, SteadyThen DEF vaDestroyImage
<1>6. Steady(vaSetImagePalette)
  BY <1>1, SteadyHook, SteadyRet, SteadyThen DEF vaSetImagePalette
<1>7. Steady(vaGetImage)
  BY <1>1, SteadyHook, SteadyRet, SteadyThen DEF vaGetImage
<1>8. Steady(vaPutImage)
  BY <1>1, SteadyHook, SteadyRet, SteadyThen DEF vaPutImage
<1>9. Steady(vaDeriveImage)
  BY <1>1, SteadyHook, SteadyVirctx, SteadyLog, SteadyRet, SteadyThen
  DEF vaDeriveImage, va_TraceDeriveImage
<1> QED
  BY <1>3, <1>4, <1>5, <1>6, <1>7, <1>8, <1>9

LEMMA SubpictureCalls ==
  /\ Steady(vaQuerySubpictureFormats) /\ Steady(vaCreateSubpicture)
  /\ Steady(vaDestroySubpicture) /\ Steady(vaSetSubpictureImage)
  /\ Steady(vaSetSubpictureChromakey) /\ Steady(vaSetSubpictureGlobalAlpha)
  /\ Steady(vaAssociateSubpicture) /\ Steady(vaDeassociateSubpicture)
<1>1. {"QuerySubpictureFormats", "CreateSubpicture", "DestroySubpicture",
       "SetSubpictureImage", "SetSubpictureChromakey",
       "SetSubpictureGlobalAlpha", "AssociateSubpicture",
       "DeassociateSubpicture"} \subseteq Untested
  BY DEF Untested, CHECK_VTABLE
<1>3. Steady(vaQuerySubpictureFormats)
  BY <1>1, SteadyHook DEF vaQuerySubpictureFormats
<1>4. Steady(vaCreateSubpicture)
  BY <1>1, SteadyHook DEF vaCreateSubpicture
<1>5. Steady(vaDestroySubpicture)
  BY <1>1, SteadyHook DEF vaDestroySubpicture
<1>6. Steady(vaSetSubpictureImage)
  BY <1>1, SteadyHook DEF vaSetSubpictureImage
<1>7. Steady(vaSetSubpictureChromakey)
  BY <1>1, SteadyHook DEF vaSetSubpictureChromakey
<1>8. Steady(vaSetSubpictureGlobalAlpha)
  BY <1>1, SteadyHook DEF vaSetSubpictureGlobalAlpha
<1>9. Steady(vaAssociateSubpicture)
  BY <1>1, SteadyHook DEF vaAssociateSubpicture
<1>10. Steady(vaDeassociateSubpicture)
  BY <1>1, SteadyHook DEF vaDeassociateSubpicture
<1> QED
  BY <1>3, <1>4, <1>5, <1>6, <1>7, <1>8, <1>9, <1>10

LEMMA DisplayCalls ==
  /\ Steady(vaMaxNumDisplayAttributes) /\ Steady(vaQueryDisplayAttributes)
  /\ Steady(vaGetDisplayAttributes) /\ Steady(vaSetDisplayAttributes)
  /\ Steady(vaPutSurface) /\ Steady(vaLockSurface)
  /\ Steady(vaUnlockSurface) /\ Steady(vaCopy)
<1>1. {"QueryDisplayAttributes", "GetDisplayAttributes",
       "SetDisplayAttributes", "PutSurface", "LockSurface", "UnlockSurface"} \subseteq Untested
  BY DEF Untested, CHECK_VTABLE, Unchecked
<1>3. Steady(vaMaxNumDisplayAttributes)
  BY SteadyVirctx, SteadyLog
  DEF vaMaxNumDisplayAttributes, va_TraceMaxNumDisplayAttributes
<1>4. Steady(vaQueryDisplayAttributes)
  BY <1>1, SteadyHook, SteadyVirctx, SteadyLog, SteadyRet, SteadyThen
  DEF vaQueryDisplayAttributes, va_TraceQueryDisplayAttributes
<1>5. Steady(vaGetDisplayAttributes)
  BY <1>1, SteadyHook, SteadyVirctx, SteadyLog, SteadyRet, SteadyThen
  DEF vaGetDisplayAttributes, va_TraceGetDisplayAttributes
<1>6. Steady(vaSetDisplayAttributes)
  BY <1>1, SteadyHook, SteadyVirctx, SteadyLog, SteadyRet, SteadyThen
  DEF vaSetDisplayAttributes, va_TraceSetDisplayAttributes
<1>7. Steady(vaPutSurface)
  BY <1>1, SteadyHook, SteadyVirctx, SteadyLog, SteadyRet, SteadyThen
  DEF vaPutSurface, va_TracePutSurface
<1>8. Steady(vaLockSurface)
  BY <1>1, SteadyHook, SteadyRet, SteadyThen DEF vaLockSurface
<1>9. Steady(vaUnlockSurface)
  BY <1>1, SteadyHook, SteadyRet, SteadyThen DEF vaUnlockSurface
<1>10. Steady(vaCopy)
  BY OptionalSteady DEF vaCopy
<1> QED
  BY <1>3, <1>4, <1>5, <1>6, <1>7, <1>8, <1>9, <1>10

LEMMA SessionCalls ==
  /\ Steady(vaQueryVideoProcFilters) /\ Steady(vaQueryVideoProcFilterCaps)
  /\ Steady(vaQueryVideoProcPipelineCaps)
  /\ Steady(vaCreateProtectedSession) /\ Steady(vaDestroyProtectedSession)
  /\ Steady(vaAttachProtectedSession) /\ Steady(vaDetachProtectedSession)
<1>3. Steady(vaQueryVideoProcFilters)
  BY NeedsSteady, SteadyRet DEF vaQueryVideoProcFilters
<1>4. Steady(vaQueryVideoProcFilterCaps)
  BY NeedsSteady, SteadyRet DEF vaQueryVideoProcFilterCaps
<1>5. Steady(vaQueryVideoProcPipelineCaps)
  BY NeedsSteady, SteadyRet DEF vaQueryVideoProcPipelineCaps
<1>6. Steady(vaCreateProtectedSession)
  BY NeedsSteady, SteadyVirctx, SteadyLog, SteadyRet, SteadyThen
  DEF vaCreateProtectedSession, va_TraceCreateProtectedSession
<1>7. Steady(vaDestroyProtectedSession)
  BY NeedsSteady, SteadyVirctx, SteadyLog, SteadyRet, SteadyThen
  DEF vaDestroyProtectedSession, va_TraceDestroyProtectedSession
<1>8. Steady(vaAttachProtectedSession)
  BY NeedsSteady, SteadyVirctx, SteadyLog, SteadyRet, SteadyThen
  DEF vaAttachProtectedSession, va_TraceAttachProtectedSession
<1>9. Steady(vaDetachProtectedSession)
  BY NeedsSteady, SteadyVirctx, SteadyLog, SteadyRet, SteadyThen
  DEF vaDetachProtectedSession, va_TraceDetachProtectedSession
<1> QED
  BY <1>3, <1>4, <1>5, <1>6, <1>7, <1>8, <1>9

LEMMA PlainSteady ==
  \A s \in PlainCalls : Steady(s)
  BY ConfigCalls, ContextCalls, BufferCalls, SyncCalls, ImageCalls,
     SubpictureCalls, DisplayCalls, SessionCalls
  DEF PlainCalls

-----------------------------------------------------------------------------
(* The calls that the trace functions are taken apart in.                  *)

LEMMA RenderPictureSteady ==
  ASSUME NEW buffers \in Seq(Buffer)
  PROVE  Steady(vaRenderPicture(buffers))
<1> DEFINE id == "RENDER_PICTURE"
           begin == TraceEvent("begin", id, 8 + 4 * Len(buffers))
           end == TraceEvent("end", id, 0)
           events == VA_TRACE_BUFFERS(buffers)
           log == VA_TRACE_LOG(va_TraceRenderPicture(buffers))
           hook == Hook("RenderPicture")
<1>1. id \in Event /\ "RenderPicture" \in Untested
  BY DEF Event, Untested, CHECK_VTABLE
<1>2. Steady(events)
  BY EventsSteady
<1>3. Steady(log)
  BY RenderSteady, SteadyLog
<1>4. Steady(hook)
  BY <1>1, SteadyHook
<1>5. vaRenderPicture(buffers)
        = begin \o events \o log \o hook \o VA_TRACE_RET \o end
  BY DEF vaRenderPicture, TRACE_BEGIN_LIST, TRACE_END
<1> HIDE DEF id, events, log, hook
<1>6. Opens(id, begin)
  BY <1>1, OpensBegin
<1> HIDE DEF begin
<1>7. Opens(id, begin \o events \o log \o hook)
  BY <1>1, <1>2, <1>3, <1>4, <1>6, OpensThen
<1>8. Opens(id, begin \o events \o log \o hook \o VA_TRACE_RET)
  BY <1>1, <1>7, SteadyRet, OpensThen
<1>9. Steady(begin \o events \o log \o hook \o VA_TRACE_RET \o end)
  BY <1>1, <1>8, SteadyEnd
<1> HIDE DEF end
<1> QED
  BY <1>5, <1>9

LEMMA EndPictureSteady ==
  ASSUME NEW decode, NEW has_file
  PROVE  Steady(vaEndPicture(decode, has_file))
<1> DEFINE sync == IF decode THEN vaSyncSurface ELSE << >>
           all == VA_TRACE_ALL(va_TraceEndPictureExt(decode, has_file))
<1>1. "END_PICTURE" \in Event /\ "EndPicture" \in Untested
  BY DEF Event, Untested, CHECK_VTABLE
<1>2. Steady(sync)
  BY SyncCalls, SteadyNothing
<1>3. Steady(va_TraceEndPictureExt(decode, has_file))
  <2>1. va_TraceEndPictureExt(decode, has_file) = sync \o va_TraceSurface(has_file)
    BY DEF va_TraceEndPictureExt
  <2> HIDE DEF sync
  <2> QED
    BY <1>2, <2>1, SurfaceSteady, SteadyThen
<1>4. Steady(all)
  BY <1>3, SteadyAll
<1>5. vaEndPicture(decode, has_file)
        = TraceEvent("begin", "END_PICTURE", 0) \o Hook("EndPicture")
          \o VA_TRACE_RET \o all \o TraceEvent("end", "END_PICTURE", 0)
  BY DEF vaEndPicture, TRACE_BEGIN, TRACE_END
<1> HIDE DEF all
<1> QED
  BY <1>1, <1>4, <1>5, SteadyHook, SteadyRet, EventSteady

LEMMA SessionExecuteSteady ==
  ASSUME NEW b \in Buffer
  PROVE  Steady(vaProtectedSessionExecute(b))
<1>1. Steady(VA_TRACE_LOG(va_TraceProtectedSessionExecute(b)) \o VA_TRACE_RET)
  BY ExecuteSteady, SteadyLog, SteadyRet, SteadyThen
<1> QED
  BY <1>1, NeedsSteady DEF vaProtectedSessionExecute

LEMMA CallsSteady ==
  ASSUME NEW s \in AllCalls
  PROVE  Steady(s)
<1>1. CASE s \in PlainCalls
  BY <1>1, PlainSteady
<1>2. CASE s \in ListCalls
  <2> DEFINE of(n) == {vaCreateConfig(n), vaQuerySurfaceAttributes(n),
                       vaDestroySurfaces(n), vaCreateContext(n)}
             one == UNION {of(n) : n \in ListLengths}
             two == {vaCreateSurfaces(n, m) : n \in ListLengths, m \in ListLengths}
  <2>1. ListCalls = one \cup two
    BY DEF ListCalls
  <2>2. CASE s \in one
    <3>1. PICK n \in ListLengths : s \in of(n)
      BY <2>2
    <3>2. s \in of(n)
      BY <3>1
    <3> HIDE DEF one, two
    <3> QED
      BY <3>2, ListSteady
  <2>3. CASE s \in two
    <3>1. \E n, m : s = vaCreateSurfaces(n, m)
      BY <2>3
    <3> QED
      BY <3>1, ListSteady
  <2> HIDE DEF one, two
  <2> QED
    BY <1>2, <2>1, <2>2, <2>3
<1>3. CASE \E buffers \in BufferLists : s = vaRenderPicture(buffers)
  BY <1>3, RenderPictureSteady, RenderAssumption
<1>4. CASE \E d \in BOOLEAN, f \in BOOLEAN : s = vaEndPicture(d, f)
  BY <1>4, EndPictureSteady
<1>5. CASE \E b \in Buffer : s = vaProtectedSessionExecute(b)
  BY <1>5, SessionExecuteSteady
<1> QED
  BY <1>1, <1>2, <1>3, <1>4, <1>5 DEF AllCalls

-----------------------------------------------------------------------------
(* What a thread sees of the state.                                        *)

View(p, M, h, o, n, k) ==
  [ptr |-> p, maps |-> M, holds |-> h, open |-> o, sent |-> n, hooks |-> k]

MapsOf(t) ==
  {m \in Tracer \X Ids : [thread |-> t, by |-> m[1], buf |-> m[2]] \in maps}

HoldsOf(t) ==
  (IF context_mutex = t THEN {"mutex"} ELSE {})
  \cup (IF t \in locked THEN {"surface"} ELSE {})

(* The events that would be open if none had been dropped are g[t].        *)
Local(t, g) == View(ptr[t], MapsOf(t), HoldsOf(t), g[t], sent[t], hooks)

OnThreads(f) == f = [t \in Thread |-> f[t]]

Shape ==
  /\ OnThreads(todo) /\ OnThreads(ptr) /\ OnThreads(open) /\ OnThreads(dropped)
  /\ OnThreads(sent)
  /\ maps \subseteq [thread : Thread, by : Tracer, buf : Ids]
  /\ locked \subseteq Thread
  /\ context_mutex \in Thread \cup {NULL}

(* Between two calls, which start and end in Base.                         *)
Between(t, g) == todo[t] = << >> /\ Local(t, g) \in Base(<< >>)

(* In a call, what is left of its script is right for what the thread sees.*)
Within(t, g) ==
  \E r, R : /\ todo[t] = r \o Do("return", "")
            /\ Safe(R, Base(<< >>)) /\ <<Local(t, g), r>> \in R

(* The file has the events g of a thread as long as none was dropped.      *)
Whole(t) == ~dropped[t]
Told(g) == \A t \in Thread : Whole(t) => open[t] = g[t]

(* The inductive invariant.                                                *)
InvWith(g) ==
  /\ Shape /\ OnThreads(g) /\ Told(g)
  /\ \A t \in Thread : Between(t, g) \/ Within(t, g)

RenderInv == \E g : InvWith(g)

(* The script of a call, whatever is left of it, with the return after it. *)
LEMMA ReturnScript ==
  LET e == Do("return", "")
  IN  IsScript(e) /\ e # << >> /\ Head(e).op = "return" /\ Tail(e) = << >>
<1> DEFINE ret == [op |-> "return", arg |-> ""]
<1>1. Do("return", "") = <<ret>> /\ ret.op = "return"
  BY DEF Do
<1> HIDE DEF ret
<1> QED
  BY <1>1, ScriptOfOne

Leads(R, x, s, y, e) ==
  \E r1 : Chosen(Head(s), x) \o Tail(s) = r1 \o e /\ <<y, r1>> \in R

LEMMA ScriptLeft ==
  ASSUME NEW Q, NEW R, NEW x, NEW r, NEW e,
         IsScript(e), e # << >>, Head(e).op = "return", Tail(e) = << >>,
         Safe(R, Q), <<x, r>> \in R
  PROVE  /\ r \o e # << >>
         /\ Head(r \o e).op = "return" => x \in Q /\ Tail(r \o e) = << >>
         /\ Head(r \o e).op # "return" =>
              /\ Right(Head(r \o e), x) /\ x \in State
              /\ \A y : Moves(Head(r \o e), x, y) => Leads(R, x, r \o e, y, e)
<1>1. x \in State /\ IsScript(r)
  BY DEF Safe, Fits
<1>2. CASE r = << >>
  <2>1. r \o e = e
    BY <1>1, <1>2, ScriptsConcat
  <2>2. x \in Q
    BY <1>2 DEF Safe, Fits
  <2> QED
    BY <2>1, <2>2
<1>3. CASE r # << >>
  <2>1. /\ r \o e # << >> /\ Head(r \o e) = Head(r) /\ Tail(r \o e) = Tail(r) \o e
        /\ IsScript(Tail(r))
    BY <1>1, <1>3, ScriptsConcat
  <2>2. /\ Right(Head(r), x) /\ IsScript(Chosen(Head(r), x))
        /\ \A y : Moves(Head(r), x, y) => <<y, Chosen(Head(r), x) \o Tail(r)>> \in R
    BY <1>3 DEF Safe, Fits
  <2>3. Head(r \o e).op # "return"
    BY <2>1, <2>2 DEF Right
  <2> DEFINE c == Chosen(Head(r), x)
             l == Tail(r)
  <2>4. (c \o l) \o e = c \o (l \o e)
    <3>1. IsScript(c) /\ IsScript(l)
      BY <2>1, <2>2
    <3> HIDE DEF c, l
    <3> QED
      BY <3>1, ScriptsAssociative
  <2>5. ASSUME NEW y, Moves(Head(r \o e), x, y)
        PROVE  Leads(R, x, r \o e, y, e)
    <3>1. <<y, c \o l>> \in R
      BY <2>1, <2>2, <2>5
    <3>2. Chosen(Head(r \o e), x) \o Tail(r \o e) = (c \o l) \o e
      BY <2>1, <2>4
    <3> QED
      BY <3>1, <3>2 DEF Leads
  <2> QED
    BY <1>1, <2>1, <2>2, <2>3, <2>5
<1> QED
  BY <1>2, <1>3

(* What the next step of a thread finds.                                   *)
LEMMA Facing ==
  ASSUME NEW CONSTANT g, InvWith(g), NEW t \in Thread, todo[t] # << >>
  PROVE  /\ Current(t).op = "return" =>
              Local(t, g) \in Base(<< >>) /\ Tail(todo[t]) = << >>
         /\ Current(t).op # "return" => Right(Current(t), Local(t, g)) /\ Local(t, g) \in State
<1>1. PICK r, R : /\ todo[t] = r \o Do("return", "")
                  /\ Safe(R, Base(<< >>)) /\ <<Local(t, g), r>> \in R
  BY DEF InvWith, Between, Within
<1> DEFINE x == Local(t, g)
           e == Do("return", "")
<1>2. IsScript(e) /\ e # << >> /\ Head(e).op = "return" /\ Tail(e) = << >>
  BY ReturnScript
<1>3. Safe(R, Base(<< >>)) /\ <<x, r>> \in R /\ todo[t] = r \o e
  BY <1>1
<1> HIDE DEF x, e
<1>4. /\ Head(r \o e).op = "return" => x \in Base(<< >>) /\ Tail(r \o e) = << >>
      /\ Head(r \o e).op # "return" => Right(Head(r \o e), x) /\ x \in State
  BY <1>2, <1>3, ScriptLeft
<1> QED
  BY <1>3, <1>4 DEF Current, x

(* A step of the script of one thread keeps the invariant.                 *)
LEMMA StepLeads ==
  ASSUME NEW CONSTANT g, NEW CONSTANT f, InvWith(g), Shape', OnThreads(f),
         NEW t \in Thread, todo[t] # << >>, Current(t).op # "return",
         todo' = [todo EXCEPT ![t] = Chosen(Current(t), Local(t, g)) \o Tail(@)],
         Moves(Current(t), Local(t, g), Local(t, f)'),
         \A u \in Thread \ {t} : Local(u, f)' = Local(u, g),
         Told(f)'
  PROVE  InvWith(f)'
<1>1. OnThreads(todo)
  BY DEF InvWith, Shape
<1>2. /\ todo'[t] = Chosen(Current(t), Local(t, g)) \o Tail(todo[t])
      /\ \A u \in Thread \ {t} : todo'[u] = todo[u]
  BY <1>1 DEF OnThreads
<1>3. Within(t, f)'
  <2>1. PICK r, R : /\ todo[t] = r \o Do("return", "")
                    /\ Safe(R, Base(<< >>)) /\ <<Local(t, g), r>> \in R
    BY DEF InvWith, Between, Within
  <2>2. \E r1 : /\ Chosen(Current(t), Local(t, g)) \o Tail(todo[t]) = r1 \o Do("return", "")
                /\ <<Local(t, f)', r1>> \in R
    <3> DEFINE x == Local(t, g)
               y == Local(t, f)'
               e == Do("return", "")
    <3>1. IsScript(e) /\ e # << >> /\ Head(e).op = "return" /\ Tail(e) = << >>
      BY ReturnScript
    <3>2. Safe(R, Base(<< >>)) /\ <<x, r>> \in R /\ todo[t] = r \o e
      BY <2>1
    <3>3. Head(r \o e).op # "return" /\ Moves(Head(r \o e), x, y)
      BY <3>2 DEF Current
    <3> HIDE DEF x, y, e
    <3>4. Leads(R, x, r \o e, y, e)
      BY <3>1, <3>2, <3>3, ScriptLeft
    <3> QED
      BY <3>2, <3>4 DEF Leads, x, y, e, Current
  <2> QED
    BY <1>2, <2>1, <2>2 DEF Within
<1>4. ASSUME NEW u \in Thread \ {t}
      PROVE  Between(u, f)' \/ Within(u, f)'
  BY <1>2 DEF InvWith, Between, Within
<1> QED
  BY <1>3, <1>4 DEF InvWith

(* The same when no event begins or ends.                                  *)
LEMMA StepKeeps ==
  ASSUME NEW CONSTANT g, InvWith(g), Shape', NEW t \in Thread, todo[t] # << >>,
         Current(t).op # "return",
         todo' = [todo EXCEPT ![t] = Chosen(Current(t), Local(t, g)) \o Tail(@)],
         Moves(Current(t), Local(t, g), Local(t, g)'),
         \A u \in Thread \ {t} : Local(u, g)' = Local(u, g),
         UNCHANGED <<open, dropped>>
  PROVE  InvWith(g)'
<1>1. OnThreads(g) /\ Told(g)'
  BY DEF InvWith, Told, Whole
<1> QED
  BY <1>1, StepLeads

(* What a thread sees depends on these only.                               *)
LEMMA MapsSame ==
  ASSUME NEW u \in Thread,
         \A m \in Tracer \X Ids :
           [thread |-> u, by |-> m[1], buf |-> m[2]] \in maps'
           <=> [thread |-> u, by |-> m[1], buf |-> m[2]] \in maps
  PROVE  MapsOf(u)' = MapsOf(u)
  BY DEF MapsOf

LEMMA HoldsSame ==
  ASSUME NEW u \in Thread,
         context_mutex' = u <=> context_mutex = u, u \in locked' <=> u \in locked
  PROVE  HoldsOf(u)' = HoldsOf(u)
  BY DEF HoldsOf

LEMMA ViewWith ==
  ASSUME NEW p, NEW M, NEW h, NEW o, NEW n, NEW k, NEW v
  PROVE  LET w == View(p, M, h, o, n, k)
         IN  /\ w.ptr = p /\ w.maps = M /\ w.holds = h /\ w.open = o
             /\ w.sent = n /\ w.hooks = k
             /\ WithMaps(w, v) = View(p, v, h, o, n, k)
             /\ WithHolds(w, v) = View(p, M, v, o, n, k)
             /\ WithOpen(w, v) = View(p, M, h, v, n, k)
             /\ WithSent(w, v) = View(p, M, h, o, v, k)
  BY DEF View, WithMaps, WithHolds, WithOpen, WithSent

LEMMA ViewWithPtr ==
  ASSUME NEW p, NEW M, NEW h, NEW o, NEW n, NEW k, NEW by, NEW v
  PROVE  WithPtr(View(p, M, h, o, n, k), by, v)
           = View([p EXCEPT ![by] = v], M, h, o, n, k)
  BY DEF View, WithPtr

LEMMA LocalFields ==
  ASSUME NEW CONSTANT g, NEW t \in Thread
  PROVE  /\ Local(t, g).ptr = ptr[t] /\ Local(t, g).maps = MapsOf(t)
         /\ Local(t, g).holds = HoldsOf(t) /\ Local(t, g).open = g[t]
         /\ Local(t, g).sent = sent[t] /\ Local(t, g).hooks = hooks
  BY DEF Local, View

-----------------------------------------------------------------------------
(* The steps.                                                              *)

(* What is the same in all of them.                                        *)
LEMMA Stepping ==
  ASSUME NEW CONSTANT g, InvWith(g), NEW t \in Thread, todo[t] # << >>, Current(t).op # "return"
  PROVE  /\ Right(Current(t), Local(t, g)) /\ Local(t, g) \in State /\ Shape
         /\ Proceed(t) /\ Current(t).op \notin {"if", "switch"} =>
              todo' = [todo EXCEPT ![t] = Chosen(Current(t), Local(t, g)) \o Tail(@)]
<1>1. Right(Current(t), Local(t, g)) /\ Local(t, g) \in State
  BY Facing
<1>2. Current(t).op \notin {"if", "switch"} => Chosen(Current(t), Local(t, g)) = << >>
  BY DEF Chosen
<1> QED
  BY <1>1, <1>2 DEF Proceed, Continue, InvWith

(* Steps that change the script alone.                                     *)
LEMMA QuietKeeps ==
  ASSUME NEW CONSTANT g, InvWith(g), NEW t \in Thread, todo[t] # << >>,
         Current(t).op \in {"driver", "if", "switch", "read", "iterated"},
         todo' = [todo EXCEPT ![t] = Chosen(Current(t), Local(t, g)) \o Tail(@)],
         UNCHANGED <<context_mutex, ptr, maps, locked, open, dropped, sent, hooks>>
  PROVE  InvWith(g)'
<1>1. Shape /\ Current(t).op # "return"
  BY DEF InvWith
<1>2. \A u \in Thread : Local(u, g)' = Local(u, g)
  BY MapsSame, HoldsSame DEF Local
<1>3. Moves(Current(t), Local(t, g), Local(t, g)')
  BY <1>2 DEF Moves
<1>4. OnThreads(todo)'
  BY <1>1 DEF Shape, OnThreads
<1>5. Shape'
  BY <1>1, <1>4 DEF Shape, OnThreads
<1> QED
  BY <1>1, <1>2, <1>3, <1>5, StepKeeps

LEMMA DriverKeeps ==
  ASSUME NEW CONSTANT g, InvWith(g), NEW t \in Thread, Driver(t)
  PROVE  InvWith(g)'
<1>1. /\ todo[t] # << >> /\ Current(t).op = "driver" /\ Proceed(t)
      /\ UNCHANGED <<context_mutex, ptr, maps, locked, open, dropped, sent, hooks>>
  BY DEF Driver, At
<1> QED
  BY <1>1, Stepping, QuietKeeps

LEMMA ReadKeeps ==
  ASSUME NEW CONSTANT g, InvWith(g), NEW t \in Thread, Read(t)
  PROVE  InvWith(g)'
<1>1. /\ todo[t] # << >> /\ Current(t).op \in {"read", "iterated"} /\ Proceed(t)
      /\ UNCHANGED <<context_mutex, ptr, maps, locked, open, dropped, sent, hooks>>
  BY DEF Read
<1> QED
  BY <1>1, Stepping, QuietKeeps

LEMMA TestHookKeeps ==
  ASSUME NEW CONSTANT g, InvWith(g), NEW t \in Thread, TestHook(t)
  PROVE  InvWith(g)'
<1>1. /\ todo[t] # << >> /\ Current(t).op = "if"
      /\ UNCHANGED <<context_mutex, ptr, maps, locked, open, dropped, sent, hooks>>
  BY DEF TestHook, At
<1>2. Chosen(Current(t), Local(t, g))
        = IF Current(t).arg \in hooks THEN Current(t).then ELSE Current(t).else
  BY <1>1, LocalFields DEF Chosen
<1>3. todo' = [todo EXCEPT ![t] = Chosen(Current(t), Local(t, g)) \o Tail(@)]
  BY <1>2 DEF TestHook, Continue
<1> QED
  BY <1>1, <1>3, QuietKeeps

LEMMA SwitchOnKeeps ==
  ASSUME NEW CONSTANT g, InvWith(g), NEW t \in Thread, SwitchOn(t)
  PROVE  InvWith(g)'
<1>1. /\ todo[t] # << >> /\ Current(t).op = "switch"
      /\ UNCHANGED <<context_mutex, ptr, maps, locked, open, dropped, sent, hooks>>
  BY DEF SwitchOn, At
<1> DEFINE p == ptr[t][Current(t).arg]
           is == CASE p = NULL -> "null" [] p = FAILED -> "failed" [] OTHER -> "mapped"
<1>2. is = IF p = NULL THEN "null" ELSE IF p = FAILED THEN "failed" ELSE "mapped"
  BY RenderAssumption
<1>3. Continue(t, Current(t).of[is])
  BY DEF SwitchOn
<1> HIDE DEF is
<1>4. Chosen(Current(t), Local(t, g)) = Current(t).of[is]
  BY <1>1, <1>2, LocalFields DEF Chosen
<1>5. todo' = [todo EXCEPT ![t] = Chosen(Current(t), Local(t, g)) \o Tail(@)]
  BY <1>3, <1>4 DEF Continue
<1> QED
  BY <1>1, <1>5, QuietKeeps

(* An event that begins or ends, in the file or dropped.                   *)
LEMMA BeginKeeps ==
  ASSUME NEW CONSTANT g, InvWith(g), NEW t \in Thread, Begin(t)
  PROVE  RenderInv'
<1> DEFINE s == Append(g[t], Current(t).arg)
           v == Append(open[t], Current(t).arg)
<1>1. /\ todo[t] # << >> /\ Current(t).op = "begin" /\ Proceed(t)
      /\ WriteEvent(t, v)
      /\ UNCHANGED <<context_mutex, ptr, maps, locked, sent, hooks>>
  BY DEF Begin, At
<1>2. Shape /\ todo' = [todo EXCEPT ![t] = Chosen(Current(t), Local(t, g)) \o Tail(@)]
  BY <1>1, Stepping
<1>3. ~dropped[t] => v = s
  BY DEF InvWith, Told, Whole
<1> HIDE DEF s, v
<1> PICK f : f = [g EXCEPT ![t] = s]
  OBVIOUS
<1>4. /\ OnThreads(f) /\ f[t] = s /\ \A u \in Thread \ {t} : f[u] = g[u]
      /\ OnThreads(open') /\ OnThreads(dropped') /\ Told(f)'
  <2>1. OnThreads(g) /\ OnThreads(open) /\ OnThreads(dropped)
    BY DEF InvWith, Shape
  <2>2. OnThreads(f) /\ f[t] = s /\ \A u \in Thread \ {t} : f[u] = g[u]
    BY <2>1 DEF OnThreads
  <2>3. CASE open' = [open EXCEPT ![t] = v] /\ UNCHANGED dropped
    <3>1. OnThreads(open') /\ open'[t] = v /\ \A u \in Thread \ {t} : open'[u] = open[u]
      BY <2>1, <2>3 DEF OnThreads
    <3>2. OnThreads(dropped') /\ \A u \in Thread : dropped'[u] = dropped[u]
      BY <2>1, <2>3 DEF OnThreads
    <3> QED
      BY <1>3, <2>2, <3>1, <3>2 DEF InvWith, Told, Whole
  <2>4. CASE dropped' = [dropped EXCEPT ![t] = TRUE] /\ UNCHANGED open
    <3>1. /\ OnThreads(dropped') /\ dropped'[t] = TRUE
          /\ \A u \in Thread \ {t} : dropped'[u] = dropped[u]
      BY <2>1, <2>4 DEF OnThreads
    <3>2. OnThreads(open') /\ \A u \in Thread : open'[u] = open[u]
      BY <2>1, <2>4 DEF OnThreads
    <3> QED
      BY <2>2, <3>1, <3>2 DEF InvWith, Told, Whole
  <2> QED
    BY <1>1, <2>3, <2>4 DEF WriteEvent
<1>5. Moves(Current(t), Local(t, g), Local(t, f)')
  <2>1. Local(t, f)' = WithOpen(Local(t, g), s)
    BY <1>1, <1>4, MapsSame, HoldsSame, ViewWith DEF Local
  <2>2. s = Append(Local(t, g).open, Current(t).arg)
    BY LocalFields DEF s
  <2> QED
    BY <1>1, <2>1, <2>2 DEF Moves
<1>6. \A u \in Thread \ {t} : Local(u, f)' = Local(u, g)
  BY <1>1, <1>4, MapsSame, HoldsSame DEF Local
<1>7. Shape'
  BY <1>1, <1>2, <1>4 DEF Shape, OnThreads
<1>8. InvWith(f)'
  BY <1>1, <1>2, <1>4, <1>5, <1>6, <1>7, StepLeads
<1> QED
  BY <1>8 DEF RenderInv

LEMMA EndKeeps ==
  ASSUME NEW CONSTANT g, InvWith(g), NEW t \in Thread, End(t)
  PROVE  RenderInv'
<1> DEFINE s == Front(g[t])
           v == IF open[t] # << >> /\ Last(open[t]) = Current(t).arg
                THEN Front(open[t]) ELSE Append(open[t], "unmatched")
<1>1. /\ todo[t] # << >> /\ Current(t).op = "end" /\ Proceed(t)
      /\ WriteEvent(t, v)
      /\ UNCHANGED <<context_mutex, ptr, maps, locked, sent, hooks>>
  BY DEF End, At
<1>2. /\ Shape /\ todo' = [todo EXCEPT ![t] = Chosen(Current(t), Local(t, g)) \o Tail(@)]
      /\ Right(Current(t), Local(t, g))
  BY <1>1, Stepping
<1>3. ~dropped[t] => v = s
  <2>1. g[t] # << >> /\ Last(g[t]) = Current(t).arg
    BY <1>1, <1>2, LocalFields DEF Right
  <2> QED
    BY <2>1 DEF InvWith, Told, Whole
<1> HIDE DEF s, v
<1> PICK f : f = [g EXCEPT ![t] = s]
  OBVIOUS
<1>4. /\ OnThreads(f) /\ f[t] = s /\ \A u \in Thread \ {t} : f[u] = g[u]
      /\ OnThreads(open') /\ OnThreads(dropped') /\ Told(f)'
  <2>1. OnThreads(g) /\ OnThreads(open) /\ OnThreads(dropped)
    BY DEF InvWith, Shape
  <2>2. OnThreads(f) /\ f[t] = s /\ \A u \in Thread \ {t} : f[u] = g[u]
    BY <2>1 DEF OnThreads
  <2>3. CASE open' = [open EXCEPT ![t] = v] /\ UNCHANGED dropped
    <3>1. OnThreads(open') /\ open'[t] = v /\ \A u \in Thread \ {t} : open'[u] = open[u]
      BY <2>1, <2>3 DEF OnThreads
    <3>2. OnThreads(dropped') /\ \A u \in Thread : dropped'[u] = dropped[u]
      BY <2>1, <2>3 DEF OnThreads
    <3> QED
      BY <1>3, <2>2, <3>1, <3>2 DEF InvWith, Told, Whole
  <2>4. CASE dropped' = [dropped EXCEPT ![t] = TRUE] /\ UNCHANGED open
    <3>1. /\ OnThreads(dropped') /\ dropped'[t] = TRUE
          /\ \A u \in Thread \ {t} : dropped'[u] = dropped[u]
      BY <2>1, <2>4 DEF OnThreads
    <3>2. OnThreads(open') /\ \A u \in Thread : open'[u] = open[u]
      BY <2>1, <2>4 DEF OnThreads
    <3> QED
      BY <2>2, <3>1, <3>2 DEF InvWith, Told, Whole
  <2> QED
    BY <1>1, <2>3, <2>4 DEF WriteEvent
<1>5. Moves(Current(t), Local(t, g), Local(t, f)')
  <2>1. Local(t, f)' = WithOpen(Local(t, g), s)
    BY <1>1, <1>4, MapsSame, HoldsSame, ViewWith DEF Local
  <2>2. s = Front(Local(t, g).open)
    BY LocalFields DEF s
  <2> QED
    BY <1>1, <2>1, <2>2 DEF Moves
<1>6. \A u \in Thread \ {t} : Local(u, f)' = Local(u, g)
  BY <1>1, <1>4, MapsSame, HoldsSame DEF Local
<1>7. Shape'
  BY <1>1, <1>2, <1>4 DEF Shape, OnThreads
<1>8. InvWith(f)'
  BY <1>1, <1>2, <1>4, <1>5, <1>6, <1>7, StepLeads
<1> QED
  BY <1>8 DEF RenderInv

LEMMA EventKeeps ==
  ASSUME NEW CONSTANT g, InvWith(g), NEW t \in Thread, va_TraceEvent(t)
  PROVE  InvWith(g)'
<1> DEFINE n == IF Carries(Current(t).extra + Current(t).bytes)
                THEN sent[t] + Current(t).bytes ELSE sent[t]
<1>1. /\ todo[t] # << >> /\ Current(t).op = "data" /\ Proceed(t)
      /\ sent' = [sent EXCEPT ![t] = n]
      /\ UNCHANGED <<context_mutex, ptr, maps, locked, open, dropped, hooks>>
  BY DEF va_TraceEvent, At
<1>2. Shape /\ todo' = [todo EXCEPT ![t] = Chosen(Current(t), Local(t, g)) \o Tail(@)]
  BY <1>1, Stepping
<1> HIDE DEF n
<1>3. /\ OnThreads(sent') /\ sent'[t] = n
      /\ \A u \in Thread \ {t} : sent'[u] = sent[u]
  BY <1>1, <1>2 DEF Shape, OnThreads
<1>4. Moves(Current(t), Local(t, g), Local(t, g)')
  <2>1. Local(t, g)' = WithSent(Local(t, g), n)
    BY <1>1, <1>3, MapsSame, HoldsSame, ViewWith DEF Local
  <2> QED
    BY <1>1, <2>1, LocalFields DEF Moves, n
<1>5. \A u \in Thread \ {t} : Local(u, g)' = Local(u, g)
  BY <1>1, <1>3, MapsSame, HoldsSame DEF Local
<1>6. Shape'
  BY <1>1, <1>2, <1>3 DEF Shape, OnThreads
<1> QED
  BY <1>1, <1>2, <1>4, <1>5, <1>6, StepKeeps

LEMMA LockKeeps ==
  ASSUME NEW CONSTANT g, InvWith(g), NEW t \in Thread, Lock(t)
  PROVE  InvWith(g)'
<1>1. /\ todo[t] # << >> /\ Current(t).op = "lock" /\ Proceed(t)
      /\ context_mutex = NULL /\ context_mutex' = t
      /\ UNCHANGED <<ptr, maps, locked, open, dropped, sent, hooks>>
  BY DEF Lock, At
<1>2. Shape /\ todo' = [todo EXCEPT ![t] = Chosen(Current(t), Local(t, g)) \o Tail(@)]
  BY <1>1, Stepping
<1>3. Moves(Current(t), Local(t, g), Local(t, g)')
  <2>1. HoldsOf(t)' = HoldsOf(t) \cup {"mutex"}
    BY <1>1 DEF HoldsOf
  <2>2. Local(t, g)' = WithHolds(Local(t, g), HoldsOf(t) \cup {"mutex"})
    BY <1>1, <2>1, MapsSame, ViewWith DEF Local
  <2> QED
    BY <1>1, <2>2, LocalFields DEF Moves
<1>4. \A u \in Thread \ {t} : Local(u, g)' = Local(u, g)
  <2>1. \A u \in Thread \ {t} : context_mutex' # u /\ context_mutex # u
    BY <1>1, RenderAssumption
  <2> QED
    BY <1>1, <2>1, MapsSame, HoldsSame DEF Local
<1>5. Shape'
  BY <1>1, <1>2 DEF Shape, OnThreads
<1> QED
  BY <1>1, <1>2, <1>3, <1>4, <1>5, StepKeeps

LEMMA UnlockKeeps ==
  ASSUME NEW CONSTANT g, InvWith(g), NEW t \in Thread, Unlock(t)
  PROVE  InvWith(g)'
<1>1. /\ todo[t] # << >> /\ Current(t).op = "unlock" /\ Proceed(t)
      /\ context_mutex' = NULL
      /\ UNCHANGED <<ptr, maps, locked, open, dropped, sent, hooks>>
  BY DEF Unlock, At
<1>2. /\ Shape /\ todo' = [todo EXCEPT ![t] = Chosen(Current(t), Local(t, g)) \o Tail(@)]
      /\ Right(Current(t), Local(t, g))
  BY <1>1, Stepping
<1>3. context_mutex = t
  BY <1>1, <1>2, LocalFields DEF Right, HoldsOf
<1>4. Moves(Current(t), Local(t, g), Local(t, g)')
  <2>1. HoldsOf(t)' = HoldsOf(t) \ {"mutex"}
    BY <1>1, <1>3, RenderAssumption DEF HoldsOf
  <2>2. Local(t, g)' = WithHolds(Local(t, g), HoldsOf(t) \ {"mutex"})
    BY <1>1, <2>1, MapsSame, ViewWith DEF Local
  <2> QED
    BY <1>1, <2>2, LocalFields DEF Moves
<1>5. \A u \in Thread \ {t} : Local(u, g)' = Local(u, g)
  <2>1. \A u \in Thread \ {t} : context_mutex' # u /\ context_mutex # u
    BY <1>1, <1>3, RenderAssumption
  <2> QED
    BY <1>1, <2>1, MapsSame, HoldsSame DEF Local
<1>6. Shape'
  BY <1>1, <1>2 DEF Shape, OnThreads
<1> QED
  BY <1>1, <1>2, <1>4, <1>5, <1>6, StepKeeps

(* A buffer mapped, or unmapped, in what the thread sees and for the rest. *)
LEMMA MapsChange ==
  ASSUME Shape, NEW t \in Thread, NEW by \in Tracer, NEW i \in Ids
  PROVE  LET m == [thread |-> t, by |-> by, buf |-> i]
         IN  /\ m \in [thread : Thread, by : Tracer, buf : Ids]
             /\ maps' = maps \cup {m} =>
                  /\ MapsOf(t)' = MapsOf(t) \cup {<<by, i>>}
                  /\ \A u \in Thread \ {t} : MapsOf(u)' = MapsOf(u)
             /\ maps' = maps \ {m} =>
                  /\ MapsOf(t)' = MapsOf(t) \ {<<by, i>>}
                  /\ \A u \in Thread \ {t} : MapsOf(u)' = MapsOf(u)
<1> DEFINE m == [thread |-> t, by |-> by, buf |-> i]
           rec(u, n) == [thread |-> u, by |-> n[1], buf |-> n[2]]
<1>1. m \in [thread : Thread, by : Tracer, buf : Ids]
  OBVIOUS
<1>2. ASSUME NEW n \in Tracer \X Ids
      PROVE  rec(t, n) = m <=> n = <<by, i>>
  <2>1. n = <<n[1], n[2]>>
    OBVIOUS
  <2> QED
    BY <2>1
<1>3. <<by, i>> \in Tracer \X Ids
  OBVIOUS
<1>4. ASSUME NEW u \in Thread \ {t}, NEW n \in Tracer \X Ids
      PROVE  rec(u, n) # m
  OBVIOUS
<1>5. \A u : MapsOf(u) = {n \in Tracer \X Ids : rec(u, n) \in maps}
  BY DEF MapsOf
<1>6. \A u : MapsOf(u)' = {n \in Tracer \X Ids : rec(u, n) \in maps'}
  BY DEF MapsOf
<1> HIDE DEF m, rec
<1>7. ASSUME maps' = maps \cup {m}
      PROVE  /\ MapsOf(t)' = MapsOf(t) \cup {<<by, i>>}
             /\ \A u \in Thread \ {t} : MapsOf(u)' = MapsOf(u)
  BY <1>2, <1>3, <1>4, <1>5, <1>6, <1>7
<1>8. ASSUME maps' = maps \ {m}
      PROVE  /\ MapsOf(t)' = MapsOf(t) \ {<<by, i>>}
             /\ \A u \in Thread \ {t} : MapsOf(u)' = MapsOf(u)
  BY <1>2, <1>3, <1>4, <1>5, <1>6, <1>8
<1> QED
  BY <1>1, <1>7, <1>8 DEF m

LEMMA MapBufferKeeps ==
  ASSUME NEW CONSTANT g, InvWith(g), NEW t \in Thread, MapBuffer(t)
  PROVE  InvWith(g)'
<1> DEFINE by == Current(t).arg
           b == Current(t).buf
           i == b.id
           m == [thread |-> t, by |-> by, buf |-> i]
<1>1. /\ todo[t] # << >> /\ Current(t).op = "map" /\ Proceed(t)
      /\ \/ ptr' = [ptr EXCEPT ![t][by] = b] /\ maps' = maps \cup {m}
         \/ UNCHANGED <<ptr, maps>>
      /\ UNCHANGED <<context_mutex, locked, open, dropped, sent, hooks>>
  BY DEF MapBuffer, At
<1>2. /\ Shape /\ todo' = [todo EXCEPT ![t] = Chosen(Current(t), Local(t, g)) \o Tail(@)]
      /\ Right(Current(t), Local(t, g))
  BY <1>1, Stepping
<1>3. by \in Tracer /\ i \in Ids
  BY <1>1, <1>2 DEF Right, Ids
<1>4. CASE UNCHANGED <<ptr, maps>>
  <2>1. \A u \in Thread : Local(u, g)' = Local(u, g)
    BY <1>1, <1>4, MapsSame, HoldsSame DEF Local
  <2>2. Moves(Current(t), Local(t, g), Local(t, g)')
    BY <1>1, <2>1 DEF Moves
  <2>3. Shape'
    BY <1>1, <1>2, <1>4 DEF Shape, OnThreads
  <2> QED
    BY <1>1, <1>2, <2>1, <2>2, <2>3, StepKeeps
<1>5. CASE ptr' = [ptr EXCEPT ![t][by] = b] /\ maps' = maps \cup {m}
  <2>1. /\ OnThreads(ptr') /\ ptr'[t] = [ptr[t] EXCEPT ![by] = b]
        /\ \A u \in Thread \ {t} : ptr'[u] = ptr[u]
    BY <1>2, <1>5 DEF Shape, OnThreads
  <2>2. /\ m \in [thread : Thread, by : Tracer, buf : Ids]
        /\ MapsOf(t)' = MapsOf(t) \cup {<<by, i>>}
        /\ \A u \in Thread \ {t} : MapsOf(u)' = MapsOf(u)
    <3> HIDE DEF by, i
    <3> QED
      BY <1>2, <1>3, <1>5, MapsChange
  <2>3. Moves(Current(t), Local(t, g), Local(t, g)')
    <3> DEFINE q == [ptr[t] EXCEPT ![by] = b]
               M == MapsOf(t) \cup {<<by, i>>}
    <3>1. Local(t, g)' = View(q, M, HoldsOf(t), g[t], sent[t], hooks)
      BY <1>1, <2>1, <2>2, HoldsSame DEF Local
    <3>2. WithPtr(Local(t, g), by, b) = View(q, MapsOf(t), HoldsOf(t), g[t], sent[t], hooks)
      BY ViewWithPtr DEF Local
    <3> HIDE DEF q, M
    <3>3. Local(t, g)' = WithMaps(WithPtr(Local(t, g), by, b), M)
      BY <3>1, <3>2, ViewWith
    <3>4. Local(t, g)' = WithMaps(WithPtr(Local(t, g), by, b), Local(t, g).maps \cup {<<by, i>>})
      BY <3>3, LocalFields DEF M
    <3> QED
      BY <1>1, <3>4 DEF Moves
  <2>4. \A u \in Thread \ {t} : Local(u, g)' = Local(u, g)
    BY <1>1, <2>1, <2>2, HoldsSame DEF Local
  <2>5. Shape'
    BY <1>1, <1>2, <1>5, <2>1, <2>2 DEF Shape, OnThreads
  <2> HIDE DEF by, i, m
  <2> QED
    BY <1>1, <1>2, <2>3, <2>4, <2>5, StepKeeps
<1> QED
  BY <1>1, <1>4, <1>5

LEMMA UnmapBufferKeeps ==
  ASSUME NEW CONSTANT g, InvWith(g), NEW t \in Thread, UnmapBuffer(t)
  PROVE  InvWith(g)'
<1> DEFINE by == Current(t).arg
           i == Current(t).buf.id
           m == [thread |-> t, by |-> by, buf |-> i]
<1>1. /\ todo[t] # << >> /\ Current(t).op = "unmap" /\ Proceed(t)
      /\ maps' = maps \ {m}
      /\ UNCHANGED <<context_mutex, ptr, locked, open, dropped, sent, hooks>>
  BY DEF UnmapBuffer, At
<1>2. /\ Shape /\ todo' = [todo EXCEPT ![t] = Chosen(Current(t), Local(t, g)) \o Tail(@)]
      /\ Right(Current(t), Local(t, g))
  BY <1>1, Stepping
<1>3. by \in Tracer /\ i \in Ids
  BY <1>1, <1>2 DEF Right, Ids
<1>4. /\ MapsOf(t)' = MapsOf(t) \ {<<by, i>>}
      /\ \A u \in Thread \ {t} : MapsOf(u)' = MapsOf(u)
  <2> HIDE DEF by, i
  <2> QED
    BY <1>1, <1>2, <1>3, MapsChange
<1>5. Moves(Current(t), Local(t, g), Local(t, g)')
  <2>1. Local(t, g)' = WithMaps(Local(t, g), MapsOf(t) \ {<<by, i>>})
    BY <1>1, <1>4, HoldsSame, ViewWith DEF Local
  <2> QED
    BY <1>1, <2>1, LocalFields DEF Moves
<1>6. \A u \in Thread \ {t} : Local(u, g)' = Local(u, g)
  BY <1>1, <1>4, HoldsSame DEF Local
<1>7. Shape'
  BY <1>1, <1>2 DEF Shape, OnThreads
<1> HIDE DEF by, i, m
<1> QED
  BY <1>1, <1>2, <1>5, <1>6, <1>7, StepKeeps

LEMMA ResetPointerKeeps ==
  ASSUME NEW CONSTANT g, InvWith(g), NEW t \in Thread, ResetPointer(t)
  PROVE  InvWith(g)'
<1> DEFINE by == Current(t).arg
           n == IF by = "event" THEN 0 ELSE sent[t]
           q == [ptr[t] EXCEPT ![by] = NULL]
<1>1. /\ todo[t] # << >> /\ Current(t).op = "reset" /\ Proceed(t)
      /\ ptr' = [ptr EXCEPT ![t][by] = NULL]
      /\ sent' = [sent EXCEPT ![t] = n]
      /\ UNCHANGED <<context_mutex, maps, locked, open, dropped, hooks>>
  BY DEF ResetPointer, At
<1>2. Shape /\ todo' = [todo EXCEPT ![t] = Chosen(Current(t), Local(t, g)) \o Tail(@)]
  BY <1>1, Stepping
<1>3. /\ OnThreads(ptr') /\ ptr'[t] = q
      /\ \A u \in Thread \ {t} : ptr'[u] = ptr[u]
  BY <1>1, <1>2 DEF Shape, OnThreads
<1> HIDE DEF n
<1>4. /\ OnThreads(sent') /\ sent'[t] = n
      /\ \A u \in Thread \ {t} : sent'[u] = sent[u]
  BY <1>1, <1>2 DEF Shape, OnThreads
<1>5. Moves(Current(t), Local(t, g), Local(t, g)')
  <2>1. Local(t, g)' = View(q, MapsOf(t), HoldsOf(t), g[t], n, hooks)
    BY <1>1, <1>3, <1>4, MapsSame, HoldsSame DEF Local
  <2>2. WithPtr(Local(t, g), by, NULL)
          = View(q, MapsOf(t), HoldsOf(t), g[t], sent[t], hooks)
    BY ViewWithPtr DEF Local
  <2> HIDE DEF q
  <2>3. Local(t, g)' = WithSent(WithPtr(Local(t, g), by, NULL), n)
    BY <2>1, <2>2, ViewWith
  <2> QED
    BY <1>1, <2>3, LocalFields DEF Moves, n
<1>6. \A u \in Thread \ {t} : Local(u, g)' = Local(u, g)
  BY <1>1, <1>3, <1>4, MapsSame, HoldsSame DEF Local
<1>7. Shape'
  BY <1>1, <1>2, <1>3, <1>4 DEF Shape, OnThreads
<1> HIDE DEF by, q
<1> QED
  BY <1>1, <1>2, <1>5, <1>6, <1>7, StepKeeps

LEMMA LockSurfaceKeeps ==
  ASSUME NEW CONSTANT g, InvWith(g), NEW t \in Thread, DriverLockSurface(t)
  PROVE  InvWith(g)'
<1>1. /\ todo[t] # << >> /\ Current(t).op = "lockSurface" /\ Proceed(t)
      /\ UNCHANGED <<context_mutex, maps, open, dropped, sent, hooks>>
  BY DEF DriverLockSurface, At
<1>2. Shape /\ todo' = [todo EXCEPT ![t] = Chosen(Current(t), Local(t, g)) \o Tail(@)]
  BY <1>1, Stepping
<1>3. PICK d \in {NULL, PIXELS, FAILED} :
        /\ ptr' = [ptr EXCEPT ![t]["surface"] = d]
        /\ \/ d \in {NULL, PIXELS} /\ locked' = locked \cup {t}
           \/ d = FAILED /\ locked' = locked
  BY DEF DriverLockSurface
<1> DEFINE q == [ptr[t] EXCEPT !["surface"] = d]
<1>4. /\ OnThreads(ptr') /\ ptr'[t] = q
      /\ \A u \in Thread \ {t} : ptr'[u] = ptr[u]
  BY <1>2, <1>3 DEF Shape, OnThreads
<1>5. /\ locked' \subseteq Thread /\ \A u \in Thread \ {t} : u \in locked' <=> u \in locked
  BY <1>2, <1>3 DEF Shape
<1>6. WithPtr(Local(t, g), "surface", d)
        = View(q, MapsOf(t), HoldsOf(t), g[t], sent[t], hooks)
  BY ViewWithPtr DEF Local
<1>7. Local(t, g)' = View(q, MapsOf(t), HoldsOf(t)', g[t], sent[t], hooks)
  BY <1>1, <1>4, MapsSame DEF Local
<1> HIDE DEF q
<1>8. Moves(Current(t), Local(t, g), Local(t, g)')
  <2>1. CASE d \in {NULL, PIXELS} /\ locked' = locked \cup {t}
    <3>1. HoldsOf(t)' = HoldsOf(t) \cup {"surface"}
      BY <1>1, <2>1 DEF HoldsOf
    <3>2. Local(t, g)' = WithHolds(WithPtr(Local(t, g), "surface", d), HoldsOf(t)')
      BY <1>6, <1>7, ViewWith
    <3>3. Local(t, g)' = WithHolds(WithPtr(Local(t, g), "surface", d),
                                Local(t, g).holds \cup {"surface"})
      BY <3>1, <3>2, LocalFields
    <3> QED
      BY <1>1, <2>1, <3>3 DEF Moves
  <2>2. CASE d = FAILED /\ locked' = locked
    <3>1. HoldsOf(t)' = HoldsOf(t)
      BY <1>1, <2>2 DEF HoldsOf
    <3>2. Local(t, g)' = WithPtr(Local(t, g), "surface", FAILED)
      BY <1>6, <1>7, <2>2, <3>1
    <3> QED
      BY <1>1, <3>2 DEF Moves
  <2> QED
    BY <1>3, <2>1, <2>2
<1>9. \A u \in Thread \ {t} : Local(u, g)' = Local(u, g)
  BY <1>1, <1>4, <1>5, MapsSame, HoldsSame DEF Local
<1>10. Shape'
  BY <1>1, <1>2, <1>4, <1>5 DEF Shape, OnThreads
<1> QED
  BY <1>1, <1>2, <1>8, <1>9, <1>10, StepKeeps

LEMMA UnlockSurfaceKeeps ==
  ASSUME NEW CONSTANT g, InvWith(g), NEW t \in Thread, DriverUnlockSurface(t)
  PROVE  InvWith(g)'
<1>1. /\ todo[t] # << >> /\ Current(t).op = "unlockSurface" /\ Proceed(t)
      /\ locked' = locked \ {t}
      /\ UNCHANGED <<context_mutex, ptr, maps, open, dropped, sent, hooks>>
  BY DEF DriverUnlockSurface, At
<1>2. Shape /\ todo' = [todo EXCEPT ![t] = Chosen(Current(t), Local(t, g)) \o Tail(@)]
  BY <1>1, Stepping
<1>3. Moves(Current(t), Local(t, g), Local(t, g)')
  <2>1. HoldsOf(t)' = HoldsOf(t) \ {"surface"}
    BY <1>1 DEF HoldsOf
  <2>2. Local(t, g)' = WithHolds(Local(t, g), HoldsOf(t) \ {"surface"})
    BY <1>1, <2>1, MapsSame, ViewWith DEF Local
  <2> QED
    BY <1>1, <2>2, LocalFields DEF Moves
<1>4. \A u \in Thread \ {t} : Local(u, g)' = Local(u, g)
  <2>1. \A u \in Thread \ {t} : u \in locked' <=> u \in locked
    BY <1>1
  <2> QED
    BY <1>1, <2>1, MapsSame, HoldsSame DEF Local
<1>5. Shape'
  BY <1>1, <1>2 DEF Shape, OnThreads
<1> QED
  BY <1>1, <1>2, <1>3, <1>4, <1>5, StepKeeps

(* A thread that has just begun, or whose call is over.                    *)
LEMMA FreshView ==
  ASSUME NEW k \in SUBSET (Untested \cup OptionalHooks), CHECK_VTABLE \subseteq k
  PROVE  View([by \in Tracer |-> NULL], {}, {}, << >>, 0, k) \in Base(<< >>)
<1> DEFINE p == [by \in Tracer |-> NULL]
           w == View(p, {}, {}, << >>, 0, k)
<1>1. p \in Pointers
  BY RenderAssumption DEF Pointers, Tracer
<1>2. << >> \in Seq(Event)
  OBVIOUS
<1> HIDE DEF p
<1>3. w \in State
  BY <1>1, <1>2 DEF View, State
<1>4. w.holds = {} /\ w.open = << >> /\ w.maps = {}
  BY DEF View
<1> HIDE DEF w
<1>5. w \in Base(<< >>)
  BY <1>3, <1>4 DEF Base
<1> QED
  BY <1>5 DEF w, p

LEMMA CallKeeps ==
  ASSUME NEW CONSTANT g, InvWith(g), NEW t \in Thread, Call(t)
  PROVE  InvWith(g)'
<1>1. PICK script \in Calls(t) :
        todo' = [todo EXCEPT ![t] = script \o Do("return", "")]
  BY DEF Call
<1>2. /\ todo[t] = << >>
      /\ UNCHANGED <<context_mutex, ptr, maps, locked, open, dropped, sent, hooks>>
  BY DEF Call
<1>3. Shape
  BY DEF InvWith
<1>4. Local(t, g) \in Base(<< >>)
  <2>1. CASE Between(t, g)
    BY <2>1 DEF Between
  <2>2. CASE Within(t, g)
    <3>1. PICK r, R : /\ todo[t] = r \o Do("return", "")
                      /\ Safe(R, Base(<< >>)) /\ <<Local(t, g), r>> \in R
      BY <2>2 DEF Within
    <3> DEFINE e == Do("return", "")
               x == Local(t, g)
    <3>2. IsScript(e) /\ e # << >> /\ Head(e).op = "return" /\ Tail(e) = << >>
      BY ReturnScript
    <3>3. Safe(R, Base(<< >>)) /\ <<x, r>> \in R
      BY <3>1
    <3> HIDE DEF e, x
    <3>4. r \o e # << >>
      BY <3>2, <3>3, ScriptLeft
    <3> QED
      BY <1>2, <3>1, <3>4 DEF e
  <2> QED
    BY <2>1, <2>2 DEF InvWith
<1>5. Triple(Base(<< >>), script, Base(<< >>))
  <2>1. script \in AllCalls /\ << >> \in Seq(Event)
    BY CallsAssumption
  <2>2. Steady(script)
    BY <2>1, CallsSteady
  <2> QED
    BY <2>1, <2>2 DEF Steady
<1>6. \A u \in Thread : Local(u, g)' = Local(u, g)
  BY <1>2, MapsSame, HoldsSame DEF Local
<1>7. /\ OnThreads(todo') /\ todo'[t] = script \o Do("return", "")
      /\ \A u \in Thread \ {t} : todo'[u] = todo[u]
  BY <1>1, <1>3 DEF Shape, OnThreads
<1>8. Shape'
  BY <1>2, <1>3, <1>7 DEF Shape, OnThreads
<1>9. Within(t, g)'
  <2>1. PICK R : Safe(R, Base(<< >>)) /\ \A x \in Base(<< >>) : <<x, script>> \in R
    BY <1>5 DEF Triple
  <2>2. <<Local(t, g)', script>> \in R
    BY <1>4, <1>6, <2>1
  <2> QED
    BY <1>7, <2>1, <2>2 DEF Within
<1>10. ASSUME NEW u \in Thread \ {t}
       PROVE  Between(u, g)' \/ Within(u, g)'
  BY <1>6, <1>7 DEF InvWith, Between, Within
<1>11. OnThreads(g) /\ Told(g)'
  BY <1>2 DEF InvWith, Told, Whole
<1> QED
  BY <1>8, <1>9, <1>10, <1>11 DEF InvWith

LEMMA ReturnKeeps ==
  ASSUME NEW CONSTANT g, InvWith(g), NEW t \in Thread, Return(t)
  PROVE  InvWith(g)'
<1>1. /\ todo[t] # << >> /\ Current(t).op = "return"
      /\ todo' = [todo EXCEPT ![t] = << >> \o Tail(@)]
      /\ ptr' = [ptr EXCEPT ![t] = [by \in Tracer |-> NULL]]
      /\ open' = [open EXCEPT ![t] = << >>]
      /\ dropped' = [dropped EXCEPT ![t] = FALSE]
      /\ sent' = [sent EXCEPT ![t] = 0]
      /\ maps' = {m \in maps : m.thread # t}
      /\ UNCHANGED <<context_mutex, locked, hooks>>
  BY DEF Return, At, Proceed, Continue
<1>2. Shape
  BY DEF InvWith
<1>3. Local(t, g) \in Base(<< >>) /\ Tail(todo[t]) = << >>
  BY <1>1, Facing
<1>4. /\ OnThreads(todo') /\ todo'[t] = << >>
      /\ \A u \in Thread \ {t} : todo'[u] = todo[u]
  <2>1. << >> \o Tail(todo[t]) = << >>
    BY <1>3, EmptyScript, ScriptsConcat
  <2> QED
    BY <1>1, <1>2, <2>1 DEF Shape, OnThreads
<1>5. /\ OnThreads(ptr') /\ ptr'[t] = [by \in Tracer |-> NULL]
      /\ \A u \in Thread \ {t} : ptr'[u] = ptr[u]
  BY <1>1, <1>2 DEF Shape, OnThreads
<1>6. /\ OnThreads(sent') /\ sent'[t] = 0
      /\ \A u \in Thread \ {t} : sent'[u] = sent[u]
  BY <1>1, <1>2 DEF Shape, OnThreads
<1>7. MapsOf(t)' = {} /\ \A u \in Thread \ {t} : MapsOf(u)' = MapsOf(u)
  <2>1. \A n \in Tracer \X Ids : [thread |-> t, by |-> n[1], buf |-> n[2]] \notin maps'
    BY <1>1
  <2>2. \A u \in Thread \ {t}, n \in Tracer \X Ids :
          [thread |-> u, by |-> n[1], buf |-> n[2]] \in maps'
          <=> [thread |-> u, by |-> n[1], buf |-> n[2]] \in maps
    BY <1>1
  <2> QED
    BY <2>1, <2>2, MapsSame DEF MapsOf
<1>8. /\ HoldsOf(t) = {} /\ g[t] = << >>
      /\ hooks \in SUBSET (Untested \cup OptionalHooks) /\ CHECK_VTABLE \subseteq hooks
  <2>1. /\ Local(t, g).holds = {} /\ Local(t, g).open = << >>
        /\ Local(t, g).hooks \in SUBSET (Untested \cup OptionalHooks)
        /\ CHECK_VTABLE \subseteq Local(t, g).hooks
    BY <1>3 DEF Base, State
  <2> QED
    BY <2>1, LocalFields
<1>9. Local(t, g)' \in Base(<< >>)
  <2>1. HoldsOf(t)' = HoldsOf(t)
    BY <1>1, HoldsSame
  <2>2. Local(t, g)' = View([by \in Tracer |-> NULL], {}, {}, << >>, 0, hooks)
    BY <1>1, <1>5, <1>6, <1>7, <1>8, <2>1 DEF Local
  <2> QED
    BY <1>8, <2>2, FreshView
<1>10. \A u \in Thread \ {t} : Local(u, g)' = Local(u, g)
  BY <1>1, <1>5, <1>6, <1>7, HoldsSame DEF Local
<1>11. Shape'
  <2>1. OnThreads(open') /\ OnThreads(dropped')
    BY <1>1, <1>2 DEF Shape, OnThreads
  <2> QED
    BY <1>1, <1>2, <1>4, <1>5, <1>6, <2>1 DEF Shape, OnThreads
<1>12. Between(t, g)'
  BY <1>4, <1>9 DEF Between
<1>13. ASSUME NEW u \in Thread \ {t}
       PROVE  Between(u, g)' \/ Within(u, g)'
  BY <1>4, <1>10 DEF InvWith, Between, Within
<1>14. Told(g)'
  <2>1. OnThreads(open) /\ OnThreads(dropped) /\ OnThreads(g)
    BY <1>2 DEF InvWith, Shape
  <2>2. /\ open'[t] = << >> /\ \A u \in Thread \ {t} : open'[u] = open[u]
        /\ \A u \in Thread \ {t} : dropped'[u] = dropped[u]
    BY <1>1, <2>1 DEF OnThreads
  <2> QED
    BY <1>8, <2>2 DEF InvWith, Told, Whole
<1>15. OnThreads(g)
  BY DEF InvWith
<1> QED
  BY <1>11, <1>12, <1>13, <1>14, <1>15 DEF InvWith

LEMMA InitKeeps ==
  ASSUME Init
  PROVE  RenderInv
<1> DEFINE g == [t \in Thread |-> << >>]
<1>1. Shape /\ OnThreads(g) /\ \A t \in Thread : g[t] = << >> /\ open[t] = << >>
  BY DEF Init, Shape, OnThreads
<1>2. ASSUME NEW t \in Thread
      PROVE  Between(t, g)
  <2>1. hooks \in SUBSET (Untested \cup OptionalHooks) /\ CHECK_VTABLE \subseteq hooks
    BY RenderAssumption DEF Init, Untested
  <2>2. MapsOf(t) = {} /\ HoldsOf(t) = {}
    BY RenderAssumption DEF Init, MapsOf, HoldsOf
  <2>3. Local(t, g) = View([by \in Tracer |-> NULL], {}, {}, << >>, 0, hooks)
    BY <1>1, <2>2 DEF Init, Local
  <2> HIDE DEF g
  <2> QED
    BY <2>1, <2>3, FreshView DEF Init, Between
<1> HIDE DEF g
<1>3. InvWith(g)
  BY <1>1, <1>2 DEF InvWith, Told
<1> QED
  BY <1>3 DEF RenderInv

(* Steps of a thread, a process that dies or is dead, and stuttering.      *)
LEMMA ThreadKeeps ==
  ASSUME NEW CONSTANT g, InvWith(g), NEW t \in Thread, Step(t)
  PROVE  RenderInv'
<1>1. CASE Begin(t)
  BY <1>1, BeginKeeps
<1>2. CASE End(t)
  BY <1>2, EndKeeps
<1>3. InvWith(g)' => RenderInv'
  BY DEF RenderInv
<1>4. CASE Call(t)
  BY <1>3, <1>4, CallKeeps
<1>5. CASE Return(t)
  BY <1>3, <1>5, ReturnKeeps
<1>6. CASE va_TraceEvent(t)
  BY <1>3, <1>6, EventKeeps
<1>7. CASE Driver(t)
  BY <1>3, <1>7, DriverKeeps
<1>8. CASE TestHook(t)
  BY <1>3, <1>8, TestHookKeeps
<1>9. CASE Lock(t)
  BY <1>3, <1>9, LockKeeps
<1>10. CASE Unlock(t)
  BY <1>3, <1>10, UnlockKeeps
<1>11. CASE MapBuffer(t)
  BY <1>3, <1>11, MapBufferKeeps
<1>12. CASE UnmapBuffer(t)
  BY <1>3, <1>12, UnmapBufferKeeps
<1>13. CASE ResetPointer(t)
  BY <1>3, <1>13, ResetPointerKeeps
<1>14. CASE SwitchOn(t)
  BY <1>3, <1>14, SwitchOnKeeps
<1>15. CASE Read(t)
  BY <1>3, <1>15, ReadKeeps
<1>16. CASE DriverLockSurface(t)
  BY <1>3, <1>16, LockSurfaceKeeps
<1>17. CASE DriverUnlockSurface(t)
  BY <1>3, <1>17, UnlockSurfaceKeeps
<1> QED
  BY <1>1, <1>2, <1>4, <1>5, <1>6, <1>7, <1>8, <1>9, <1>10, <1>11, <1>12,
     <1>13, <1>14, <1>15, <1>16, <1>17
  DEF Step

LEMMA StillKeeps ==
  ASSUME NEW CONSTANT g, InvWith(g),
         UNCHANGED <<todo, context_mutex, ptr, maps, locked, open, dropped, sent, hooks>>
  PROVE  InvWith(g)'
<1>1. /\ todo' = todo /\ context_mutex' = context_mutex /\ ptr' = ptr /\ maps' = maps
      /\ locked' = locked /\ open' = open /\ dropped' = dropped /\ sent' = sent
      /\ hooks' = hooks
  OBVIOUS
<1>2. \A t \in Thread : Local(t, g)' = Local(t, g)
  BY <1>1, MapsSame, HoldsSame DEF Local
<1>3. Shape'
  BY <1>1 DEF InvWith, Shape, OnThreads
<1>4. \A t \in Thread : Between(t, g)' \/ Within(t, g)'
  BY <1>1, <1>2 DEF InvWith, Between, Within
<1> QED
  BY <1>1, <1>3, <1>4 DEF InvWith, Told, Whole

LEMMA NextKeeps ==
  ASSUME RenderInv, [Next]_vars
  PROVE  RenderInv'
<1>1. PICK g : InvWith(g)
  BY DEF RenderInv
<1>2. CASE \E t \in Thread : Step(t)
  BY <1>1, <1>2, ThreadKeeps
<1>3. CASE UNCHANGED <<todo, context_mutex, ptr, maps, locked, open, dropped, sent, hooks>>
  BY <1>1, <1>3, StillKeeps DEF RenderInv
<1>4. ASSUME NEW t \in Thread, CallNull(t)
      PROVE  UNCHANGED <<todo, context_mutex, ptr, maps, locked, open, dropped, sent, hooks>>
  BY <1>4 DEF CallNull
<1> QED
  BY <1>2, <1>3, <1>4 DEF Next, Dead, vars

-----------------------------------------------------------------------------
(* What follows for every state.                                           *)

(* Between its calls a thread holds nothing and nothing is mapped for it   *)
(* but by the trace of events, and at every step of a call what is left of *)
(* the script is right for what the thread sees: whatever the buffers, the *)
(* flags, the hooks of the driver and the steps of the others.             *)
THEOREM RenderInvariant == Spec => []RenderInv
<1>1. Init => RenderInv
  BY InitKeeps
<1>2. RenderInv /\ [Next]_vars => RenderInv'
  BY NextKeeps
<1> QED
  BY <1>1, <1>2, PTL DEF Spec

(* What is right for a thread, in the terms of the state.                  *)
LEMMA AtStep ==
  ASSUME NEW CONSTANT g, InvWith(g), NEW t \in Thread, NEW op, At(t, op), op # "return"
  PROVE  Current(t).op = op /\ Right(Current(t), Local(t, g))
<1>1. todo[t] # << >> /\ Current(t).op = op
  BY DEF At
<1> QED
  BY <1>1, Facing

LEMMA AtReturn ==
  ASSUME NEW CONSTANT g, InvWith(g), NEW t \in Thread, At(t, "return")
  PROVE  /\ HoldsOf(t) = {}
         /\ Whole(t) => open[t] = << >>
         /\ \A m \in MapsOf(t) : m[1] = "event"
<1>1. todo[t] # << >> /\ Current(t).op = "return"
  BY DEF At
<1>2. Local(t, g) \in Base(<< >>)
  BY <1>1, Facing
<1>3. /\ Local(t, g).holds = {} /\ Local(t, g).open = << >>
      /\ \A m \in Local(t, g).maps : m[1] = "event"
  BY <1>2 DEF Base
<1>4. HoldsOf(t) = {} /\ g[t] = << >> /\ \A m \in MapsOf(t) : m[1] = "event"
  BY <1>3, LocalFields
<1>5. Whole(t) => open[t] = g[t]
  BY DEF InvWith, Told
<1> QED
  BY <1>4, <1>5

LEMMA OpenTyped ==
  ASSUME NEW CONSTANT g, InvWith(g), NEW t \in Thread, Whole(t)
  PROVE  open[t] \in Seq(Event)
<1>1. open[t] = g[t] /\ (Between(t, g) \/ Within(t, g))
  BY DEF InvWith, Told
<1>2. Local(t, g) \in State
  BY <1>1 DEF Between, Base, Within, Safe, Fits
<1> QED
  BY <1>1, <1>2, LocalFields, StateTyped

(* A trace function reads a buffer only while it has it mapped, however    *)
(* many buffers there are and whichever the driver could not map           *)
(* (va_TraceRenderPicture, va_TraceProcFilterParameterBuffer,              *)
(* va_TraceProtectedSessionExecute).                                       *)
THEOREM RenderReadsMapped == Spec => []ReadsMapped
<1>1. RenderInv => ReadsMapped
  <2> SUFFICES ASSUME NEW CONSTANT g, InvWith(g), NEW t \in Thread, At(t, "read"),
                      Current(t).arg # "surface"
               PROVE  /\ ptr[t][Current(t).arg] # NULL
                      /\ [thread |-> t, by |-> Current(t).arg,
                          buf |-> ptr[t][Current(t).arg].id] \in maps
    BY DEF ReadsMapped, RenderInv
  <2> DEFINE by == Current(t).arg
             m == <<by, ptr[t][by].id>>
  <2>1. Right(Current(t), Local(t, g)) /\ Current(t).op = "read"
    BY AtStep
  <2>2. ptr[t][by] # NULL /\ m \in MapsOf(t)
    BY <2>1, LocalFields DEF Right
  <2>3. [thread |-> t, by |-> m[1], buf |-> m[2]] \in maps
    <3> HIDE DEF m
    <3> QED
      BY <2>2 DEF MapsOf
  <2> QED
    BY <2>2, <2>3
<1> QED
  BY <1>1, RenderInvariant, PTL

(* A call returns with none of the buffers mapped that its trace mapped.   *)
THEOREM RenderMapsReturned == Spec => []MapsReturned
<1>1. RenderInv => MapsReturned
  <2> SUFFICES ASSUME NEW CONSTANT g, InvWith(g), NEW m \in maps, m.by # "event",
                      At(m.thread, "return")
               PROVE  FALSE
    BY DEF MapsReturned, RenderInv
  <2> DEFINE n == <<m.by, m.buf>>
  <2>1. m \in [thread : Thread, by : Tracer, buf : Ids]
    BY DEF InvWith, Shape
  <2>2. /\ n \in Tracer \X Ids /\ n[1] = m.by /\ m.thread \in Thread
        /\ [thread |-> m.thread, by |-> n[1], buf |-> n[2]] = m
    BY <2>1
  <2>3. n \in MapsOf(m.thread)
    <3> HIDE DEF n
    <3> QED
      BY <2>2 DEF MapsOf
  <2>4. n[1] = "event"
    <3> HIDE DEF n
    <3> QED
      BY <2>2, <2>3, AtReturn
  <2> QED
    BY <2>2, <2>4
<1> QED
  BY <1>1, RenderInvariant, PTL

(* vaEndPicture returns with the surface unlocked that its trace locked    *)
(* (va_TraceSurface).                                                      *)
THEOREM RenderSurfaceReturned == Spec => []SurfaceReturned
<1>1. RenderInv => SurfaceReturned
  <2> SUFFICES ASSUME NEW CONSTANT g, InvWith(g), NEW t \in locked, At(t, "return")
               PROVE  FALSE
    BY DEF SurfaceReturned, RenderInv
  <2>1. t \in Thread
    BY DEF InvWith, Shape
  <2>2. HoldsOf(t) = {}
    BY <2>1, AtReturn
  <2> QED
    BY <2>2 DEF HoldsOf
<1> QED
  BY <1>1, RenderInvariant, PTL

(* The events of a call nest, and are ended when it returns, on every path *)
(* through va/va.c, as long as none of them was too big to be written.     *)
THEOREM RenderEventsNest == Spec => []EventsNest
<1>1. RenderInv => EventsNest
  <2> SUFFICES ASSUME NEW CONSTANT g, InvWith(g), NEW t \in Thread, Whole(t)
               PROVE  /\ \A i \in 1 .. Len(open[t]) : open[t][i] # "unmatched"
                      /\ At(t, "return") => open[t] = << >>
    BY DEF EventsNest, RenderInv, Whole
  <2>1. open[t] \in Seq(Event)
    BY OpenTyped
  <2>2. "unmatched" \notin Event
    BY DEF Event
  <2>3. \A i \in 1 .. Len(open[t]) : open[t][i] \in Event
    BY <2>1
  <2>4. ASSUME At(t, "return")
        PROVE  open[t] = << >>
    BY <2>4, AtReturn
  <2> QED
    BY <2>2, <2>3, <2>4
<1> QED
  BY <1>1, RenderInvariant, PTL

(* No call goes through a hook that the driver did not set, but for the    *)
(* five that va/va.c neither checks nor tests.                             *)
THEOREM RenderHookPresent == Spec => []HookPresent
<1>1. RenderInv => HookPresent
  <2> SUFFICES ASSUME NEW CONSTANT g, InvWith(g), NEW t \in Thread, At(t, "driver")
               PROVE  Current(t).arg \in hooks \cup Unchecked
    BY DEF HookPresent, RenderInv
  <2>1. Right(Current(t), Local(t, g)) /\ Current(t).op = "driver"
    BY AtStep
  <2> QED
    BY <2>1, LocalFields DEF Right
<1> QED
  BY <1>1, RenderInvariant, PTL

(* At the end of each turn of va_TraceEventBuffers all the bytes of the    *)
(* buffer are in events, for every size of a buffer and of an event.       *)
THEOREM RenderBufferDataWhole == Spec => []BufferDataWhole
<1>1. RenderInv => BufferDataWhole
  <2> SUFFICES ASSUME NEW CONSTANT g, InvWith(g), NEW t \in Thread, At(t, "iterated")
               PROVE  sent[t] = ptr[t]["event"].total
    BY DEF BufferDataWhole, RenderInv
  <2>1. Right(Current(t), Local(t, g)) /\ Current(t).op = "iterated"
    BY AtStep
  <2> QED
    BY <2>1, LocalFields DEF Right
<1> QED
  BY <1>1, RenderInvariant, PTL

(* No thread takes context_mutex while it holds it, whatever public        *)
(* function a trace function calls.                                        *)
THEOREM RenderNoSelfLock == Spec => []NoSelfLock
<1>1. RenderInv => NoSelfLock
  <2> SUFFICES ASSUME NEW CONSTANT g, InvWith(g), NEW t \in Thread, At(t, "lock")
               PROVE  context_mutex # t
    BY DEF NoSelfLock, RenderInv
  <2>1. Right(Current(t), Local(t, g)) /\ Current(t).op = "lock"
    BY AtStep
  <2> QED
    BY <2>1, LocalFields DEF Right, HoldsOf
<1> QED
  BY <1>1, RenderInvariant, PTL
=============================================================================
