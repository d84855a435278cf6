-------------------------- MODULE TracePicturesProof --------------------------
(***************************************************************************)
(* Proofs about TracePictures, for every profile, any counts in a buffer   *)
(* and any number of slices: no dump reads past an array, each buffer is   *)
(* taken for what it holds, and slice data are shown with their own size.  *)
(***************************************************************************)
EXTENDS TracePictures, LeastElement, FiniteSetTheorems

-----------------------------------------------------------------------------
(* FlattenSeq, which glues the dumps of the elements of a buffer together. *)

(* A sequence of sequences over S is flattened to a sequence over S.       *)
LEMMA FlattenTyped ==
  ASSUME NEW S, NEW s \in Seq(Seq(S))
  PROVE  FlattenSeq(s) \in Seq(S)
<1>1. CASE Len(s) = 0
  BY <1>1 DEF FlattenSeq
<1>2. CASE Len(s) # 0
  <2> DEFINE N == Len(s)
  <2>1. N \in Nat /\ N # 0 /\ \A i \in 1 .. N : s[i] \in Seq(S)
    BY <1>2
  <2>2. PICK g : /\ FlattenSeq(s) = g[N]
                 /\ g = [i \in 1 .. N |-> IF i = 1 THEN s[i] ELSE g[i-1] \o s[i]]
    BY <2>1, FlattenUnfold
  <2> HIDE DEF N
  <2>3. \A i \in 1 .. N : g[i] = IF i = 1 THEN s[i] ELSE g[i-1] \o s[i]
    BY <2>2
  <2> DEFINE Bad == {i \in 1 .. N : g[i] \notin Seq(S)}
  <2>4. Bad = {}
    <3>1. SUFFICES ASSUME Bad # {}
                   PROVE  FALSE
      OBVIOUS
    <3>2. Bad \subseteq Nat
      BY <2>1
    <3>3. PICK n \in Bad : \A m \in Bad : n <= m
      BY <3>1, <3>2, MinIsLeast
    <3>4. n # 1
      BY <2>1, <2>3, <3>3
    <3>5. n - 1 \in 1 .. N /\ ~ (n <= n - 1)
      BY <2>1, <3>4
    <3>6. n - 1 \notin Bad
      BY <3>3, <3>5
    <3>7. g[n-1] \in Seq(S)
      BY <3>5, <3>6
    <3>8. n \in 1 .. N /\ g[n] = g[n-1] \o s[n] /\ s[n] \in Seq(S)
      BY <2>1, <2>3, <3>3, <3>4
    <3>9. g[n] \in Seq(S)
      BY <3>7, <3>8
    <3> QED
      BY <3>3, <3>9
  <2>5. N \in 1 .. N /\ N \notin Bad
    BY <2>1, <2>4
  <2> QED
    BY <2>2, <2>5
<1> QED
  BY <1>1, <1>2

(* One sequence is flattened to itself.                                    *)
LEMMA FlattenOne ==
  ASSUME NEW q
  PROVE  FlattenSeq([i \in 1 .. 1 |-> q]) = q
<1> DEFINE s == [i \in 1 .. 1 |-> q]
<1>1. Len(s) = 1 /\ s[1] = q
  <2>1. s \in Seq({q})
    OBVIOUS
  <2> QED
    BY <2>1
<1> HIDE DEF s
<1>2. PICK g : /\ FlattenSeq(s) = g[Len(s)]
               /\ g = [i \in 1 .. Len(s) |-> IF i = 1 THEN s[i] ELSE g[i-1] \o s[i]]
  <2>1. Len(s) \in Nat /\ Len(s) # 0
    BY <1>1
  <2> QED
    BY <2>1, FlattenUnfold
<1> QED
  BY <1>1, <1>2 DEF s

-----------------------------------------------------------------------------
(* FoldSeq(+, 0, s), the bytes of the slices of a buffer together.         *)

(* Adds up f over the sets of at most n of the indices in D.               *)
Few(D, n) == {T \in SUBSET D : IsFiniteSet(T) /\ Cardinality(T) <= n}

Sums(f, D, g) ==
  g = [T \in D |-> IF T = {} THEN 0
                   ELSE LET x == CHOOSE x \in T : TRUE IN f[x] + g[T \ {x}]]

(* The recursive function that the fold chooses exists.                    *)
LEMMA SumsDefined ==
  ASSUME NEW f, NEW D, IsFiniteSet(D)
  PROVE  \E g : Sums(f, SUBSET D, g)
<1> DEFINE Bad == {n \in Nat : ~ \E g : Sums(f, Few(D, n), g)}
<1>1. Bad = {}
  <2>1. SUFFICES ASSUME Bad # {}
                 PROVE  FALSE
    OBVIOUS
  <2>2. PICK n \in Bad : \A m \in Bad : n <= m
    BY <2>1, MinIsLeast
  <2>3. n # 0
    <3>1. \A T \in Few(D, 0) : T = {}
      BY FS_EmptySet, FS_CardinalityType DEF Few
    <3>2. Sums(f, Few(D, 0), [T \in Few(D, 0) |-> 0])
      BY <3>1 DEF Sums
    <3> QED
      BY <3>2
  <2>4. PICK g : Sums(f, Few(D, n - 1), g)
    <3>1. n - 1 \in Nat /\ ~ (n <= n - 1)
      BY <2>3
    <3> QED
      BY <2>2, <3>1
  <2> DEFINE x(T) == CHOOSE x \in T : TRUE
             h == [T \in Few(D, n) |-> IF T = {} THEN 0 ELSE f[x(T)] + g[T \ {x(T)}]]
  <2>5. ASSUME NEW T \in Few(D, n), T # {}
        PROVE  h[T \ {x(T)}] = g[T \ {x(T)}]
    <3>1. x(T) \in T /\ IsFiniteSet(T) /\ Cardinality(T) \in Nat /\ Cardinality(T) <= n
      BY <2>5, FS_CardinalityType DEF Few
    <3> DEFINE U == T \ {x(T)}
    <3>2. IsFiniteSet(U) /\ Cardinality(U) = Cardinality(T) - 1
      BY <3>1, FS_RemoveElement
    <3>3. U \in Few(D, n - 1) /\ U \in Few(D, n)
      BY <3>1, <3>2, FS_CardinalityType DEF Few
    <3> HIDE DEF x, U
    <3>4. h[U] = IF U = {} THEN 0 ELSE f[x(U)] + g[U \ {x(U)}]
      BY <3>3
    <3>5. g[U] = IF U = {} THEN 0 ELSE f[x(U)] + g[U \ {x(U)}]
      BY <2>4, <3>3 DEF Sums, x
    <3> QED
      BY <3>4, <3>5 DEF U
  <2>6. Sums(f, Few(D, n), h)
    <3>1. ASSUME NEW T \in Few(D, n)
          PROVE  h[T] = IF T = {} THEN 0 ELSE f[x(T)] + h[T \ {x(T)}]
      <4>1. h[T] = IF T = {} THEN 0 ELSE f[x(T)] + g[T \ {x(T)}]
        OBVIOUS
      <4> HIDE DEF h, x
      <4> QED
        BY <2>5, <4>1
    <3>2. h = [T \in Few(D, n) |-> h[T]]
      OBVIOUS
    <3> HIDE DEF h
    <3>3. h = [T \in Few(D, n) |-> IF T = {} THEN 0 ELSE f[x(T)] + h[T \ {x(T)}]]
      BY <3>1, <3>2
    <3> QED
      BY <3>3 DEF Sums
  <2> QED
    BY <2>2, <2>6
<1>2. Few(D, Cardinality(D)) = SUBSET D /\ Cardinality(D) \in Nat
  BY FS_Subset, FS_CardinalityType DEF Few
<1>3. Cardinality(D) \notin Bad
  BY <1>1
<1> QED
  BY <1>2, <1>3

(* Each of the numbers is at most their sum.                               *)
LEMMA SumBounds ==
  ASSUME NEW s \in Seq(Nat)
  PROVE  /\ FoldSeq(+, 0, s) \in Nat
         /\ \A i \in 1 .. Len(s) : s[i] <= FoldSeq(+, 0, s)
<1> DEFINE D == DOMAIN s
<1>1. D = 1 .. Len(s) /\ IsFiniteSet(D) /\ \A i \in D : s[i] \in Nat
  BY FS_Interval
<1> DEFINE g == CHOOSE g : Sums(s, SUBSET D, g)
<1>2. Sums(s, SUBSET D, g) /\ FoldSeq(+, 0, s) = g[D]
  <2>1. Sums(s, SUBSET D, g)
    BY <1>1, SumsDefined
  <2>2. FoldSeq(+, 0, s) = g[D]
    BY DEF Sums, FoldSeq, FoldFunction, FoldFunctionOnSet, MapThenFoldSet
  <2> QED
    BY <2>1, <2>2
<1> HIDE DEF g
<1> HIDE DEF D
<1> DEFINE x(T) == CHOOSE x \in T : TRUE
<1>3. \A T \in SUBSET D : g[T] = IF T = {} THEN 0 ELSE s[x(T)] + g[T \ {x(T)}]
  BY <1>2 DEF Sums
<1> DEFINE Right(T) == g[T] \in Nat /\ \A i \in T : s[i] <= g[T]
           Bad == {n \in Nat : \E T \in SUBSET D : Cardinality(T) = n /\ ~Right(T)}
<1>4. Bad = {}
  <2>1. SUFFICES ASSUME Bad # {}
                 PROVE  FALSE
    OBVIOUS
  <2>2. PICK n \in Bad : \A m \in Bad : n <= m
    BY <2>1, MinIsLeast
  <2>3. PICK T \in SUBSET D : Cardinality(T) = n /\ ~Right(T)
    BY <2>2
  <2>4. T # {}
    <3>1. g[{}] = 0
      <4>1. {} \in SUBSET D
        OBVIOUS
      <4> HIDE DEF x
      <4> QED
        BY <1>3, <4>1
    <3>2. Right({})
      BY <3>1
    <3> QED
      BY <2>3, <3>2
  <2>5. x(T) \in T /\ x(T) \in D
    BY <2>4
  <2> HIDE DEF x
  <2> DEFINE U == T \ {x(T)}
  <2>6. IsFiniteSet(T) /\ IsFiniteSet(U) /\ Cardinality(U) = n - 1 /\ U \in SUBSET D
    BY <1>1, <2>3, <2>5, FS_RemoveElement, FS_Subset
  <2>7. n - 1 \in Nat /\ ~ (n <= n - 1)
    BY <2>2, <2>6, FS_CardinalityType
  <2>8. Right(U)
    <3> HIDE DEF U, Right
    <3>1. n - 1 \notin Bad
      BY <2>2, <2>7
    <3> QED
      BY <2>6, <2>7, <3>1
  <2>9. g[T] = s[x(T)] + g[U] /\ s[x(T)] \in Nat
    BY <1>1, <1>3, <2>4, <2>5
  <2> DEFINE first == s[x(T)]
             rest == g[U]
  <2>10. first \in Nat /\ rest \in Nat /\ g[T] = first + rest
    BY <2>8, <2>9
  <2>11. ASSUME NEW i \in T
         PROVE  s[i] <= g[T]
    <3>1. i \in U \/ s[i] = first
      OBVIOUS
    <3>2. s[i] \in Nat /\ (s[i] <= rest \/ s[i] = first)
      BY <1>1, <2>8, <3>1
    <3> HIDE DEF first, rest
    <3> QED
      BY <2>10, <3>2
  <2>12. g[T] \in Nat
    <3> HIDE DEF first, rest
    <3> QED
      BY <2>10
  <2> QED
    BY <2>3, <2>11, <2>12
<1>5. Right(D)
  <2>1. D \in SUBSET D /\ Cardinality(D) \in Nat /\ Cardinality(D) \notin Bad
    BY <1>1, <1>4, FS_CardinalityType
  <2> HIDE DEF Right
  <2> QED
    BY <2>1
<1> QED
  BY <1>1, <1>2, <1>5

-----------------------------------------------------------------------------
(* What a dump may show.                                                   *)

(* The dump stays inside of the struct that it takes the buffer for.       *)
Sound(print) ==
  \A a \in DOMAIN print.arrays :
    /\ a \in DOMAIN print.of.arrays
    /\ Covers(print.of.arrays[a], print.arrays[a])

(* All of these dumps do, and they are of structs with these names.        *)
Fine(prints, names) ==
  \E T : /\ prints \in Seq(T)
         /\ \A p \in T : Sound(p) /\ p.of.name \in names

One(prints, name) ==
  prints = <<prints[1]>> /\ prints[1].of.name = name /\ Sound(prints[1])

(* What the application puts in an element.                                *)
Conforms(profile, e) ==
  LET codec == CodecOf(profile)
  IN  /\ {e.count, e.size, e.l0, e.l1} \subseteq Nat
      /\ e.count <= MaxCount(codec, e.type)
      /\ codec \in DOMAIN MaxActive =>
           e.l0 <= MaxActive[codec] /\ e.l1 <= MaxActive[codec]
      /\ e.kind \in Kinds(codec, e.type)

(* Arrays of one dimension.                                                *)
LEMMA Covers1 ==
  ASSUME NEW m \in Nat, NEW n \in Nat, m <= n
  PROVE  Covers(<<n>>, <<m>>)
BY DEF Covers

(* Of two.                                                                 *)
LEMMA Covers2 ==
  ASSUME NEW m \in Nat, NEW n \in Nat, m <= n,
         NEW k \in Nat, NEW l \in Nat, k <= l
  PROVE  Covers(<<n, l>>, <<m, k>>)
BY DEF Covers

(* Of three.                                                               *)
LEMMA Covers3 ==
  ASSUME NEW k \in Nat, NEW m \in Nat, NEW n \in Nat
  PROVE  Covers(<<k, m, n>>, <<k, m, n>>)
BY DEF Covers

(* Of four.                                                                *)
LEMMA Covers4 ==
  ASSUME NEW k \in Nat, NEW l \in Nat, NEW m \in Nat, NEW n \in Nat
  PROVE  Covers(<<k, l, m, n>>, <<k, l, m, n>>)
BY DEF Covers

(* One dump.                                                               *)
LEMMA FineOne ==
  ASSUME NEW q, NEW name, One(q, name), NEW N, name \in N
  PROVE  Fine(q, N)
<1>1. q \in Seq({q[1]})
  <2> DEFINE p == q[1]
  <2>1. <<p>> \in Seq({p})
    OBVIOUS
  <2>2. q = <<p>>
    BY DEF One
  <2> QED
    BY <2>1, <2>2
<1>2. \A p \in {q[1]} : Sound(p) /\ p.of.name \in N
  BY DEF One
<1> QED
  BY <1>1, <1>2 DEF Fine

(* No dump at all.                                                         *)
LEMMA FineNone ==
  ASSUME NEW N
  PROVE  Fine(<< >>, N)
<1>1. ASSUME NEW T, T = {}
      PROVE  Fine(<< >>, N)
  <2>1. << >> \in Seq(T) /\ \A p \in T : Sound(p) /\ p.of.name \in N
    BY <1>1
  <2> QED
    BY <2>1 DEF Fine
<1> QED
  BY <1>1

(* Some dumps after others.                                                *)
LEMMA FineBoth ==
  ASSUME NEW q, NEW r, NEW N, Fine(q, N), Fine(r, N)
  PROVE  Fine(q \o r, N)
<1>1. PICK T : q \in Seq(T) /\ \A p \in T : Sound(p) /\ p.of.name \in N
  BY DEF Fine
<1>2. PICK U : r \in Seq(U) /\ \A p \in U : Sound(p) /\ p.of.name \in N
  BY DEF Fine
<1>3. q \o r \in Seq(T \cup U)
  <2>1. q \in Seq(T \cup U) /\ r \in Seq(T \cup U)
    BY <1>1, <1>2
  <2> QED
    BY <2>1
<1>4. \A p \in T \cup U : Sound(p) /\ p.of.name \in N
  BY <1>1, <1>2
<1> QED
  BY <1>3, <1>4 DEF Fine

(* The dumps of all elements of a buffer.                                  *)
LEMMA FineAll ==
  ASSUME NEW n \in Nat, NEW s, s = [i \in 1 .. n |-> s[i]],
         NEW N, \A i \in 1 .. n : Fine(s[i], N)
  PROVE  Fine(FlattenSeq(s), N)
<1> DEFINE Good(T) == \A p \in T : Sound(p) /\ p.of.name \in N
           In(i) == CHOOSE T : s[i] \in Seq(T) /\ Good(T)
           U == UNION {In(i) : i \in 1 .. n}
<1> HIDE DEF Good
<1>1. ASSUME NEW i \in 1 .. n
      PROVE  s[i] \in Seq(In(i)) /\ Good(In(i))
  <2>1. \E T : s[i] \in Seq(T) /\ Good(T)
    BY DEF Fine, Good
  <2> QED
    BY <2>1
<1> HIDE DEF In
<1>2. ASSUME NEW i \in 1 .. n
      PROVE  s[i] \in Seq(U)
  <2>1. In(i) \subseteq U
    OBVIOUS
  <2> HIDE DEF U
  <2> QED
    BY <1>1, <2>1
<1>3. Good(U)
  BY <1>1 DEF Good
<1> HIDE DEF U
<1>4. s \in Seq(Seq(U))
  BY <1>2
<1>5. FlattenSeq(s) \in Seq(U)
  BY <1>4, FlattenTyped
<1> QED
  BY <1>3, <1>5 DEF Fine, Good

-----------------------------------------------------------------------------
(* What an element holds.                                                  *)

(* A profile is of one codec.                                              *)
LEMMA CodecIs ==
  ASSUME NEW c \in DOMAIN Codec, NEW profile \in Codec[c]
  PROVE  CodecOf(profile) = c
<1>1. ASSUME NEW d \in DOMAIN Codec, profile \in Codec[d]
      PROVE  c = d
  BY <1>1 DEF Codec
<1>2. {d \in DOMAIN Codec : profile \in Codec[d]} = {c}
  BY <1>1
<1> QED
  BY <1>2 DEF CodecOf

(* A profile is of the codec it is said to be of, or of none.              *)
LEMMA CodecHas ==
  ASSUME NEW profile
  PROVE  \/ CodecOf(profile) = "unknown"
         \/ /\ CodecOf(profile) \in DOMAIN Codec
            /\ profile \in Codec[CodecOf(profile)]
<1> DEFINE of == {c \in DOMAIN Codec : profile \in Codec[c]}
<1>1. CASE of = {}
  BY <1>1 DEF CodecOf
<1>2. CASE of # {}
  <2>1. CodecOf(profile) = CHOOSE c \in of : TRUE
    BY <1>2 DEF CodecOf
  <2>2. (CHOOSE c \in of : TRUE) \in of
    BY <1>2
  <2> QED
    BY <2>1, <2>2
<1> QED
  BY <1>1, <1>2

(* An element holds the struct its codec has for the type.                 *)
LEMMA HoldsSent ==
  ASSUME NEW profile, NEW e, Conforms(profile, e),
         NEW codec, CodecOf(profile) = codec, e.type \in DOMAIN Sends[codec],
         e.type # "EncSliceParameter" \/ codec # "H264"
  PROVE  Sends[codec][e.type] \in Holds(profile, e)
<1>1. ~ (e.type = "EncSliceParameter" /\ e.kind = "generic")
  BY DEF Conforms, Kinds
<1> QED
  BY <1>1 DEF Holds

(* What elements hold in every codec.                                      *)
LEMMA HoldsOthers ==
  ASSUME NEW profile, NEW e
  PROVE  /\ "Bytes" \in Holds(profile, e)
         /\ e.type = "EncMiscParameter" =>
              MiscStruct[e.kind] \in Holds(profile, e)
         /\ e.type = "EncPackedHeaderParameter" =>
              "VAEncPackedHeaderParameterBuffer" \in Holds(profile, e)
         /\ e.type = "EncryptionParameter" =>
              "VAEncryptionParameters" \in Holds(profile, e)
         /\ e.type = "EncSliceParameter" /\ e.kind = "generic" =>
              "VAEncSliceParameterBuffer" \in Holds(profile, e)
         /\ e.type = "ProcPipelineParameter" =>
              {FilterStruct[e.kind], "VAProcFilterParameterBufferBase"}
                \subseteq Holds(profile, e)
BY DEF Holds

(* For this type the codec has the struct of this name.                    *)
Sent(codec, type, name) ==
  type \in DOMAIN Sends[codec] /\ Sends[codec][type] = name

(* A dump of the struct that the codec has for the type.                   *)
LEMMA FineSent ==
  ASSUME NEW profile, NEW e, Conforms(profile, e),
         NEW codec, CodecOf(profile) = codec,
         NEW type, type # "EncSliceParameter" \/ codec # "H264",
         NEW name, Sent(codec, type, name), NEW q, One(q, name)
  PROVE  e.type = type => Fine(q, Holds(profile, e))
BY HoldsSent, FineOne DEF Sent

-----------------------------------------------------------------------------
(* The dumps that codecs share.                                            *)

(* The bytes of a buffer, or the part of them that a slice has.            *)
LEMMA FineBytes ==
  ASSUME NEW profile, NEW e, e.size \in Nat, NEW size \in Nat, size <= e.size
  PROVE  Fine(va_TraceVABuffers(e, size), Holds(profile, e))
<1>1. CASE BUFDATA
  <2>1. One(va_TraceVABuffers(e, size), "Bytes")
    BY <1>1, Covers1 DEF One, Sound, va_TraceVABuffers, Prints, Bytes, Struct
  <2> QED
    BY <2>1, HoldsOthers, FineOne
<1>2. CASE ~BUFDATA
  BY <1>2, FineNone DEF va_TraceVABuffers
<1> QED
  BY <1>1, <1>2

(* All of the bytes.                                                       *)
LEMMA FineRaw ==
  ASSUME NEW profile, NEW e, Conforms(profile, e)
  PROVE  Fine(Raw(e), Holds(profile, e))
<1>1. e.size \in Nat /\ e.size <= e.size
  BY DEF Conforms
<1> QED
  BY <1>1, FineBytes DEF Raw

(* Parameters of a cryptographic session.                                  *)
LEMMA FineEncryption ==
  ASSUME NEW profile, NEW e, Conforms(profile, e)
  PROVE  e.type = "EncryptionParameter" =>
           Fine(va_TraceVAEncryptionParameters(e), Holds(profile, e))
<1>1. e.count \in Nat
  BY DEF Conforms
<1>2. One(va_TraceVAEncryptionParameters(e), "VAEncryptionParameters")
  BY <1>1, Covers1 DEF One, Sound, va_TraceVAEncryptionParameters, Prints,
         VAEncryptionParameters, AtMost, Struct
<1> QED
  BY <1>2, HoldsOthers, FineOne

(* A header the encoder packs.                                             *)
LEMMA FinePackedHeader ==
  ASSUME NEW profile, NEW e
  PROVE  e.type = "EncPackedHeaderParameter" =>
           Fine(va_TraceVAEncPackedHeaderParameterBufferType, Holds(profile, e))
<1>1. One(va_TraceVAEncPackedHeaderParameterBufferType,
          "VAEncPackedHeaderParameterBuffer")
  BY DEF One, Sound, va_TraceVAEncPackedHeaderParameterBufferType, Prints,
         VAEncPackedHeaderParameterBuffer, Scalars, Struct
<1> QED
  BY <1>1, HoldsOthers, FineOne

(* A miscellaneous parameter, by the type that its header has.             *)
LEMMA FineMisc ==
  ASSUME NEW profile, NEW e, Conforms(profile, e)
  PROVE  e.type = "EncMiscParameter" =>
           Fine(va_TraceVAEncMiscParameterBuffer(e), Holds(profile, e))
<1> SUFFICES ASSUME e.type = "EncMiscParameter"
             PROVE  Fine(va_TraceVAEncMiscParameterBuffer(e), Holds(profile, e))
  OBVIOUS
<1>1. e.count \in Nat /\ e.size \in Nat
  BY DEF Conforms
<1>2. MiscStruct[e.kind] \in Holds(profile, e)
  BY HoldsOthers
<1>3. CASE e.kind = "FrameRate"
  <2>1. One(va_TraceVAEncMiscParameterBuffer(e),
            "VAEncMiscParameterFrameRate")
    BY <1>3
       DEF One, Sound, va_TraceVAEncMiscParameterBuffer, Prints,
           VAEncMiscParameterFrameRate, Scalars, Struct
  <2>2. MiscStruct.FrameRate = "VAEncMiscParameterFrameRate"
    BY DEF MiscStruct
  <2> QED
    BY <1>2, <1>3, <2>1, <2>2, FineOne
<1>4. CASE e.kind = "RateControl"
  <2>1. One(va_TraceVAEncMiscParameterBuffer(e),
            "VAEncMiscParameterRateControl")
    BY <1>4
       DEF One, Sound, va_TraceVAEncMiscParameterBuffer, Prints,
           VAEncMiscParameterRateControl, Scalars, Struct
  <2>2. MiscStruct.RateControl = "VAEncMiscParameterRateControl"
    BY DEF MiscStruct
  <2> QED
    BY <1>2, <1>4, <2>1, <2>2, FineOne
<1>5. CASE e.kind = "MaxSliceSize"
  <2>1. One(va_TraceVAEncMiscParameterBuffer(e),
            "VAEncMiscParameterMaxSliceSize")
    BY <1>5
       DEF One, Sound, va_TraceVAEncMiscParameterBuffer, Prints,
           VAEncMiscParameterMaxSliceSize, Scalars, Struct
  <2>2. MiscStruct.MaxSliceSize = "VAEncMiscParameterMaxSliceSize"
    BY DEF MiscStruct
  <2> QED
    BY <1>2, <1>5, <2>1, <2>2, FineOne
<1>6. CASE e.kind = "AIR"
  <2>1. One(va_TraceVAEncMiscParameterBuffer(e),
            "VAEncMiscParameterAIR")
    BY <1>6
       DEF One, Sound, va_TraceVAEncMiscParameterBuffer, Prints,
           VAEncMiscParameterAIR, Scalars, Struct
  <2>2. MiscStruct.AIR = "VAEncMiscParameterAIR"
    BY DEF MiscStruct
  <2> QED
    BY <1>2, <1>6, <2>1, <2>2, FineOne
<1>7. CASE e.kind = "HRD"
  <2>1. One(va_TraceVAEncMiscParameterBuffer(e),
            "VAEncMiscParameterHRD")
    BY <1>7
       DEF One, Sound, va_TraceVAEncMiscParameterBuffer, Prints,
           VAEncMiscParameterHRD, Scalars, Struct
  <2>2. MiscStruct.HRD = "VAEncMiscParameterHRD"
    BY DEF MiscStruct
  <2> QED
    BY <1>2, <1>7, <2>1, <2>2, FineOne
<1>8. CASE e.kind = "MaxFrameSize"
  <2>1. One(va_TraceVAEncMiscParameterBuffer(e),
            "VAEncMiscParameterBufferMaxFrameSize")
    BY <1>8
       DEF One, Sound, va_TraceVAEncMiscParameterBuffer, Prints,
           VAEncMiscParameterBufferMaxFrameSize, Scalars, Struct
  <2>2. MiscStruct.MaxFrameSize = "VAEncMiscParameterBufferMaxFrameSize"
    BY DEF MiscStruct
  <2> QED
    BY <1>2, <1>8, <2>1, <2>2, FineOne
<1>9. CASE e.kind = "MultiPassFrameSize"
  <2>1. One(va_TraceVAEncMiscParameterBuffer(e),
            "VAEncMiscParameterBufferMultiPassFrameSize")
    BY <1>1, <1>9, Covers1
       DEF One, Sound, va_TraceVAEncMiscParameterBuffer, Prints,
           VAEncMiscParameterBufferMultiPassFrameSize, Struct
  <2>2. MiscStruct.MultiPassFrameSize =
          "VAEncMiscParameterBufferMultiPassFrameSize"
    BY DEF MiscStruct
  <2> QED
    BY <1>2, <1>9, <2>1, <2>2, FineOne
<1>10. CASE e.kind = "QualityLevel"
  <2>1. One(va_TraceVAEncMiscParameterBuffer(e),
            "VAEncMiscParameterBufferQualityLevel")
    BY <1>10
       DEF One, Sound, va_TraceVAEncMiscParameterBuffer, Prints,
           VAEncMiscParameterBufferQualityLevel, Scalars, Struct
  <2>2. MiscStruct.QualityLevel = "VAEncMiscParameterBufferQualityLevel"
    BY DEF MiscStruct
  <2> QED
    BY <1>2, <1>10, <2>1, <2>2, FineOne
<1>11. CASE e.kind = "ROI"
  <2>1. One(va_TraceVAEncMiscParameterBuffer(e),
            "VAEncMiscParameterBufferROI")
    BY <1>1, <1>11, Covers1
       DEF One, Sound, va_TraceVAEncMiscParameterBuffer, Prints,
           VAEncMiscParameterBufferROI, Struct
  <2>2. MiscStruct.ROI = "VAEncMiscParameterBufferROI"
    BY DEF MiscStruct
  <2> QED
    BY <1>2, <1>11, <2>1, <2>2, FineOne
<1>12. CASE e.kind = "RIR"
  <2>1. One(va_TraceVAEncMiscParameterBuffer(e),
            "VAEncMiscParameterRIR")
    BY <1>12
       DEF One, Sound, va_TraceVAEncMiscParameterBuffer, Prints,
           VAEncMiscParameterRIR, Scalars, Struct
  <2>2. MiscStruct.RIR = "VAEncMiscParameterRIR"
    BY DEF MiscStruct
  <2> QED
    BY <1>2, <1>12, <2>1, <2>2, FineOne
<1>13. CASE e.kind = "EncQuality"
  <2>1. One(va_TraceVAEncMiscParameterBuffer(e),
            "VAEncMiscParameterEncQuality")
    BY <1>1, <1>13, Covers1
       DEF One, Sound, va_TraceVAEncMiscParameterBuffer, Prints,
           VAEncMiscParameterEncQuality, Struct
  <2>2. MiscStruct.EncQuality = "VAEncMiscParameterEncQuality"
    BY DEF MiscStruct
  <2> QED
    BY <1>2, <1>13, <2>1, <2>2, FineOne
<1>14. CASE e.kind = "SkipFrame"
  <2>1. One(va_TraceVAEncMiscParameterBuffer(e),
            "VAEncMiscParameterSkipFrame")
    BY <1>14
       DEF One, Sound, va_TraceVAEncMiscParameterBuffer, Prints,
           VAEncMiscParameterSkipFrame, Scalars, Struct
  <2>2. MiscStruct.SkipFrame = "VAEncMiscParameterSkipFrame"
    BY DEF MiscStruct
  <2> QED
    BY <1>2, <1>14, <2>1, <2>2, FineOne
<1>15. CASE e.kind = "TemporalLayerStructure"
  <2>1. One(va_TraceVAEncMiscParameterBuffer(e),
            "VAEncMiscParameterTemporalLayerStructure")
    BY <1>1, <1>15, Covers1
       DEF One, Sound, va_TraceVAEncMiscParameterBuffer, Prints,
           VAEncMiscParameterTemporalLayerStructure, Struct
  <2>2. MiscStruct.TemporalLayerStructure =
          "VAEncMiscParameterTemporalLayerStructure"
    BY DEF MiscStruct
  <2> QED
    BY <1>2, <1>15, <2>1, <2>2, FineOne
<1>16. CASE e.kind \notin {"FrameRate", "RateControl", "MaxSliceSize", "AIR",
                           "HRD", "MaxFrameSize", "MultiPassFrameSize",
                           "QualityLevel", "ROI", "RIR", "EncQuality",
                           "SkipFrame", "TemporalLayerStructure"}
  BY <1>16, FineRaw DEF va_TraceVAEncMiscParameterBuffer, Raw
<1> QED
  BY <1>3, <1>4, <1>5, <1>6, <1>7, <1>8, <1>9, <1>10, <1>11, <1>12, <1>13,
     <1>14, <1>15, <1>16

(* The MPEG-2 buffers.                                                     *)
LEMMA FineMPEG2 ==
  ASSUME NEW profile \in Codec.MPEG2, NEW e, Conforms(profile, e)
  PROVE  Fine(va_TraceMPEG2Buf(e), Holds(profile, e))
<1> DEFINE N == Holds(profile, e)
<1>1. CodecOf(profile) = "MPEG2" /\ {e.count, e.size, e.l0, e.l1} \subseteq Nat
  BY CodecIs DEF Codec, Conforms
<1>2. e.type = "PictureParameter" =>
        Fine(va_TraceVAPictureParameterBufferMPEG2, N)
  <2>1. One(va_TraceVAPictureParameterBufferMPEG2,
            "VAPictureParameterBufferMPEG2")
    BY DEF One, Sound, va_TraceVAPictureParameterBufferMPEG2, Prints,
           VAPictureParameterBufferMPEG2, Scalars, Struct
  <2>2. Sent("MPEG2", "PictureParameter", "VAPictureParameterBufferMPEG2")
    BY DEF Sent, Sends
  <2> QED
    BY <1>1, <2>1, <2>2, FineSent
<1>3. e.type = "IQMatrix" =>
        Fine(va_TraceVAIQMatrixBufferMPEG2, N)
  <2>1. One(va_TraceVAIQMatrixBufferMPEG2, "VAIQMatrixBufferMPEG2")
    BY Covers1 DEF One, Sound, va_TraceVAIQMatrixBufferMPEG2, Prints,
           VAIQMatrixBufferMPEG2, Struct
  <2>2. Sent("MPEG2", "IQMatrix", "VAIQMatrixBufferMPEG2")
    BY DEF Sent, Sends
  <2> QED
    BY <1>1, <2>1, <2>2, FineSent
<1>4. e.type = "SliceParameter" =>
        Fine(va_TraceVASliceParameterBufferMPEG2, N)
  <2>1. One(va_TraceVASliceParameterBufferMPEG2,
            "VASliceParameterBufferMPEG2")
    BY DEF One, Sound, va_TraceVASliceParameterBufferMPEG2, Prints,
           VASliceParameterBufferMPEG2, Scalars, Struct
  <2>2. Sent("MPEG2", "SliceParameter", "VASliceParameterBufferMPEG2")
    BY DEF Sent, Sends
  <2> QED
    BY <1>1, <2>1, <2>2, FineSent
<1>5. e.type = "EncSequenceParameter" =>
        Fine(va_TraceVAEncSequenceParameterBufferMPEG2, N)
  <2>1. One(va_TraceVAEncSequenceParameterBufferMPEG2,
            "VAEncSequenceParameterBufferMPEG2")
    BY DEF One, Sound, va_TraceVAEncSequenceParameterBufferMPEG2, Prints,
           VAEncSequenceParameterBufferMPEG2, Scalars, Struct
  <2>2. Sent("MPEG2", "EncSequenceParameter",
             "VAEncSequenceParameterBufferMPEG2")
    BY DEF Sent, Sends
  <2> QED
    BY <1>1, <2>1, <2>2, FineSent
<1> QED
  BY <1>2, <1>3, <1>4, <1>5, FineRaw, FineMisc, FineNone
     DEF va_TraceMPEG2Buf, Raw, Nothing

(* The H.263 buffers.                                                      *)
LEMMA FineH263 ==
  ASSUME NEW profile \in Codec.H263, NEW e, Conforms(profile, e)
  PROVE  Fine(va_TraceH263Buf(e), Holds(profile, e))
<1> DEFINE N == Holds(profile, e)
<1>1. CodecOf(profile) = "H263" /\ {e.count, e.size, e.l0, e.l1} \subseteq Nat
  BY CodecIs DEF Codec, Conforms
<1>2. e.type = "PictureParameter" =>
        Fine(va_TraceVAPictureParameterBufferMPEG4, N)
  <2>1. One(va_TraceVAPictureParameterBufferMPEG4,
            "VAPictureParameterBufferMPEG4")
    BY Covers1 DEF One, Sound, va_TraceVAPictureParameterBufferMPEG4,
           Prints, VAPictureParameterBufferMPEG4, Struct
  <2>2. Sent("H263", "PictureParameter", "VAPictureParameterBufferMPEG4")
    BY DEF Sent, Sends
  <2> QED
    BY <1>1, <2>1, <2>2, FineSent
<1>3. e.type = "IQMatrix" =>
        Fine(va_TraceVAIQMatrixBufferMPEG4, N)
  <2>1. One(va_TraceVAIQMatrixBufferMPEG4, "VAIQMatrixBufferMPEG4")
    BY Covers1 DEF One, Sound, va_TraceVAIQMatrixBufferMPEG4, Prints,
           VAIQMatrixBufferMPEG4, Struct
  <2>2. Sent("H263", "IQMatrix", "VAIQMatrixBufferMPEG4")
    BY DEF Sent, Sends
  <2> QED
    BY <1>1, <2>1, <2>2, FineSent
<1>4. e.type = "SliceParameter" =>
        Fine(va_TraceVASliceParameterBufferMPEG4, N)
  <2>1. One(va_TraceVASliceParameterBufferMPEG4,
            "VASliceParameterBufferMPEG4")
    BY DEF One, Sound, va_TraceVASliceParameterBufferMPEG4, Prints,
           VASliceParameterBufferMPEG4, Scalars, Struct
  <2>2. Sent("H263", "SliceParameter", "VASliceParameterBufferMPEG4")
    BY DEF Sent, Sends
  <2> QED
    BY <1>1, <2>1, <2>2, FineSent
<1>5. e.type = "EncSequenceParameter" =>
        Fine(va_TraceVAEncSequenceParameterBufferH263, N)
  <2>1. One(va_TraceVAEncSequenceParameterBufferH263,
            "VAEncSequenceParameterBufferH263")
    BY DEF One, Sound, va_TraceVAEncSequenceParameterBufferH263, Prints,
           VAEncSequenceParameterBufferH263, Scalars, Struct
  <2>2. Sent("H263", "EncSequenceParameter",
             "VAEncSequenceParameterBufferH263")
    BY DEF Sent, Sends
  <2> QED
    BY <1>1, <2>1, <2>2, FineSent
<1>6. e.type = "EncPictureParameter" =>
        Fine(va_TraceVAEncPictureParameterBufferH263, N)
  <2>1. One(va_TraceVAEncPictureParameterBufferH263,
            "VAEncPictureParameterBufferH263")
    BY DEF One, Sound, va_TraceVAEncPictureParameterBufferH263, Prints,
           VAEncPictureParameterBufferH263, Scalars, Struct
  <2>2. Sent("H263", "EncPictureParameter", "VAEncPictureParameterBufferH263")
    BY DEF Sent, Sends
  <2> QED
    BY <1>1, <2>1, <2>2, FineSent
<1>7. e.type = "EncSliceParameter" =>
        Fine(va_TraceVAEncSliceParameterBuffer, N)
  <2>1. One(va_TraceVAEncSliceParameterBuffer, "VAEncSliceParameterBuffer")
    BY DEF One, Sound, va_TraceVAEncSliceParameterBuffer, Prints,
           VAEncSliceParameterBuffer, Scalars, Struct
  <2>2. Sent("H263", "EncSliceParameter", "VAEncSliceParameterBuffer")
    BY DEF Sent, Sends
  <2> QED
    BY <1>1, <2>1, <2>2, FineSent
<1> QED
  BY <1>2, <1>3, <1>4, <1>5, <1>6, <1>7, FineRaw, FinePackedHeader, FineNone
     DEF va_TraceH263Buf, Raw, Nothing

(* The JPEG buffers.                                                       *)
LEMMA FineJPEG ==
  ASSUME NEW profile \in Codec.JPEG, NEW e, Conforms(profile, e)
  PROVE  Fine(va_TraceJPEGBuf(e), Holds(profile, e))
<1> DEFINE N == Holds(profile, e)
<1>1. CodecOf(profile) = "JPEG" /\ {e.count, e.size, e.l0, e.l1} \subseteq Nat
  BY CodecIs DEF Codec, Conforms
<1>2. e.type = "EncSliceParameter" =>
        Fine(va_TraceVAEncSliceParameterBufferJPEG, N)
  <2>1. One(va_TraceVAEncSliceParameterBufferJPEG,
            "VAEncSliceParameterBufferJPEG")
    BY Covers1 DEF One, Sound, va_TraceVAEncSliceParameterBufferJPEG,
           Prints, VAEncSliceParameterBufferJPEG, Struct
  <2>2. Sent("JPEG", "EncSliceParameter", "VAEncSliceParameterBufferJPEG")
    BY DEF Sent, Sends
  <2> QED
    BY <1>1, <2>1, <2>2, FineSent
<1>3. e.type = "PictureParameter" =>
        Fine(va_TraceVAPictureParameterBufferJPEG(e), N)
  <2>1. One(va_TraceVAPictureParameterBufferJPEG(e),
            "VAPictureParameterBufferJPEGBaseline")
    BY <1>1, Covers1 DEF One, Sound, va_TraceVAPictureParameterBufferJPEG,
           Prints, VAPictureParameterBufferJPEGBaseline, AtMost, Struct
  <2>2. Sent("JPEG", "PictureParameter",
             "VAPictureParameterBufferJPEGBaseline")
    BY DEF Sent, Sends
  <2> QED
    BY <1>1, <2>1, <2>2, FineSent
<1>4. e.type = "IQMatrix" =>
        Fine(va_TraceVAIQMatrixBufferJPEG, N)
  <2>1. One(va_TraceVAIQMatrixBufferJPEG, "VAIQMatrixBufferJPEGBaseline")
    BY Covers1, Covers2 DEF One, Sound, va_TraceVAIQMatrixBufferJPEG,
           Prints, VAIQMatrixBufferJPEGBaseline, Struct
  <2>2. Sent("JPEG", "IQMatrix", "VAIQMatrixBufferJPEGBaseline")
    BY DEF Sent, Sends
  <2> QED
    BY <1>1, <2>1, <2>2, FineSent
<1>5. e.type = "SliceParameter" =>
        Fine(va_TraceVASliceParameterBufferJPEG(e), N)
  <2>1. One(va_TraceVASliceParameterBufferJPEG(e),
            "VASliceParameterBufferJPEGBaseline")
    BY <1>1, Covers1 DEF One, Sound, va_TraceVASliceParameterBufferJPEG,
           Prints, VASliceParameterBufferJPEGBaseline, AtMost, Struct
  <2>2. Sent("JPEG", "SliceParameter", "VASliceParameterBufferJPEGBaseline")
    BY DEF Sent, Sends
  <2> QED
    BY <1>1, <2>1, <2>2, FineSent
<1>6. e.type = "HuffmanTable" =>
        Fine(va_TraceVAHuffmanTableBufferJPEG, N)
  <2>1. One(va_TraceVAHuffmanTableBufferJPEG,
            "VAHuffmanTableBufferJPEGBaseline")
    BY Covers1 DEF One, Sound, va_TraceVAHuffmanTableBufferJPEG, Prints,
           VAHuffmanTableBufferJPEGBaseline, Struct
  <2>2. Sent("JPEG", "HuffmanTable", "VAHuffmanTableBufferJPEGBaseline")
    BY DEF Sent, Sends
  <2> QED
    BY <1>1, <2>1, <2>2, FineSent
<1>7. e.type = "EncPictureParameter" =>
        Fine(va_TraceVAEncPictureParameterBufferJPEG(e), N)
  <2>1. e.type = "EncPictureParameter" => e.count <= 4
    BY <1>1 DEF Conforms, MaxCount
  <2>2. e.type = "EncPictureParameter" =>
          One(va_TraceVAEncPictureParameterBufferJPEG(e),
            "VAEncPictureParameterBufferJPEG")
    BY <1>1, <2>1, Covers1 DEF One, Sound,
           va_TraceVAEncPictureParameterBufferJPEG, Prints,
           VAEncPictureParameterBufferJPEG, Struct
  <2>3. Sent("JPEG", "EncPictureParameter", "VAEncPictureParameterBufferJPEG")
    BY DEF Sent, Sends
  <2> QED
    BY <1>1, <2>2, <2>3, FineSent
<1>8. e.type = "QMatrix" =>
        Fine(va_TraceVAEncQMatrixBufferJPEG, N)
  <2>1. One(va_TraceVAEncQMatrixBufferJPEG, "VAQMatrixBufferJPEG")
    BY Covers1 DEF One, Sound, va_TraceVAEncQMatrixBufferJPEG, Prints,
           VAQMatrixBufferJPEG, Struct
  <2>2. Sent("JPEG", "QMatrix", "VAQMatrixBufferJPEG")
    BY DEF Sent, Sends
  <2> QED
    BY <1>1, <2>1, <2>2, FineSent
<1> QED
  BY <1>2, <1>3, <1>4, <1>5, <1>6, <1>7, <1>8, FineRaw, FineNone
     DEF va_TraceJPEGBuf, Raw, Nothing

(* The MPEG-4 buffers.                                                     *)
LEMMA FineMPEG4 ==
  ASSUME NEW profile \in Codec.MPEG4, NEW e, Conforms(profile, e)
  PROVE  Fine(va_TraceMPEG4Buf(e), Holds(profile, e))
<1> DEFINE N == Holds(profile, e)
<1>1. CodecOf(profile) = "MPEG4" /\ {e.count, e.size, e.l0, e.l1} \subseteq Nat
  BY CodecIs DEF Codec, Conforms
<1>2. e.type = "PictureParameter" =>
        Fine(va_TraceVAPictureParameterBufferMPEG4, N)
  <2>1. One(va_TraceVAPictureParameterBufferMPEG4,
            "VAPictureParameterBufferMPEG4")
    BY Covers1 DEF One, Sound, va_TraceVAPictureParameterBufferMPEG4,
           Prints, VAPictureParameterBufferMPEG4, Struct
  <2>2. Sent("MPEG4", "PictureParameter", "VAPictureParameterBufferMPEG4")
    BY DEF Sent, Sends
  <2> QED
    BY <1>1, <2>1, <2>2, FineSent
<1>3. e.type = "IQMatrix" =>
        Fine(va_TraceVAIQMatrixBufferMPEG4, N)
  <2>1. One(va_TraceVAIQMatrixBufferMPEG4, "VAIQMatrixBufferMPEG4")
    BY Covers1 DEF One, Sound, va_TraceVAIQMatrixBufferMPEG4, Prints,
           VAIQMatrixBufferMPEG4, Struct
  <2>2. Sent("MPEG4", "IQMatrix", "VAIQMatrixBufferMPEG4")
    BY DEF Sent, Sends
  <2> QED
    BY <1>1, <2>1, <2>2, FineSent
<1>4. e.type = "SliceParameter" =>
        Fine(va_TraceVASliceParameterBufferMPEG4, N)
  <2>1. One(va_TraceVASliceParameterBufferMPEG4,
            "VASliceParameterBufferMPEG4")
    BY DEF One, Sound, va_TraceVASliceParameterBufferMPEG4, Prints,
           VASliceParameterBufferMPEG4, Scalars, Struct
  <2>2. Sent("MPEG4", "SliceParameter", "VASliceParameterBufferMPEG4")
    BY DEF Sent, Sends
  <2> QED
    BY <1>1, <2>1, <2>2, FineSent
<1>5. e.type = "EncSequenceParameter" =>
        Fine(va_TraceVAEncSequenceParameterBufferMPEG4, N)
  <2>1. One(va_TraceVAEncSequenceParameterBufferMPEG4,
            "VAEncSequenceParameterBufferMPEG4")
    BY DEF One, Sound, va_TraceVAEncSequenceParameterBufferMPEG4, Prints,
           VAEncSequenceParameterBufferMPEG4, Scalars, Struct
  <2>2. Sent("MPEG4", "EncSequenceParameter",
             "VAEncSequenceParameterBufferMPEG4")
    BY DEF Sent, Sends
  <2> QED
    BY <1>1, <2>1, <2>2, FineSent
<1>6. e.type = "EncPictureParameter" =>
        Fine(va_TraceVAEncPictureParameterBufferMPEG4, N)
  <2>1. One(va_TraceVAEncPictureParameterBufferMPEG4,
            "VAEncPictureParameterBufferMPEG4")
    BY DEF One, Sound, va_TraceVAEncPictureParameterBufferMPEG4, Prints,
           VAEncPictureParameterBufferMPEG4, Scalars, Struct
  <2>2. Sent("MPEG4", "EncPictureParameter",
             "VAEncPictureParameterBufferMPEG4")
    BY DEF Sent, Sends
  <2> QED
    BY <1>1, <2>1, <2>2, FineSent
<1>7. e.type = "EncSliceParameter" =>
        Fine(va_TraceVAEncSliceParameterBuffer, N)
  <2>1. One(va_TraceVAEncSliceParameterBuffer, "VAEncSliceParameterBuffer")
    BY DEF One, Sound, va_TraceVAEncSliceParameterBuffer, Prints,
           VAEncSliceParameterBuffer, Scalars, Struct
  <2>2. Sent("MPEG4", "EncSliceParameter", "VAEncSliceParameterBuffer")
    BY DEF Sent, Sends
  <2> QED
    BY <1>1, <2>1, <2>2, FineSent
<1> QED
  BY <1>2, <1>3, <1>4, <1>5, <1>6, <1>7, FineRaw, FineNone
     DEF va_TraceMPEG4Buf, Raw, Nothing

(* The VVC buffers.                                                        *)
LEMMA FineVVC ==
  ASSUME NEW profile \in Codec.VVC, NEW e, Conforms(profile, e)
  PROVE  Fine(va_TraceVVCBuf(e), Holds(profile, e))
<1> DEFINE N == Holds(profile, e)
<1>1. CodecOf(profile) = "VVC" /\ {e.count, e.size, e.l0, e.l1} \subseteq Nat
  BY CodecIs DEF Codec, Conforms
<1>2. e.type = "PictureParameter" =>
        Fine(va_TraceVAPictureParameterBufferVVC, N)
  <2>1. One(va_TraceVAPictureParameterBufferVVC,
            "VAPictureParameterBufferVVC")
    BY Covers1, Covers2 DEF One, Sound, va_TraceVAPictureParameterBufferVVC,
           Prints, VAPictureParameterBufferVVC, Struct
  <2>2. Sent("VVC", "PictureParameter", "VAPictureParameterBufferVVC")
    BY DEF Sent, Sends
  <2> QED
    BY <1>1, <2>1, <2>2, FineSent
<1>3. e.type = "SliceParameter" =>
        Fine(va_TraceVASliceParameterBufferVVC, N)
  <2>1. One(va_TraceVASliceParameterBufferVVC, "VASliceParameterBufferVVC")
    BY SMTT(60), Covers1, Covers2 DEF One, Sound,
           va_TraceVASliceParameterBufferVVC, Prints,
           VASliceParameterBufferVVC, VAWeightedPredInfo, Nests, Struct
  <2>2. Sent("VVC", "SliceParameter", "VASliceParameterBufferVVC")
    BY DEF Sent, Sends
  <2> QED
    BY <1>1, <2>1, <2>2, FineSent
<1>4. e.type = "IQMatrix" =>
        Fine(va_TraceVAScalingListBufferVVC, N)
  <2>1. One(va_TraceVAScalingListBufferVVC, "VAScalingListVVC")
    BY Covers1, Covers3 DEF One, Sound, va_TraceVAScalingListBufferVVC,
           Prints, VAScalingListVVC, Struct
  <2>2. Sent("VVC", "IQMatrix", "VAScalingListVVC")
    BY DEF Sent, Sends
  <2> QED
    BY <1>1, <2>1, <2>2, FineSent
<1>5. e.type = "Alf" =>
        Fine(va_TraceVAAlfBufferVVC, N)
  <2>1. One(va_TraceVAAlfBufferVVC, "VAAlfDataVVC")
    BY Covers1, Covers2 DEF One, Sound, va_TraceVAAlfBufferVVC, Prints,
           VAAlfDataVVC, Struct
  <2>2. Sent("VVC", "Alf", "VAAlfDataVVC")
    BY DEF Sent, Sends
  <2> QED
    BY <1>1, <2>1, <2>2, FineSent
<1>6. e.type = "Lmcs" =>
        Fine(va_TraceVALmcsBufferVVC, N)
  <2>1. One(va_TraceVALmcsBufferVVC, "VALmcsDataVVC")
    BY Covers1 DEF One, Sound, va_TraceVALmcsBufferVVC, Prints,
           VALmcsDataVVC, Struct
  <2>2. Sent("VVC", "Lmcs", "VALmcsDataVVC")
    BY DEF Sent, Sends
  <2> QED
    BY <1>1, <2>1, <2>2, FineSent
<1>7. e.type = "SubPic" =>
        Fine(va_TraceVASubPicBufferVVC, N)
  <2>1. One(va_TraceVASubPicBufferVVC, "VASubPicVVC")
    BY Covers1 DEF One, Sound, va_TraceVASubPicBufferVVC, Prints,
           VASubPicVVC, Struct
  <2>2. Sent("VVC", "SubPic", "VASubPicVVC")
    BY DEF Sent, Sends
  <2> QED
    BY <1>1, <2>1, <2>2, FineSent
<1>8. e.type = "Tile" =>
        Fine(va_TraceVATileBufferVVC, N)
  <2>1. One(va_TraceVATileBufferVVC, "VATileBufferVVC")
    BY DEF One, Sound, va_TraceVATileBufferVVC, Prints, VATileBufferVVC,
           Scalars, Struct
  <2>2. Sent("VVC", "Tile", "VATileBufferVVC")
    BY DEF Sent, Sends
  <2> QED
    BY <1>1, <2>1, <2>2, FineSent
<1>9. e.type = "SliceStruct" =>
        Fine(va_TraceVASliceStructBufferVVC, N)
  <2>1. One(va_TraceVASliceStructBufferVVC, "VASliceStructVVC")
    BY Covers1 DEF One, Sound, va_TraceVASliceStructBufferVVC, Prints,
           VASliceStructVVC, Struct
  <2>2. Sent("VVC", "SliceStruct", "VASliceStructVVC")
    BY DEF Sent, Sends
  <2> QED
    BY <1>1, <2>1, <2>2, FineSent
<1> QED
  BY <1>2, <1>3, <1>4, <1>5, <1>6, <1>7, <1>8, <1>9, FineRaw, FineNone
     DEF va_TraceVVCBuf, Raw, Nothing

(* The H.264 buffers, slice data at the size of a slice of theirs.         *)
LEMMA FineH264 ==
  ASSUME NEW profile \in Codec.H264, NEW e, Conforms(profile, e),
         NEW slice_size \in Nat, e.type = "SliceData" => slice_size <= e.size
  PROVE  Fine(va_TraceH264Buf(e, slice_size), Holds(profile, e))
<1> DEFINE N == Holds(profile, e)
<1>1. CodecOf(profile) = "H264" /\ {e.count, e.size, e.l0, e.l1} \subseteq Nat
  BY CodecIs DEF Codec, Conforms
<1>2. e.type = "PictureParameter" =>
        Fine(va_TraceVAPictureParameterBufferH264, N)
  <2>1. One(va_TraceVAPictureParameterBufferH264,
            "VAPictureParameterBufferH264")
    BY Covers1 DEF One, Sound, va_TraceVAPictureParameterBufferH264, Prints,
           VAPictureParameterBufferH264, Struct
  <2>2. Sent("H264", "PictureParameter", "VAPictureParameterBufferH264")
    BY DEF Sent, Sends
  <2> QED
    BY <1>1, <2>1, <2>2, FineSent
<1>3. e.type = "IQMatrix" =>
        Fine(va_TraceVAIQMatrixBufferH264, N)
  <2>1. One(va_TraceVAIQMatrixBufferH264, "VAIQMatrixBufferH264")
    BY Covers2 DEF One, Sound, va_TraceVAIQMatrixBufferH264, Prints,
           VAIQMatrixBufferH264, Struct
  <2>2. Sent("H264", "IQMatrix", "VAIQMatrixBufferH264")
    BY DEF Sent, Sends
  <2> QED
    BY <1>1, <2>1, <2>2, FineSent
<1>4. e.type = "SliceParameter" =>
        Fine(va_TraceVASliceParameterBufferH264(e), N)
  <2>1. One(va_TraceVASliceParameterBufferH264(e),
            "VASliceParameterBufferH264")
    <3> DEFINE q == va_TraceVASliceParameterBufferH264(e)
    <3>1. q = <<q[1]>> /\ q[1].of.name = "VASliceParameterBufferH264"
      BY DEF va_TraceVASliceParameterBufferH264, Prints,
            VASliceParameterBufferH264, Struct
    <3>2. \A n \in {e.l0, e.l1} :
            AtMost(n + 1, 32) \in Nat /\ AtMost(n + 1, 32) <= 32
      BY <1>1 DEF AtMost
    <3>3. Sound(q[1])
      BY <3>2, Covers1, Covers2
         DEF Sound, va_TraceVASliceParameterBufferH264, Prints,
             VASliceParameterBufferH264, Struct
    <3> QED
      BY <3>1, <3>3 DEF One
  <2>2. Sent("H264", "SliceParameter", "VASliceParameterBufferH264")
    BY DEF Sent, Sends
  <2> QED
    BY <1>1, <2>1, <2>2, FineSent
<1>5. e.type = "SliceData" => Fine(va_TraceVABuffers(e, slice_size), N)
  BY <1>1, FineBytes
<1>6. e.type = "EncSequenceParameter" =>
        Fine(va_TraceVAEncSequenceParameterBufferH264(e), N)
  <2>1. One(va_TraceVAEncSequenceParameterBufferH264(e),
            "VAEncSequenceParameterBufferH264")
    BY <1>1, Covers1 DEF One, Sound,
           va_TraceVAEncSequenceParameterBufferH264, Prints,
           VAEncSequenceParameterBufferH264, AtMost, Struct
  <2>2. Sent("H264", "EncSequenceParameter",
             "VAEncSequenceParameterBufferH264")
    BY DEF Sent, Sends
  <2> QED
    BY <1>1, <2>1, <2>2, FineSent
<1>7. e.type = "EncPictureParameter" =>
        Fine(va_TraceVAEncPictureParameterBufferH264, N)
  <2>1. One(va_TraceVAEncPictureParameterBufferH264,
            "VAEncPictureParameterBufferH264")
    BY Covers1 DEF One, Sound, va_TraceVAEncPictureParameterBufferH264,
           Prints, VAEncPictureParameterBufferH264, Struct
  <2>2. Sent("H264", "EncPictureParameter", "VAEncPictureParameterBufferH264")
    BY DEF Sent, Sends
  <2> QED
    BY <1>1, <2>1, <2>2, FineSent
<1>8. e.type = "EncSliceParameter" /\ e.kind = "generic" =>
        Fine(va_TraceVAEncSliceParameterBuffer, N)
  <2>1. One(va_TraceVAEncSliceParameterBuffer, "VAEncSliceParameterBuffer")
    BY DEF One, Sound, va_TraceVAEncSliceParameterBuffer, Prints,
           VAEncSliceParameterBuffer, Scalars, Struct
  <2> QED
    BY <2>1, HoldsOthers, FineOne
<1>9. e.type = "EncSliceParameter" /\ e.kind # "generic" =>
        Fine(va_TraceVAEncSliceParameterBufferH264(e), N)
  <2>1. One(va_TraceVAEncSliceParameterBufferH264(e),
            "VAEncSliceParameterBufferH264")
    <3> DEFINE q == va_TraceVAEncSliceParameterBufferH264(e)
    <3>1. q = <<q[1]>> /\ q[1].of.name = "VAEncSliceParameterBufferH264"
      BY DEF va_TraceVAEncSliceParameterBufferH264, Prints,
            VAEncSliceParameterBufferH264, Struct
    <3>2. \A n \in {e.l0, e.l1} :
            AtMost(n + 1, 32) \in Nat /\ AtMost(n + 1, 32) <= 32
      BY <1>1 DEF AtMost
    <3>3. Sound(q[1])
      BY <3>2, Covers1, Covers2
         DEF Sound, va_TraceVAEncSliceParameterBufferH264, Prints,
             VAEncSliceParameterBufferH264, Struct
    <3> QED
      BY <3>1, <3>3 DEF One
  <2>2. e.type = "EncSliceParameter" /\ e.kind # "generic" =>
          "VAEncSliceParameterBufferH264" \in N
    BY <1>1 DEF Holds, Sends
  <2> QED
    BY <2>1, <2>2, FineOne
<1> QED
  BY <1>2, <1>3, <1>4, <1>5, <1>6, <1>7, <1>8, <1>9, FineRaw,
     FinePackedHeader, FineMisc, FineEncryption, FineNone
     DEF va_TraceH264Buf, Raw, Nothing

(* The VP8 buffers.                                                        *)
LEMMA FineVP8 ==
  ASSUME NEW profile \in Codec.VP8, NEW e, Conforms(profile, e)
  PROVE  Fine(va_TraceVP8Buf(e), Holds(profile, e))
<1> DEFINE N == Holds(profile, e)
<1>1. CodecOf(profile) = "VP8" /\ {e.count, e.size, e.l0, e.l1} \subseteq Nat
  BY CodecIs DEF Codec, Conforms
<1>2. e.type = "PictureParameter" =>
        Fine(va_TraceVAPictureParameterBufferVP8, N)
  <2>1. One(va_TraceVAPictureParameterBufferVP8,
            "VAPictureParameterBufferVP8")
    BY Covers1, Covers2 DEF One, Sound, va_TraceVAPictureParameterBufferVP8,
           Prints, VAPictureParameterBufferVP8, Struct
  <2>2. Sent("VP8", "PictureParameter", "VAPictureParameterBufferVP8")
    BY DEF Sent, Sends
  <2> QED
    BY <1>1, <2>1, <2>2, FineSent
<1>3. e.type = "IQMatrix" =>
        Fine(va_TraceVAIQMatrixBufferVP8, N)
  <2>1. One(va_TraceVAIQMatrixBufferVP8, "VAIQMatrixBufferVP8")
    BY Covers2 DEF One, Sound, va_TraceVAIQMatrixBufferVP8, Prints,
           VAIQMatrixBufferVP8, Struct
  <2>2. Sent("VP8", "IQMatrix", "VAIQMatrixBufferVP8")
    BY DEF Sent, Sends
  <2> QED
    BY <1>1, <2>1, <2>2, FineSent
<1>4. e.type = "SliceParameter" =>
        Fine(va_TraceVASliceParameterBufferVP8, N)
  <2>1. One(va_TraceVASliceParameterBufferVP8, "VASliceParameterBufferVP8")
    BY Covers1 DEF One, Sound, va_TraceVASliceParameterBufferVP8, Prints,
           VASliceParameterBufferVP8, Struct
  <2>2. Sent("VP8", "SliceParameter", "VASliceParameterBufferVP8")
    BY DEF Sent, Sends
  <2> QED
    BY <1>1, <2>1, <2>2, FineSent
<1>5. e.type = "Probability" =>
        Fine(va_TraceVAProbabilityBufferVP8, N)
  <2>1. One(va_TraceVAProbabilityBufferVP8, "VAProbabilityDataBufferVP8")
    BY Covers4 DEF One, Sound, va_TraceVAProbabilityBufferVP8, Prints,
           VAProbabilityDataBufferVP8, Struct
  <2>2. Sent("VP8", "Probability", "VAProbabilityDataBufferVP8")
    BY DEF Sent, Sends
  <2> QED
    BY <1>1, <2>1, <2>2, FineSent
<1>6. e.type = "EncSequenceParameter" =>
        Fine(va_TraceVAEncSequenceParameterBufferVP8, N)
  <2>1. One(va_TraceVAEncSequenceParameterBufferVP8,
            "VAEncSequenceParameterBufferVP8")
    BY Covers1 DEF One, Sound, va_TraceVAEncSequenceParameterBufferVP8,
           Prints, VAEncSequenceParameterBufferVP8, Struct
  <2>2. Sent("VP8", "EncSequenceParameter", "VAEncSequenceParameterBufferVP8")
    BY DEF Sent, Sends
  <2> QED
    BY <1>1, <2>1, <2>2, FineSent
<1>7. e.type = "EncPictureParameter" =>
        Fine(va_TraceVAEncPictureParameterBufferVP8, N)
  <2>1. One(va_TraceVAEncPictureParameterBufferVP8,
            "VAEncPictureParameterBufferVP8")
    BY Covers1 DEF One, Sound, va_TraceVAEncPictureParameterBufferVP8,
           Prints, VAEncPictureParameterBufferVP8, Struct
  <2>2. Sent("VP8", "EncPictureParameter", "VAEncPictureParameterBufferVP8")
    BY DEF Sent, Sends
  <2> QED
    BY <1>1, <2>1, <2>2, FineSent
<1> QED
  BY <1>2, <1>3, <1>4, <1>5, <1>6, <1>7, FineRaw, FineMisc, FineNone
     DEF va_TraceVP8Buf, Raw, Nothing

(* The VP9 buffers.                                                        *)
LEMMA FineVP9 ==
  ASSUME NEW profile \in Codec.VP9, NEW e, Conforms(profile, e)
  PROVE  Fine(va_TraceVP9Buf(e), Holds(profile, e))
<1> DEFINE N == Holds(profile, e)
<1>1. CodecOf(profile) = "VP9" /\ {e.count, e.size, e.l0, e.l1} \subseteq Nat
  BY CodecIs DEF Codec, Conforms
<1>2. e.type = "PictureParameter" =>
        Fine(va_TraceVAPictureParameterBufferVP9, N)
  <2>1. One(va_TraceVAPictureParameterBufferVP9,
            "VADecPictureParameterBufferVP9")
    BY Covers1 DEF One, Sound, va_TraceVAPictureParameterBufferVP9, Prints,
           VADecPictureParameterBufferVP9, Struct
  <2>2. Sent("VP9", "PictureParameter", "VADecPictureParameterBufferVP9")
    BY DEF Sent, Sends
  <2> QED
    BY <1>1, <2>1, <2>2, FineSent
<1>3. e.type = "EncSequenceParameter" =>
        Fine(va_TraceVAEncSequenceParameterBufferVP9, N)
  <2>1. One(va_TraceVAEncSequenceParameterBufferVP9,
            "VAEncSequenceParameterBufferVP9")
    BY DEF One, Sound, va_TraceVAEncSequenceParameterBufferVP9, Prints,
           VAEncSequenceParameterBufferVP9, Scalars, Struct
  <2>2. Sent("VP9", "EncSequenceParameter", "VAEncSequenceParameterBufferVP9")
    BY DEF Sent, Sends
  <2> QED
    BY <1>1, <2>1, <2>2, FineSent
<1>4. e.type = "EncPictureParameter" =>
        Fine(va_TraceVAEncPictureParameterBufferVP9, N)
  <2>1. One(va_TraceVAEncPictureParameterBufferVP9,
            "VAEncPictureParameterBufferVP9")
    BY Covers1 DEF One, Sound, va_TraceVAEncPictureParameterBufferVP9,
           Prints, VAEncPictureParameterBufferVP9, Struct
  <2>2. Sent("VP9", "EncPictureParameter", "VAEncPictureParameterBufferVP9")
    BY DEF Sent, Sends
  <2> QED
    BY <1>1, <2>1, <2>2, FineSent
<1>5. e.type = "SliceParameter" =>
        Fine(va_TraceVASliceParameterBufferVP9, N)
  <2>1. One(va_TraceVASliceParameterBufferVP9, "VASliceParameterBufferVP9")
    BY Covers1, Covers2 DEF One, Sound, va_TraceVASliceParameterBufferVP9,
           Prints, VASliceParameterBufferVP9, VASegmentParameterVP9, Nests,
           Struct
  <2>2. Sent("VP9", "SliceParameter", "VASliceParameterBufferVP9")
    BY DEF Sent, Sends
  <2> QED
    BY <1>1, <2>1, <2>2, FineSent
<1> QED
  BY <1>2, <1>3, <1>4, <1>5, FineRaw, FineMisc, FineEncryption, FineNone
     DEF va_TraceVP9Buf, Raw, Nothing

(* The AV1 buffers.                                                        *)
LEMMA FineAV1 ==
  ASSUME NEW profile \in Codec.AV1, NEW e, Conforms(profile, e)
  PROVE  Fine(va_TraceAV1Buf(e), Holds(profile, e))
<1> DEFINE N == Holds(profile, e)
<1>1. CodecOf(profile) = "AV1" /\ {e.count, e.size, e.l0, e.l1} \subseteq Nat
  BY CodecIs DEF Codec, Conforms
<1>2. e.type = "PictureParameter" =>
        Fine(va_TraceVAPictureParameterBufferAV1(e), N)
  <2>1. One(va_TraceVAPictureParameterBufferAV1(e),
            "VADecPictureParameterBufferAV1")
    <3> DEFINE q == va_TraceVAPictureParameterBufferAV1(e)
               of == VADecPictureParameterBufferAV1(e)
    <3>1. q = <<q[1]>> /\ q[1].of = of /\ of.name = "VADecPictureParameterBufferAV1"
      BY DEF va_TraceVAPictureParameterBufferAV1, Prints,
             VADecPictureParameterBufferAV1, Struct
    <3>2. \A a \in DOMAIN q[1].arrays :
            q[1].arrays[a] \in {<<e.count>>, <<2>>, <<7>>, <<8>>, <<10>>, <<14>>,
                                <<24>>, <<25>>, <<63>>, <<8, 8>>}
      BY SMTT(30) DEF va_TraceVAPictureParameterBufferAV1, Prints
    <3>3. DOMAIN q[1].arrays \subseteq DOMAIN of.arrays
      BY SMTT(30)
         DEF va_TraceVAPictureParameterBufferAV1, Prints,
             VADecPictureParameterBufferAV1, VAFilmGrainStructAV1,
             VASegmentationStructAV1, VAWarpedMotionParamsAV1, Nests, Struct
    <3>4. \A a \in DOMAIN q[1].arrays : q[1].arrays[a] = of.arrays[a]
      BY SMTT(90)
         DEF va_TraceVAPictureParameterBufferAV1, Prints,
             VADecPictureParameterBufferAV1, VAFilmGrainStructAV1,
             VASegmentationStructAV1, VAWarpedMotionParamsAV1, Nests, Struct
    <3>5. \A d \in {<<e.count>>, <<2>>, <<7>>, <<8>>, <<10>>, <<14>>, <<24>>, <<25>>,
                   <<63>>, <<8, 8>>} : Covers(d, d)
      BY <1>1, Covers1, Covers2
    <3> HIDE DEF q, of
    <3>6. Sound(q[1])
      <4> SUFFICES ASSUME NEW a \in DOMAIN q[1].arrays
                   PROVE  /\ a \in DOMAIN of.arrays
                          /\ Covers(of.arrays[a], q[1].arrays[a])
        BY <3>1, ZenonT(60) DEF Sound
      <4>1. a \in DOMAIN of.arrays
        BY <3>3
      <4>2. q[1].arrays[a] = of.arrays[a]
        BY <3>4
      <4>3. Covers(q[1].arrays[a], q[1].arrays[a])
        BY <3>2, <3>5, Zenon
      <4> QED
        BY <4>1, <4>2, <4>3, Zenon
    <3>7. One(q, "VADecPictureParameterBufferAV1")
      BY <3>1, <3>6 DEF One
    <3> QED
      BY <3>7 DEF q
  <2>2. Sent("AV1", "PictureParameter", "VADecPictureParameterBufferAV1")
    BY DEF Sent, Sends
  <2> QED
    BY <1>1, <2>1, <2>2, FineSent
<1>3. e.type = "SliceParameter" =>
        Fine(va_TraceVASliceParameterBufferAV1, N)
  <2>1. One(va_TraceVASliceParameterBufferAV1, "VASliceParameterBufferAV1")
    BY DEF One, Sound, va_TraceVASliceParameterBufferAV1, Prints,
           VASliceParameterBufferAV1, Scalars, Struct
  <2>2. Sent("AV1", "SliceParameter", "VASliceParameterBufferAV1")
    BY DEF Sent, Sends
  <2> QED
    BY <1>1, <2>1, <2>2, FineSent
<1>4. e.type = "EncSequenceParameter" =>
        Fine(va_TraceVAEncSequenceParameterBufferAV1, N)
  <2>1. One(va_TraceVAEncSequenceParameterBufferAV1,
            "VAEncSequenceParameterBufferAV1")
    BY DEF One, Sound, va_TraceVAEncSequenceParameterBufferAV1, Prints,
           VAEncSequenceParameterBufferAV1, Scalars, Struct
  <2>2. Sent("AV1", "EncSequenceParameter", "VAEncSequenceParameterBufferAV1")
    BY DEF Sent, Sends
  <2> QED
    BY <1>1, <2>1, <2>2, FineSent
<1>5. e.type = "EncPictureParameter" =>
        Fine(va_TraceVAEncPictureParameterBufferAV1, N)
  <2>1. One(va_TraceVAEncPictureParameterBufferAV1,
            "VAEncPictureParameterBufferAV1")
    BY SMTT(60), Covers1, Covers2 DEF One, Sound,
           va_TraceVAEncPictureParameterBufferAV1, Prints,
           VAEncPictureParameterBufferAV1, VAEncSegParamAV1,
           VAEncWarpedMotionParamsAV1, Nests, Struct
  <2>2. Sent("AV1", "EncPictureParameter", "VAEncPictureParameterBufferAV1")
    BY DEF Sent, Sends
  <2> QED
    BY <1>1, <2>1, <2>2, FineSent
<1>6. e.type = "EncSliceParameter" =>
        Fine(va_TraceVAEncSliceParameterBufferAV1, N)
  <2>1. One(va_TraceVAEncSliceParameterBufferAV1, "VAEncTileGroupBufferAV1")
    BY DEF One, Sound, va_TraceVAEncSliceParameterBufferAV1, Prints,
           VAEncTileGroupBufferAV1, Scalars, Struct
  <2>2. Sent("AV1", "EncSliceParameter", "VAEncTileGroupBufferAV1")
    BY DEF Sent, Sends
  <2> QED
    BY <1>1, <2>1, <2>2, FineSent
<1> QED
  BY <1>2, <1>3, <1>4, <1>5, <1>6, FineRaw, FineMisc, FinePackedHeader,
     FineEncryption, FineNone
     DEF va_TraceAV1Buf, Raw, Nothing

(* The VC-1 buffers, slice data at the size of a slice of theirs.          *)
LEMMA FineVC1 ==
  ASSUME NEW profile \in Codec.VC1, NEW e, Conforms(profile, e),
         NEW slice_size \in Nat, e.type = "SliceData" => slice_size <= e.size
  PROVE  Fine(va_TraceVC1Buf(e, slice_size), Holds(profile, e))
<1> DEFINE N == Holds(profile, e)
<1>1. CodecOf(profile) = "VC1" /\ {e.count, e.size, e.l0, e.l1} \subseteq Nat
  BY CodecIs DEF Codec, Conforms
<1>2. e.type = "PictureParameter" =>
        Fine(va_TraceVAPictureParameterBufferVC1, N)
  <2>1. One(va_TraceVAPictureParameterBufferVC1,
            "VAPictureParameterBufferVC1")
    BY DEF One, Sound, va_TraceVAPictureParameterBufferVC1, Prints,
           VAPictureParameterBufferVC1, Scalars, Struct
  <2>2. Sent("VC1", "PictureParameter", "VAPictureParameterBufferVC1")
    BY DEF Sent, Sends
  <2> QED
    BY <1>1, <2>1, <2>2, FineSent
<1>3. e.type = "SliceParameter" =>
        Fine(va_TraceVASliceParameterBufferVC1, N)
  <2>1. One(va_TraceVASliceParameterBufferVC1, "VASliceParameterBufferVC1")
    BY DEF One, Sound, va_TraceVASliceParameterBufferVC1, Prints,
           VASliceParameterBufferVC1, Scalars, Struct
  <2>2. Sent("VC1", "SliceParameter", "VASliceParameterBufferVC1")
    BY DEF Sent, Sends
  <2> QED
    BY <1>1, <2>1, <2>2, FineSent
<1>4. e.type = "SliceData" => Fine(va_TraceVABuffers(e, slice_size), N)
  BY <1>1, FineBytes
<1> QED
  BY <1>2, <1>3, <1>4, FineRaw, FineNone
     DEF va_TraceVC1Buf, Raw, Nothing

(* HEVC: one buffer holds the base struct and those of the extensions.     *)
LEMMA FineHEVC ==
  ASSUME NEW profile \in Codec.HEVC, NEW e, Conforms(profile, e)
  PROVE  Fine(va_TraceHEVCBuf(profile, e), Holds(profile, e))
<1> DEFINE N == Holds(profile, e)
<1>1. /\ CodecOf(profile) = "HEVC"
      /\ {e.count, e.size, e.l0, e.l1} \subseteq Nat
      /\ e.l0 <= 14 /\ e.l1 <= 14
  <2>1. CodecOf(profile) = "HEVC"
    BY CodecIs DEF Codec
  <2>2. "HEVC" \in DOMAIN MaxActive /\ MaxActive.HEVC = 14
    BY DEF MaxActive
  <2> QED
    BY <2>1, <2>2 DEF Conforms
<1>2. va_TraceIsRextProfile(profile) => profile \in RangeExtension
  BY DEF va_TraceIsRextProfile, RangeExtension
<1>3. va_TraceIsSccProfile(profile) => profile \in ScreenContent
  BY DEF va_TraceIsSccProfile, ScreenContent
<1> HIDE DEF N
<1>4. ASSUME e.type = "PictureParameter"
      PROVE  Fine(va_TraceVAPictureParameterBufferHEVC(profile), N)
  <2> DEFINE base == Prints(VAPictureParameterBufferHEVC,
                       [ReferenceFrames |-> <<15>>,
                        column_width_minus1 |-> <<19>>,
                        row_height_minus1 |-> <<21>>])
             rext == Prints(VAPictureParameterBufferHEVCRext,
                       [cb_qp_offset_list |-> <<6>>, cr_qp_offset_list |-> <<6>>])
             scc  == Prints(VAPictureParameterBufferHEVCScc,
                       [predictor_palette_entries |-> <<3, 128>>])
  <2>1. Fine(base, N)
    <3>1. One(base, "VAPictureParameterBufferHEVC")
      BY Covers1 DEF One, Sound, Prints, VAPictureParameterBufferHEVC, Struct
    <3>2. Sent("HEVC", "PictureParameter", "VAPictureParameterBufferHEVC")
      BY DEF Sent, Sends
    <3> QED
      BY <1>1, <1>4, <3>1, <3>2, FineSent DEF N
  <2>2. va_TraceIsRextProfile(profile) => Fine(rext, N)
    <3>1. One(rext, "VAPictureParameterBufferHEVCRext")
      BY Covers1 DEF One, Sound, Prints, VAPictureParameterBufferHEVCRext, Struct
    <3>2. profile \in RangeExtension => "VAPictureParameterBufferHEVCRext" \in N
      BY <1>1, <1>4 DEF N, Holds
    <3> QED
      BY <1>2, <3>1, <3>2, FineOne
  <2>3. va_TraceIsSccProfile(profile) => Fine(scc, N)
    <3>1. One(scc, "VAPictureParameterBufferHEVCScc")
      BY Covers2 DEF One, Sound, Prints, VAPictureParameterBufferHEVCScc, Struct
    <3>2. profile \in ScreenContent => "VAPictureParameterBufferHEVCScc" \in N
      BY <1>1, <1>4 DEF N, Holds
    <3> QED
      BY <1>3, <3>1, <3>2, FineOne
  <2> DEFINE isRext == va_TraceIsRextProfile(profile)
             isScc == va_TraceIsSccProfile(profile)
             second == IF isRext THEN rext ELSE << >>
             third == IF isRext /\ isScc THEN scc ELSE << >>
  <2>4. va_TraceVAPictureParameterBufferHEVC(profile) = base \o second \o third
    BY DEF va_TraceVAPictureParameterBufferHEVC
  <2>5. Fine(second, N) /\ Fine(third, N)
    <3> HIDE DEF rext, scc
    <3> QED
      BY <2>2, <2>3, FineNone
  <2> HIDE DEF base, second, third
  <2>6. Fine(base \o second, N)
    BY <2>1, <2>5, FineBoth
  <2> QED
    BY <2>4, <2>5, <2>6, FineBoth
<1>5. ASSUME e.type = "SliceParameter"
      PROVE  Fine(va_TraceVASliceParameterBufferHEVC(profile, e), N)
  <2> DEFINE m == e.l0 + 1
             n == e.l1 + 1
             base == Prints(VASliceParameterBufferHEVC,
                       [RefPicList |-> <<2, 15>>,
                        delta_luma_weight_l0 |-> <<m>>, luma_offset_l0 |-> <<m>>,
                        delta_chroma_weight_l0 |-> <<m, 2>>,
                        ChromaOffsetL0 |-> <<m, 2>>,
                        delta_luma_weight_l1 |-> <<n>>, luma_offset_l1 |-> <<n>>,
                        delta_chroma_weight_l1 |-> <<n, 2>>,
                        ChromaOffsetL1 |-> <<n, 2>>])
             rext == Prints(VASliceParameterBufferHEVCRext,
                       [luma_offset_l0 |-> <<15>>, ChromaOffsetL0 |-> <<15, 2>>,
                        luma_offset_l1 |-> <<15>>, ChromaOffsetL1 |-> <<15, 2>>])
             second == IF va_TraceIsRextProfile(profile) THEN rext ELSE << >>
  <2>1. va_TraceVASliceParameterBufferHEVC(profile, e) = base \o second
    BY DEF va_TraceVASliceParameterBufferHEVC
  <2>2. m \in Nat /\ n \in Nat /\ m <= 15 /\ n <= 15
    BY <1>1
  <2>3. Fine(base, N)
    <3> HIDE DEF m, n
    <3>1. base = <<base[1]>> /\ base[1].of.name = "VASliceParameterBufferHEVC"
      BY DEF Prints, VASliceParameterBufferHEVC, Struct
    <3>2. Sound(base[1])
      BY <2>2, Covers1, Covers2
         DEF Sound, Prints, VASliceParameterBufferHEVC, Struct
    <3>3. Sent("HEVC", "SliceParameter", "VASliceParameterBufferHEVC")
      BY DEF Sent, Sends
    <3>4. One(base, "VASliceParameterBufferHEVC")
      BY <3>1, <3>2 DEF One
    <3> HIDE DEF base
    <3> QED
      BY <1>1, <1>5, <3>3, <3>4, FineSent DEF N
  <2>4. Fine(second, N)
    <3>1. One(rext, "VASliceParameterBufferHEVCRext")
      BY Covers1, Covers2
         DEF One, Sound, Prints, VASliceParameterBufferHEVCRext, Struct
    <3>2. profile \in RangeExtension => "VASliceParameterBufferHEVCRext" \in N
      BY <1>1, <1>5 DEF N, Holds
    <3> HIDE DEF rext
    <3> QED
      BY <1>2, <3>1, <3>2, FineOne, FineNone
  <2> HIDE DEF base, second
  <2> QED
    BY <2>1, <2>3, <2>4, FineBoth
<1>6. e.type = "IQMatrix" =>
        Fine(va_TraceVAIQMatrixBufferHEVC, N)
  <2>1. One(va_TraceVAIQMatrixBufferHEVC, "VAIQMatrixBufferHEVC")
    BY Covers1, Covers2 DEF One, Sound, va_TraceVAIQMatrixBufferHEVC,
           Prints, VAIQMatrixBufferHEVC, Struct
  <2>2. Sent("HEVC", "IQMatrix", "VAIQMatrixBufferHEVC")
    BY DEF Sent, Sends
  <2> QED
    BY <1>1, <2>1, <2>2, FineSent DEF N
<1>7. e.type = "EncSequenceParameter" =>
        Fine(va_TraceVAEncSequenceParameterBufferHEVC, N)
  <2>1. One(va_TraceVAEncSequenceParameterBufferHEVC,
            "VAEncSequenceParameterBufferHEVC")
    BY DEF One, Sound, va_TraceVAEncSequenceParameterBufferHEVC, Prints,
           VAEncSequenceParameterBufferHEVC, Scalars, Struct
  <2>2. Sent("HEVC", "EncSequenceParameter",
             "VAEncSequenceParameterBufferHEVC")
    BY DEF Sent, Sends
  <2> QED
    BY <1>1, <2>1, <2>2, FineSent DEF N
<1>8. e.type = "EncPictureParameter" =>
        Fine(va_TraceVAEncPictureParameterBufferHEVC, N)
  <2>1. One(va_TraceVAEncPictureParameterBufferHEVC,
            "VAEncPictureParameterBufferHEVC")
    BY Covers1 DEF One, Sound, va_TraceVAEncPictureParameterBufferHEVC,
           Prints, VAEncPictureParameterBufferHEVC, Struct
  <2>2. Sent("HEVC", "EncPictureParameter", "VAEncPictureParameterBufferHEVC")
    BY DEF Sent, Sends
  <2> QED
    BY <1>1, <2>1, <2>2, FineSent DEF N
<1>9. e.type = "EncSliceParameter" =>
        Fine(va_TraceVAEncSliceParameterBufferHEVC, N)
  <2>1. One(va_TraceVAEncSliceParameterBufferHEVC,
            "VAEncSliceParameterBufferHEVC")
    BY Covers1, Covers2 DEF One, Sound,
           va_TraceVAEncSliceParameterBufferHEVC, Prints,
           VAEncSliceParameterBufferHEVC, Struct
  <2>2. Sent("HEVC", "EncSliceParameter", "VAEncSliceParameterBufferHEVC")
    BY DEF Sent, Sends
  <2> QED
    BY <1>1, <2>1, <2>2, FineSent DEF N
<1> QED
  BY <1>4, <1>5, <1>6, <1>7, <1>8, <1>9, FineRaw, FineMisc, FineEncryption
     DEF va_TraceHEVCBuf, Raw, N

(* Video processing: the pipeline and the filters it points to.            *)
LEMMA FineProc ==
  ASSUME NEW profile \in Codec.None, NEW e, Conforms(profile, e)
  PROVE  Fine(va_TraceNoneBuf(e), Holds(profile, e))
<1> DEFINE N == Holds(profile, e)
<1>1. CodecOf(profile) = "None" /\ e.count \in Nat
  BY CodecIs DEF Codec, Conforms
<1>2. ASSUME e.type = "ProcPipelineParameter"
      PROVE  Fine(va_TraceVAProcPipelineParameterBuffer(e), N)
  <2>1. AtMost(e.count, 5) \in Nat /\ AtMost(e.count, 5) <= e.count
    BY <1>1 DEF AtMost
  <2>2. One(va_TraceVAProcPipelineParameterBuffer(e),
            "VAProcPipelineParameterBuffer")
    BY <1>1, <2>1, Covers1
       DEF One, Sound, va_TraceVAProcPipelineParameterBuffer, Prints,
           VAProcPipelineParameterBuffer, Struct
  <2>3. Sent("None", "ProcPipelineParameter", "VAProcPipelineParameterBuffer")
    BY DEF Sent, Sends
  <2> QED
    BY <1>1, <1>2, <2>2, <2>3, FineSent
<1>3. ASSUME e.type = "ProcPipelineParameter"
      PROVE  Fine(va_TraceProcFilterParameterBuffer(e), N)
  <2>1. {FilterStruct[e.kind], "VAProcFilterParameterBufferBase"} \subseteq N
    BY <1>3, HoldsOthers
  <2>2. CASE e.kind = "Deinterlacing"
    <3>1. One(va_TraceProcFilterParameterBuffer(e),
              "VAProcFilterParameterBufferDeinterlacing")
      BY <2>2
         DEF One, Sound, va_TraceProcFilterParameterBuffer,
             va_TraceProcFilterParameterBufferDeinterlacing, Prints,
             VAProcFilterParameterBufferDeinterlacing, Scalars, Struct
    <3>2. FilterStruct.Deinterlacing = "VAProcFilterParameterBufferDeinterlacing"
      BY DEF FilterStruct
    <3> QED
      BY <2>1, <2>2, <3>1, <3>2, FineOne
  <2>3. CASE e.kind = "ColorBalance"
    <3>1. One(va_TraceProcFilterParameterBuffer(e),
              "VAProcFilterParameterBufferColorBalance")
      BY <2>3
         DEF One, Sound, va_TraceProcFilterParameterBuffer,
             va_TraceProcFilterParameterBufferColorBalance, Prints,
             VAProcFilterParameterBufferColorBalance, Scalars, Struct
    <3>2. FilterStruct.ColorBalance = "VAProcFilterParameterBufferColorBalance"
      BY DEF FilterStruct
    <3> QED
      BY <2>1, <2>3, <3>1, <3>2, FineOne
  <2>4. CASE e.kind \notin {"Deinterlacing", "ColorBalance"}
    <3>1. One(va_TraceProcFilterParameterBuffer(e),
              "VAProcFilterParameterBufferBase")
      BY <2>4
         DEF One, Sound, va_TraceProcFilterParameterBuffer, Prints,
             VAProcFilterParameterBufferBase, Scalars, Struct
    <3> QED
      BY <2>1, <3>1, FineOne
  <2> QED
    BY <2>2, <2>3, <2>4
<1> HIDE DEF N
<1>4. CASE e.type = "ProcPipelineParameter"
  BY <1>2, <1>3, <1>4, FineBoth DEF va_TraceNoneBuf, N
<1>5. CASE e.type # "ProcPipelineParameter"
  BY <1>5, FineRaw DEF va_TraceNoneBuf, N
<1> QED
  BY <1>4, <1>5

(* va_TraceRenderPicture: the switch on the profile finds the codec.       *)
LEMMA FineElement ==
  ASSUME NEW profile, NEW e, Conforms(profile, e), NEW size \in Nat,
         /\ e.type = "SliceData"
         /\ CodecOf(profile) \in {"H264", "VC1"}
         => size <= e.size
  PROVE  Fine(TraceElement(profile, e, size), Holds(profile, e))
<1>1. CASE profile \in Codec.MPEG2
  <2>1. TraceElement(profile, e, size) = va_TraceMPEG2Buf(e)
    BY <1>1 DEF TraceElement, Codec
  <2> QED
    BY <1>1, <2>1, FineMPEG2
<1>2. CASE profile \in Codec.MPEG4
  <2>1. TraceElement(profile, e, size) = va_TraceMPEG4Buf(e)
    BY <1>2 DEF TraceElement, Codec
  <2> QED
    BY <1>2, <2>1, FineMPEG4
<1>3. CASE profile \in Codec.H264
  <2>1. TraceElement(profile, e, size) = va_TraceH264Buf(e, size)
    BY <1>3 DEF TraceElement, Codec
  <2>2. CodecOf(profile) = "H264"
    BY <1>3, CodecIs DEF Codec
  <2> QED
    BY <1>3, <2>1, <2>2, FineH264
<1>4. CASE profile \in Codec.VC1
  <2>1. TraceElement(profile, e, size) = va_TraceVC1Buf(e, size)
    BY <1>4 DEF TraceElement, Codec
  <2>2. CodecOf(profile) = "VC1"
    BY <1>4, CodecIs DEF Codec
  <2> QED
    BY <1>4, <2>1, <2>2, FineVC1
<1>5. CASE profile \in Codec.H263
  <2>1. TraceElement(profile, e, size) = va_TraceH263Buf(e)
    BY <1>5 DEF TraceElement, Codec
  <2> QED
    BY <1>5, <2>1, FineH263
<1>6. CASE profile \in Codec.JPEG
  <2>1. TraceElement(profile, e, size) = va_TraceJPEGBuf(e)
    BY <1>6 DEF TraceElement, Codec
  <2> QED
    BY <1>6, <2>1, FineJPEG
<1>7. CASE profile \in Codec.None
  <2>1. TraceElement(profile, e, size) = va_TraceNoneBuf(e)
    BY <1>7 DEF TraceElement, Codec
  <2> QED
    BY <1>7, <2>1, FineProc
<1>8. CASE profile \in Codec.VP8
  <2>1. TraceElement(profile, e, size) = va_TraceVP8Buf(e)
    BY <1>8 DEF TraceElement, Codec
  <2> QED
    BY <1>8, <2>1, FineVP8
<1>9. CASE profile \in Codec.HEVC
  <2>1. TraceElement(profile, e, size) = va_TraceHEVCBuf(profile, e)
    BY <1>9 DEF TraceElement, Codec
  <2> QED
    BY <1>9, <2>1, FineHEVC
<1>10. CASE profile \in Codec.VVC
  <2>1. TraceElement(profile, e, size) = va_TraceVVCBuf(e)
    BY <1>10 DEF TraceElement, Codec
  <2> QED
    BY <1>10, <2>1, FineVVC
<1>11. CASE profile \in Codec.VP9
  <2>1. TraceElement(profile, e, size) = va_TraceVP9Buf(e)
    BY <1>11 DEF TraceElement, Codec
  <2> QED
    BY <1>11, <2>1, FineVP9
<1>12. CASE profile \in Codec.AV1
  <2>1. TraceElement(profile, e, size) = va_TraceAV1Buf(e)
    BY <1>12 DEF TraceElement, Codec
  <2> QED
    BY <1>12, <2>1, FineAV1
<1>13. CASE \A c \in DOMAIN Codec : profile \notin Codec[c]
  <2>1. TraceElement(profile, e, size) = << >>
    BY <1>13 DEF TraceElement, Codec, Nothing
  <2> QED
    BY <2>1, FineNone
<1> QED
  BY <1>1, <1>2, <1>3, <1>4, <1>5, <1>6, <1>7,
     <1>8, <1>9, <1>10, <1>11, <1>12, <1>13 DEF Codec

-----------------------------------------------------------------------------
(* The invariant.                                                          *)

(* The application announces slices inside of a picture, and a buffer is   *)
(* shown there; the size that the tracer keeps is of the last slice.       *)
SizeKept ==
  /\ trace_slice_size \in Nat
  /\ announced \in Seq(SliceSize)
  /\ announced # << >> \/ shown # NoBuffer => picture
  /\ picture => trace_profile # "none"
  /\ announced # << >> /\ KeepsSliceSize(trace_profile)
       => trace_slice_size = Last(announced)

PicturesInv == SizeKept /\ WithinStruct /\ OwnStruct /\ SliceDataShown

(* No buffer, nothing to go wrong with.                                    *)
LEMMA NothingShown ==
  ASSUME shown = NoBuffer
  PROVE  WithinStruct /\ OwnStruct /\ SliceDataShown
<1>1. Len(shown.prints) = 0 /\ Len(shown.elements) = 0
  BY DEF NoBuffer
<1> QED
  BY <1>1 DEF WithinStruct, OwnStruct, SliceDataShown

(* The same of the next state.                                             *)
LEMMA NothingShownNext ==
  ASSUME shown' = NoBuffer
  PROVE  (WithinStruct /\ OwnStruct /\ SliceDataShown)'
<1>1. Len(shown'.prints) = 0 /\ Len(shown'.elements) = 0
  BY DEF NoBuffer
<1> QED
  BY <1>1 DEF WithinStruct, OwnStruct, SliceDataShown

(* The length of a sequence that is written as a function.                 *)
LEMMA LenIs ==
  ASSUME NEW n \in Nat, NEW s, s = [i \in 1 .. n |-> s[i]]
  PROVE  Len(s) = n /\ s \in Seq({s[i] : i \in 1 .. n})
<1> DEFINE S == {s[i] : i \in 1 .. n}
<1>1. \A i \in 1 .. n : s[i] \in S
  OBVIOUS
<1> HIDE DEF S
<1>2. s \in Seq(S) /\ DOMAIN s = 1 .. n
  BY <1>1
<1>3. Len(s) \in Nat /\ 1 .. Len(s) = 1 .. n
  BY <1>2
<1>4. Len(s) = n
  BY <1>3
<1> QED
  BY <1>2, <1>4 DEF S

(* A buffer of conforming elements of one type and kind is shown right.    *)
LEMMA ShowFine ==
  ASSUME NEW elements, Len(elements) \in Nat \ {0},
         trace_slice_size \in Nat, Show(elements), trace_profile' = trace_profile,
         \A i \in 1 .. Len(elements) :
           /\ Conforms(trace_profile, elements[i])
           /\ Holds(trace_profile, elements[i])
                = Holds(trace_profile, elements[1])
           /\ /\ elements[i].type = "SliceData"
              /\ CodecOf(trace_profile) \in {"H264", "VC1"}
              => trace_slice_size <= elements[i].size
  PROVE  WithinStruct' /\ OwnStruct'
<1> DEFINE n == Len(elements)
           N == Holds(trace_profile, elements[1])
           dumps == [i \in 1 .. n |->
                       TraceElement(trace_profile, elements[i], trace_slice_size)]
           prints == FlattenSeq(dumps)
<1>1. shown' = [elements |-> elements, prints |-> prints]
  BY DEF Show
<1>2. \A i \in 1 .. n : Fine(dumps[i], N)
  BY FineElement
<1> HIDE DEF N
<1>3. Fine(prints, N)
  <2>1. dumps = [i \in 1 .. n |-> dumps[i]]
    OBVIOUS
  <2> HIDE DEF dumps
  <2> QED
    BY <1>2, <2>1, FineAll
<1> HIDE DEF prints
<1>4. \A i \in 1 .. Len(prints) : Sound(prints[i]) /\ prints[i].of.name \in N
  BY <1>3 DEF Fine
<1>5. shown'.prints = prints /\ shown'.elements = elements
  BY <1>1
<1>6. WithinStruct'
  BY <1>4, <1>5 DEF WithinStruct, Sound
<1>7. OwnStruct'
  BY <1>4, <1>5 DEF OwnStruct, N
<1> QED
  BY <1>6, <1>7

(* The same of a buffer with one element.                                  *)
LEMMA ShowOne ==
  ASSUME NEW e, Conforms(trace_profile, e),
         trace_slice_size \in Nat, Show(<<e>>), trace_profile' = trace_profile,
         /\ e.type = "SliceData"
         /\ CodecOf(trace_profile) \in {"H264", "VC1"}
         => trace_slice_size <= e.size
  PROVE  WithinStruct' /\ OwnStruct'
<1> DEFINE elements == <<e>>
<1>1. Len(elements) = 1 /\ \A i \in 1 .. Len(elements) : elements[i] = e
  OBVIOUS
<1>2. Show(elements)
  OBVIOUS
<1> HIDE DEF elements
<1>3. /\ Len(elements) \in Nat \ {0}
      /\ \A i \in 1 .. Len(elements) :
           /\ Conforms(trace_profile, elements[i])
           /\ Holds(trace_profile, elements[i])
                = Holds(trace_profile, elements[1])
           /\ /\ elements[i].type = "SliceData"
              /\ CodecOf(trace_profile) \in {"H264", "VC1"}
              => trace_slice_size <= elements[i].size
  BY <1>1
<1> QED
  BY <1>2, <1>3, ShowFine

(* Slice parameters: the last one leaves its size.                         *)
LEMMA SliceParametersStep ==
  ASSUME PicturesInv, picture, RenderSliceParameters
  PROVE  PicturesInv'
<1> DEFINE codec == CodecOf(trace_profile)
<1>1. PICK sizes \in BoundedSeq(SliceSize, MaxElements) \ {<< >>} :
        \E elements \in SliceElements(trace_profile, sizes) :
          /\ Show(elements)
          /\ announced' = sizes
          /\ trace_slice_size' = IF KeepsSliceSize(trace_profile)
                                 THEN LastSliceSize(elements)
                                 ELSE trace_slice_size
          /\ UNCHANGED <<trace_profile, picture>>
  BY DEF RenderSliceParameters
<1>2. PICK elements \in SliceElements(trace_profile, sizes) :
        /\ Show(elements)
        /\ announced' = sizes
        /\ trace_slice_size' = IF KeepsSliceSize(trace_profile)
                               THEN LastSliceSize(elements)
                               ELSE trace_slice_size
        /\ UNCHANGED <<trace_profile, picture>>
  BY <1>1
<1> DEFINE n == Len(sizes)
<1>3. sizes \in Seq(SliceSize) /\ n \in Nat \ {0}
  <2>1. PICK m \in 0 .. MaxElements : sizes \in [1 .. m -> SliceSize]
    BY DEF BoundedSeq, SeqOf
  <2>2. m \in Nat /\ sizes \in Seq(SliceSize)
    BY <2>1, PicturesAssumption
  <2> QED
    BY <2>2
<1>4. PICK count \in Counts, l0 \in Nat, l1 \in Nat :
        /\ count <= MaxCount(codec, "SliceParameter")
        /\ codec \in DOMAIN MaxActive =>
             l0 <= MaxActive[codec] /\ l1 <= MaxActive[codec]
        /\ elements = [i \in 1 .. n |->
             Element("SliceParameter", "own", count, l0, l1, 1, sizes[i])]
  <2> DEFINE active == IF codec \in DOMAIN MaxActive
                       THEN {m \in Counts : m <= MaxActive[codec]} ELSE {0}
  <2>1. PICK count \in {m \in Counts : m <= MaxCount(codec, "SliceParameter")},
             l0 \in active, l1 \in active :
          elements = [i \in 1 .. n |->
             Element("SliceParameter", "own", count, l0, l1, 1, sizes[i])]
    BY DEF SliceElements
  <2>2. l0 \in Nat /\ l1 \in Nat
    BY PicturesAssumption
  <2> QED
    BY <2>1, <2>2
<1> HIDE DEF n
<1> DEFINE e(i) == Element("SliceParameter", "own", count, l0, l1, 1, sizes[i])
<1>5. \A i \in 1 .. n :
        /\ elements[i] = e(i)
        /\ elements[i].type = "SliceParameter" /\ elements[i].kind = "own"
        /\ elements[i].slice_data_size = sizes[i]
  BY <1>4 DEF Element
<1>6. \A i \in 1 .. n : Conforms(trace_profile, elements[i])
  <2>1. "own" \in Kinds(codec, "SliceParameter")
    BY DEF Kinds
  <2>2. count \in Nat
    BY PicturesAssumption
  <2>3. \A i \in 1 .. n : Conforms(trace_profile, e(i))
    BY <1>4, <2>1, <2>2 DEF Conforms, Element
  <2> QED
    BY <1>5, <2>3
<1>7. \A i \in 1 .. n :
        Holds(trace_profile, elements[i]) = Holds(trace_profile, elements[1])
  <2>1. 1 \in 1 .. n
    BY <1>3 DEF n
  <2> QED
    BY <1>5, <2>1 DEF Holds
<1>8. elements = [i \in 1 .. n |-> elements[i]]
  BY <1>4
<1>9. Len(elements) = n /\ n \in Nat \ {0}
  BY <1>3, <1>8, LenIs DEF n
<1>10. WithinStruct' /\ OwnStruct'
  <2>1. trace_slice_size \in Nat
    BY DEF PicturesInv, SizeKept
  <2> QED
    BY <1>2, <1>5, <1>6, <1>7, <1>9, <2>1, ShowFine
<1>11. SliceDataShown'
  BY <1>2, <1>5, <1>9 DEF SliceDataShown, Show
<1>12. Last(elements).slice_data_size = Last(sizes) /\ Last(sizes) \in Nat
  <2>1. n \in 1 .. n /\ sizes[n] \in SliceSize
    BY <1>3 DEF n
  <2> QED
    BY <1>5, <1>9, <2>1, PicturesAssumption DEF Last, n
<1>13. SizeKept'
  BY <1>2, <1>3, <1>12 DEF PicturesInv, SizeKept, KeepsSliceSize, LastSliceSize
<1> QED
  BY <1>10, <1>11, <1>13 DEF PicturesInv

(* Slice data: no larger than the slices announced, and of the last one.   *)
LEMMA SliceDataStep ==
  ASSUME PicturesInv, picture, RenderSliceData
  PROVE  PicturesInv'
<1> DEFINE size == FoldSeq(+, 0, announced)
           e == Element("SliceData", "own", 0, 0, 0, size, Last(announced))
           n == Len(announced)
<1>1. announced \in Seq(SliceSize) /\ announced # << >>
  BY DEF PicturesInv, SizeKept, RenderSliceData
<1>2. size \in Nat /\ Last(announced) \in Nat /\ Last(announced) <= size
  <2>1. n \in 1 .. n
    BY <1>1
  <2>2. announced \in Seq(Nat)
    <3>1. \A i \in 1 .. n : announced[i] \in SliceSize
      BY <1>1
    <3>2. announced = [i \in 1 .. n |-> announced[i]] /\ n \in Nat
      BY <1>1
    <3>3. SliceSize \subseteq Nat
      BY PicturesAssumption
    <3> HIDE DEF n
    <3> QED
      BY <3>1, <3>2, <3>3
  <2>3. size \in Nat /\ \A i \in 1 .. n : announced[i] <= size
    BY <2>2, SumBounds
  <2>4. announced[n] \in Nat
    BY <2>1, <2>2
  <2> HIDE DEF size
  <2> QED
    BY <2>1, <2>3, <2>4 DEF Last
<1> HIDE DEF size
<1>3. /\ Show(<<e>>)
      /\ announced' = << >>
      /\ UNCHANGED <<trace_profile, trace_slice_size, picture>>
  BY DEF RenderSliceData, size
<1>4. /\ e.type = "SliceData" /\ e.size = size
      /\ e.slice_data_size = Last(announced)
      /\ Conforms(trace_profile, e)
  <2>1. "own" \in Kinds(CodecOf(trace_profile), "SliceData")
    BY DEF Kinds
  <2>2. 0 <= MaxCount(CodecOf(trace_profile), "SliceData")
    BY DEF MaxCount
  <2>3. \A c \in DOMAIN MaxActive : 0 <= MaxActive[c]
    BY DEF MaxActive
  <2> QED
    BY <1>2, <2>1, <2>2, <2>3 DEF Conforms, Element
<1> HIDE DEF e
<1>5. CodecOf(trace_profile) \in {"H264", "VC1"} =>
        trace_slice_size = Last(announced)
  BY <1>1 DEF PicturesInv, SizeKept, KeepsSliceSize
<1>6. trace_slice_size \in Nat
  BY DEF PicturesInv, SizeKept
<1>7. WithinStruct' /\ OwnStruct'
  BY <1>2, <1>3, <1>4, <1>5, <1>6, ShowOne
<1>8. SliceDataShown'
  <2>1. SUFFICES ASSUME CodecOf(trace_profile) \in {"H264", "VC1"},
                        NEW j \in 1 .. Len(shown'.prints)
                 PROVE  shown'.prints[j].arrays.data = <<e.slice_data_size>>
    <3>1. shown'.elements = <<e>>
      BY <1>3 DEF Show
    <3>2. \A i \in 1 .. Len(<<e>>) : <<e>>[i] = e
      OBVIOUS
    <3> QED
      BY <1>3, <3>1, <3>2 DEF SliceDataShown
  <2> DEFINE dump == va_TraceVABuffers(e, trace_slice_size)
  <2>2. TraceElement(trace_profile, e, trace_slice_size) = dump
    <3>1. trace_profile \in Codec.H264 \cup Codec.VC1
      <4>1. trace_profile \in Codec[CodecOf(trace_profile)]
        BY <2>1, CodecHas
      <4> QED
        BY <2>1, <4>1
    <3>2. CASE trace_profile \in Codec.H264
      BY <1>4, <3>2 DEF TraceElement, Codec, va_TraceH264Buf
    <3>3. CASE trace_profile \in Codec.VC1
      BY <1>4, <3>3 DEF TraceElement, Codec, va_TraceVC1Buf
    <3> QED
      BY <3>1, <3>2, <3>3
  <2>3. shown'.prints = dump
    <3>1. Len(<<e>>) = 1 /\ <<e>>[1] = e
      OBVIOUS
    <3> HIDE DEF dump
    <3>2. [i \in 1 .. Len(<<e>>) |->
             TraceElement(trace_profile, <<e>>[i], trace_slice_size)]
            = [i \in 1 .. 1 |-> dump]
      BY <2>2, <3>1
    <3> QED
      BY <1>3, <3>2, FlattenOne DEF Show
  <2>4. CASE BUFDATA
    <3>1. dump = <<dump[1]>> /\ dump[1].arrays.data = <<trace_slice_size>>
      BY <2>4 DEF va_TraceVABuffers, Prints
    <3>2. j = 1
      <4>1. Len(dump) = 1
        BY <3>1
      <4> QED
        BY <2>1, <2>3, <4>1
    <3> QED
      BY <1>4, <1>5, <2>1, <2>3, <3>1, <3>2
  <2>5. CASE ~BUFDATA
    <3>1. dump = << >>
      BY <2>5 DEF va_TraceVABuffers
    <3>2. Len(dump) = 0
      BY <3>1
    <3> QED
      BY <2>1, <2>3, <3>2
  <2> QED
    BY <2>4, <2>5
<1>9. SizeKept'
  BY <1>3 DEF PicturesInv, SizeKept
<1> QED
  BY <1>7, <1>8, <1>9 DEF PicturesInv

(* Any other buffer.                                                       *)
LEMMA OtherStep ==
  ASSUME PicturesInv, picture, RenderOther
  PROVE  PicturesInv'
<1> DEFINE codec == CodecOf(trace_profile)
<1>1. PICK e \in Elements(trace_profile) :
        /\ Show(<<e>>)
        /\ UNCHANGED <<trace_profile, trace_slice_size, picture, announced>>
  BY DEF RenderOther
<1>2. /\ Conforms(trace_profile, e)
      /\ codec \in {"H264", "VC1"} => e.type # "SliceData"
  <2> DEFINE active == IF codec \in DOMAIN MaxActive
                       THEN {m \in Counts : m <= MaxActive[codec]} ELSE {0}
             types == (DOMAIN Sends[codec] \ {"SliceParameter"}) \cup Common
  <2>0. PICK type \in types :
          e \in {Element(type, kind, n, l0, l0, n, 0) :
                  kind \in Kinds(codec, type),
                  n \in {m \in Counts : m <= MaxCount(codec, type)},
                  l0 \in active}
    BY DEF Elements
  <2>1. PICK kind \in Kinds(codec, type),
             n \in {m \in Counts : m <= MaxCount(codec, type)}, l0 \in active :
          e = Element(type, kind, n, l0, l0, n, 0)
    BY <2>0
  <2>2. n \in Nat /\ l0 \in Nat
    BY PicturesAssumption
  <2>3. codec \in DOMAIN MaxActive => l0 <= MaxActive[codec]
    OBVIOUS
  <2>4. codec \in {"H264", "VC1"} => type # "SliceData"
    <3>1. "SliceData" \notin DOMAIN Sends.H264 \cup DOMAIN Sends.VC1 \cup Common
      BY DEF Sends, Common
    <3> QED
      BY <2>0, <3>1
  <2> HIDE DEF active, types
  <2>5. /\ e.type = type /\ e.kind = kind /\ e.count = n
        /\ e.l0 = l0 /\ e.l1 = l0 /\ e.size = n
    BY <2>1 DEF Element
  <2> QED
    BY <2>1, <2>2, <2>3, <2>4, <2>5 DEF Conforms
<1>3. trace_slice_size \in Nat
  BY DEF PicturesInv, SizeKept
<1>4. WithinStruct' /\ OwnStruct'
  BY <1>1, <1>2, <1>3, ShowOne
<1>5. SliceDataShown'
  <2>1. shown'.elements = <<e>> /\ \A i \in 1 .. Len(<<e>>) : <<e>>[i] = e
    BY <1>1 DEF Show
  <2> QED
    BY <1>1, <1>2, <2>1 DEF SliceDataShown
<1>6. SizeKept'
  BY <1>1 DEF PicturesInv, SizeKept
<1> QED
  BY <1>4, <1>5, <1>6 DEF PicturesInv

(* Nothing is shown and nothing announced at first.                        *)
LEMMA PicturesInit == Init => PicturesInv
<1> SUFFICES ASSUME Init
             PROVE  PicturesInv
  OBVIOUS
<1>1. SizeKept
  BY DEF Init, SizeKept
<1> QED
  BY <1>1, NothingShown DEF Init, PicturesInv

(* The invariant is inductive: one case for each operation.                *)
LEMMA PicturesNext == PicturesInv /\ [Next]_vars => PicturesInv'
<1> SUFFICES ASSUME PicturesInv, [Next]_vars
             PROVE  PicturesInv'
  OBVIOUS
<1> USE DEF PicturesInv
<1>1. CASE vaCreateContext
  <2>1. ~picture /\ announced = << >> /\ shown = NoBuffer
    BY <1>1 DEF vaCreateContext, SizeKept
  <2>2. SizeKept' /\ shown' = NoBuffer
    BY <1>1, <2>1 DEF vaCreateContext, SizeKept, NoBuffer
  <2> QED
    BY <2>2, NothingShownNext
<1>2. CASE vaDestroyContext
  <2>1. announced = << >> /\ shown = NoBuffer
    BY <1>2 DEF vaDestroyContext, SizeKept
  <2>2. SizeKept' /\ shown' = NoBuffer
    BY <1>2, <2>1 DEF vaDestroyContext, SizeKept, NoBuffer
  <2> QED
    BY <2>2, NothingShownNext
<1>3. CASE va_TraceBeginPicture
  BY <1>3 DEF va_TraceBeginPicture, SizeKept, NoBuffer, WithinStruct, OwnStruct,
              SliceDataShown
<1>4. CASE va_TraceEndPicture
  BY <1>4 DEF va_TraceEndPicture, SizeKept, NoBuffer, WithinStruct, OwnStruct,
              SliceDataShown
<1>5. CASE va_TraceRenderPicture
  BY <1>5, SliceParametersStep, SliceDataStep, OtherStep DEF va_TraceRenderPicture
<1>6. CASE DriverRenderPicture
  <2>1. SizeKept' /\ shown' = NoBuffer
    BY <1>6 DEF DriverRenderPicture, SizeKept, NoBuffer
  <2> QED
    BY <2>1, NothingShownNext
<1>7. CASE UNCHANGED vars
  BY <1>7 DEF vars, SizeKept, WithinStruct, OwnStruct, SliceDataShown
<1> QED
  BY <1>1, <1>2, <1>3, <1>4, <1>5, <1>6, <1>7 DEF Next

(* What is shown, what the tracer keeps and what the application announced *)
(* stay in step, as va_TraceRenderPicture leaves trace_slice_size.         *)
THEOREM PicturesInductive == Spec => []PicturesInv
<1> QED
  BY PicturesInit, PicturesNext, PTL DEF Spec

(* No dump reads past an array, whatever the counts in the buffers.        *)
THEOREM StructsAreKept == Spec => []WithinStruct
<1>1. PicturesInv => WithinStruct
  BY DEF PicturesInv
<1> QED
  BY <1>1, PicturesInductive, PTL

(* Every buffer is taken for what it holds, for every profile.             *)
THEOREM StructsAreOwn == Spec => []OwnStruct
<1>1. PicturesInv => OwnStruct
  BY DEF PicturesInv
<1> QED
  BY <1>1, PicturesInductive, PTL

(* Slice data are shown with the size of the last slice announced.         *)
THEOREM SliceDataIsOwn == Spec => []SliceDataShown
<1>1. PicturesInv => SliceDataShown
  BY DEF PicturesInv
<1> QED
  BY <1>1, PicturesInductive, PTL
=============================================================================
