-------------------------- MODULE TraceBuffersProof --------------------------
(***************************************************************************)
(* Proofs about TraceBuffers for every number of threads, buffers, hash    *)
(* values and levels: the table implements a registry of the buffers.      *)
(***************************************************************************)
EXTENDS TraceBuffers, LeastElement

Allocated(i) == i \in Level /\ pbuf_info[i] # NULL

(* Levels are allocated, and the slots of a hash value taken, from the     *)
(* first one on; a slot holds a buffer with its hash value, and no buffer  *)
(* is in two.                                                              *)
Dense ==
  \A i, j \in Level : Allocated(i) /\ j < i =>
    /\ Allocated(j)
    /\ \A h \in Hash : pbuf_info[i][h].valid => pbuf_info[j][h].valid

Placed ==
  \A i \in Level, h \in Hash : Allocated(i) /\ pbuf_info[i][h].valid =>
    hash(pbuf_info[i][h].buf_id) = h /\ pbuf_info[i][h].buf_id \in VABufferID

Unique ==
  \A i, j \in Level, h \in Hash :
    /\ Allocated(i) /\ pbuf_info[i][h].valid
    /\ Allocated(j) /\ pbuf_info[j][h].valid
    /\ pbuf_info[i][h].buf_id = pbuf_info[j][h].buf_id
    => i = j

Table == TypeOK /\ Dense /\ Placed /\ Unique

-----------------------------------------------------------------------------
LEMMA HashTyped == \A b \in VABufferID : hash(b) \in Hash
<1> SUFFICES ASSUME NEW b \in VABufferID PROVE hash(b) \in Hash
  OBVIOUS
<1>1. b \in Nat /\ MAX_TRACE_BUF_INFO_HASH_SIZE \in Nat \ {0}
  BY BufferAssumption
<1>2. QED
  BY <1>1 DEF hash, Hash

(* Every allocated level is visited by a search.                           *)
LEMMA VisitedAllocated == Dense => \A i : i \in Visited <=> Allocated(i)
  <1> SUFFICES ASSUME Dense, NEW i PROVE i \in Visited <=> Allocated(i)
    OBVIOUS
  <1>1. ASSUME i \in Level
        PROVE  i \in 0 .. i /\ 0 .. i \subseteq Level /\ \A j \in 0 .. i : j < i \/ j = i
    BY <1>1, BufferAssumption DEF Level
  <1>2. QED
    BY <1>1 DEF Visited, Allocated, Dense

(* A search gives the context of the slot the buffer is in; without a slot *)
(* it gives none.                                                          *)
Hits ==
  \A b \in VABufferID : \A i \in Level :
    Allocated(i) /\ IsOf(Entry(i, b), b)
      => get_ctx_by_buf(b) = Entry(i, b).ctx_id

Misses ==
  \A b \in VABufferID :
    (\A i \in Level : Allocated(i) => ~IsOf(Entry(i, b), b))
      => get_ctx_by_buf(b) = VA_INVALID_ID

LEMMA Found == Table => Hits
<1> SUFFICES ASSUME Table, NEW b \in VABufferID, NEW i \in Level, Allocated(i),
                    IsOf(Entry(i, b), b)
             PROVE  get_ctx_by_buf(b) = Entry(i, b).ctx_id
  BY DEF Hits
<1> DEFINE found == {j \in Visited : IsOf(Entry(j, b), b)}
<1>1. i \in found
  BY VisitedAllocated DEF Table
<1>2. found \subseteq Nat
  BY BufferAssumption DEF Visited, Level
<1>3. Min(found) \in found
  BY <1>1, <1>2, MinIsLeast
<1>4. Min(found) = i
  BY <1>3, HashTyped, VisitedAllocated DEF Table, Unique, IsOf, Entry, Allocated
<1>5. QED
  BY <1>1, <1>4 DEF get_ctx_by_buf

LEMMA NotFound == Table => Misses
  BY VisitedAllocated DEF Table, Misses, get_ctx_by_buf, Allocated

-----------------------------------------------------------------------------
(* What add_trace_buf_info leaves the table as, when it changes it: buffer *)
(* b in the slot of its hash value at level i, which was free or had b.    *)
LevelOf(i) == IF pbuf_info[i] = NULL THEN NewLevel ELSE pbuf_info[i]

Added(c, b, i) ==
  /\ i \in Level
  /\ Usable(LevelOf(i)[hash(b)], b)
  /\ \A j \in Level : j < i => /\ Allocated(j)
                              /\ ~Usable(pbuf_info[j][hash(b)], b)
  /\ pbuf_info' = [pbuf_info EXCEPT ![i] =
                     [LevelOf(i) EXCEPT ![hash(b)] = Info(c, b)]]

LEMMA AddIs ==
  ASSUME Table, NEW b \in VABufferID, NEW c \in Traced, NEW ok \in BOOLEAN,
         pbuf_info' = add_trace_buf_info(c, b, ok)
  PROVE  \/ /\ UNCHANGED pbuf_info
            /\ \A j \in Level : Allocated(j) => ~IsOf(Entry(j, b), b)
         \/ \E i \in Level : Added(c, b, i)
<1> DEFINE room == {i \in Level : Usable(LevelOf(i)[hash(b)], b)}
           n == Min(room)
<1>1. CASE room = {} \/ (~ok /\ pbuf_info[n] = NULL)
  <2>1. UNCHANGED pbuf_info
    BY <1>1 DEF add_trace_buf_info, LevelOf
  <2>2. ASSUME NEW j \in Level, Allocated(j), IsOf(Entry(j, b), b)
        PROVE  FALSE
    <3>1. j \in room
      BY <2>2 DEF Allocated, IsOf, Entry, Usable, LevelOf
    <3>2. CASE room = {}
      BY <3>1, <3>2
    <3>3. CASE pbuf_info[n] = NULL
      <4>1. room \subseteq Nat
        BY BufferAssumption DEF Level
      <4>2. n \in room /\ n <= j
        BY <3>1, <4>1, MinIsLeast
      <4>3. n < j
        BY <2>2, <3>1, <3>3, <4>1, <4>2 DEF Allocated
      <4>4. Allocated(n)
        BY <2>2, <4>2, <4>3 DEF Table, Dense
      <4>5. QED
        BY <3>3, <4>4 DEF Allocated
    <3>4. QED
      BY <1>1, <3>2, <3>3
  <2>3. QED
    BY <2>1, <2>2
<1>2. CASE room # {} /\ ~(~ok /\ pbuf_info[n] = NULL)
  <2>1. room \subseteq Nat
    BY BufferAssumption DEF Level
  <2>2. n \in room /\ \A j \in room : ~(j < n)
    BY <1>2, <2>1, MinIsLeast
  <2>3. pbuf_info' = [pbuf_info EXCEPT ![n] =
                       [LevelOf(n) EXCEPT ![hash(b)] = Info(c, b)]]
    BY <1>2 DEF add_trace_buf_info, LevelOf
  <2>4. ASSUME NEW j \in Level, j < n
        PROVE  Allocated(j) /\ ~Usable(pbuf_info[j][hash(b)], b)
    <3>1. ~Usable(LevelOf(j)[hash(b)], b)
      BY <2>2, <2>4
    <3>2. pbuf_info[j] # NULL
      BY <3>1, HashTyped DEF LevelOf, NewLevel, NoInfo, Usable
    <3>3. QED
      BY <3>1, <3>2 DEF LevelOf, Allocated
  <2>5. QED
    BY <2>2, <2>3, <2>4 DEF Added
<1>3. QED
  BY <1>1, <1>2

(* The levels after it: all but level i are as before.                     *)
LEMMA AddedLevels ==
  ASSUME TypeOK, NEW b \in VABufferID, NEW c \in Traced, NEW i \in Level,
         Added(c, b, i)
  PROVE  /\ pbuf_info' \in [Level -> {NULL} \cup [Hash -> BufInfo]]
         /\ \A j \in Level : j # i => pbuf_info'[j] = pbuf_info[j]
         /\ pbuf_info'[i] # NULL
         /\ pbuf_info'[i][hash(b)] = Info(c, b)
         /\ \A h \in Hash : h # hash(b) =>
              /\ pbuf_info[i] # NULL => pbuf_info'[i][h] = pbuf_info[i][h]
              /\ pbuf_info[i] = NULL => ~pbuf_info'[i][h].valid
<1>1. hash(b) \in Hash /\ Info(c, b) \in BufInfo
  BY HashTyped, BufferAssumption DEF Info, BufInfo
<1>2. LevelOf(i) \in [Hash -> BufInfo]
  BY DEF TypeOK, LevelOf, NewLevel, NoInfo, BufInfo
<1> DEFINE new == [LevelOf(i) EXCEPT ![hash(b)] = Info(c, b)]
<1>3. new \in [Hash -> BufInfo] /\ new[hash(b)] = Info(c, b)
  BY <1>1, <1>2
<1>4. \A h \in Hash : h # hash(b) => new[h] = LevelOf(i)[h]
  BY <1>1, <1>2
<1> HIDE DEF new
<1>5. pbuf_info \in [Level -> {NULL} \cup [Hash -> BufInfo]]
  BY DEF TypeOK
<1>6. pbuf_info' = [pbuf_info EXCEPT ![i] = new]
  BY DEF Added, new
<1>7. pbuf_info'[i] = new /\ new # NULL
  BY <1>3, <1>5, <1>6, NullAssumption
<1>8. QED
  BY <1>3, <1>4, <1>5, <1>6, <1>7 DEF LevelOf, NewLevel, NoInfo

(* An occupied slot of the new table was occupied alike before, or it is   *)
(* the one that was filled.                                                *)
LEMMA AddedSlots ==
  ASSUME TypeOK, NEW b \in VABufferID, NEW c \in Traced, NEW i \in Level,
         Added(c, b, i)
  PROVE  \A j \in Level, h \in Hash : Allocated(j)' /\ pbuf_info'[j][h].valid =>
           \/ j = i /\ h = hash(b) /\ pbuf_info'[j][h] = Info(c, b)
           \/ /\ Allocated(j) /\ pbuf_info'[j][h] = pbuf_info[j][h]
              /\ j # i \/ h # hash(b)
<1> SUFFICES ASSUME NEW j \in Level, NEW h \in Hash, Allocated(j)',
                    pbuf_info'[j][h].valid
             PROVE  \/ j = i /\ h = hash(b) /\ pbuf_info'[j][h] = Info(c, b)
                    \/ /\ Allocated(j) /\ pbuf_info'[j][h] = pbuf_info[j][h]
                       /\ j # i \/ h # hash(b)
  OBVIOUS
<1>1. CASE j # i
  BY <1>1, AddedLevels DEF Allocated
<1>2. CASE j = i
  BY <1>2, AddedLevels DEF Allocated
<1>3. QED
  BY <1>1, <1>2

LEMMA AddKeepsTable ==
  ASSUME Table, TypeOK', NEW b \in VABufferID, NEW c \in Traced, NEW i \in Level,
         Added(c, b, i)
  PROVE  Table'
<1>1. TypeOK /\ hash(b) \in Hash
  BY HashTyped DEF Table
<1>2. \A j \in Level : j < i => Allocated(j) /\ pbuf_info[j][hash(b)].valid
                               /\ pbuf_info[j][hash(b)].buf_id # b
  BY DEF Added, Usable
<1>3. Info(c, b).valid /\ Info(c, b).buf_id = b /\ Info(c, b).ctx_id = c
  BY DEF Info
<1>4. ASSUME NEW j \in Level PROVE j \in Nat
  BY <1>4, BufferAssumption DEF Level
<1>5. \A j \in Level : Allocated(j) => Allocated(j)'
  BY <1>1, AddedLevels DEF Allocated
<1>6. ASSUME NEW j \in Level, NEW h \in Hash, Allocated(j), pbuf_info[j][h].valid
      PROVE  pbuf_info'[j][h].valid
  <2>1. CASE j # i
    BY <1>1, <1>6, <2>1, AddedLevels
  <2>2. CASE j = i
    BY <1>1, <1>3, <1>6, <2>2, AddedLevels DEF Allocated
  <2>3. QED
    BY <2>1, <2>2
<1>7. Dense'
  <2> SUFFICES ASSUME NEW j \in Level, NEW k \in Level, Allocated(j)', k < j
               PROVE  /\ Allocated(k)'
                      /\ \A h \in Hash : pbuf_info'[j][h].valid
                                          => pbuf_info'[k][h].valid
    BY DEF Dense
  <2>1. Allocated(k)
    <3>1. CASE j = i
      BY <1>2, <3>1
    <3>2. CASE j # i
      BY <1>1, <3>2, AddedLevels DEF Allocated, Table, Dense
    <3>3. QED
      BY <3>1, <3>2
  <2>2. ASSUME NEW h \in Hash, pbuf_info'[j][h].valid
        PROVE  pbuf_info[k][h].valid
    <3>1. CASE j = i /\ h = hash(b)
      BY <1>2, <3>1
    <3>2. CASE Allocated(j) /\ pbuf_info'[j][h] = pbuf_info[j][h]
      BY <2>2, <3>2 DEF Table, Dense
    <3>3. QED
      BY <1>1, <2>2, <3>1, <3>2, AddedSlots
  <2>3. QED
    BY <1>5, <1>6, <2>1, <2>2
<1>8. Placed'
  BY <1>1, <1>3, AddedSlots DEF Placed, Table
<1>9. ASSUME NEW j \in Level, Allocated(j), pbuf_info[j][hash(b)].valid,
             pbuf_info[j][hash(b)].buf_id = b, j # i
      PROVE  FALSE
  <2>1. j \in Nat /\ i \in Nat
    BY <1>4
  <2>2. CASE j < i
    BY <1>2, <1>9, <2>2
  <2>3. CASE i < j
    <3>1. Allocated(i) /\ pbuf_info[i][hash(b)].valid
      BY <1>1, <1>9, <2>3 DEF Table, Dense
    <3>2. pbuf_info[i][hash(b)].buf_id = b
      BY <3>1 DEF Added, Usable, LevelOf, Allocated
    <3>3. QED
      BY <1>1, <1>9, <3>1, <3>2 DEF Table, Unique
  <2>4. QED
    BY <1>9, <2>1, <2>2, <2>3
<1>10. Unique'
  <2> SUFFICES ASSUME NEW j \in Level, NEW k \in Level, NEW h \in Hash,
                      Allocated(j)', pbuf_info'[j][h].valid,
                      Allocated(k)', pbuf_info'[k][h].valid,
                      pbuf_info'[j][h].buf_id = pbuf_info'[k][h].buf_id
               PROVE  j = k
    BY DEF Unique
  <2>1. \/ j = i /\ h = hash(b) /\ pbuf_info'[j][h] = Info(c, b)
        \/ Allocated(j) /\ pbuf_info'[j][h] = pbuf_info[j][h]
    BY <1>1, AddedSlots
  <2>2. \/ k = i /\ h = hash(b) /\ pbuf_info'[k][h] = Info(c, b)
        \/ Allocated(k) /\ pbuf_info'[k][h] = pbuf_info[k][h]
    BY <1>1, AddedSlots
  <2>3. QED
    BY <1>3, <1>9, <2>1, <2>2 DEF Table, Unique
<1>11. QED
  BY <1>7, <1>8, <1>10 DEF Table

(* In terms of the registry: b has context c, and the others are as before.*)
LEMMA AddRecords ==
  ASSUME Table, Table', NEW b \in VABufferID, NEW c \in Traced, NEW i \in Level,
         Added(c, b, i)
  PROVE  /\ get_ctx_by_buf(b)' = c
         /\ \A a \in VABufferID \ {b} : get_ctx_by_buf(a)' = get_ctx_by_buf(a)
<1>1. TypeOK /\ hash(b) \in Hash
  BY HashTyped DEF Table
<1>2. Hits /\ Misses
  BY Found, NotFound
<1>3. Hits' /\ Misses'
  BY Found, NotFound, PTL
<1>4. get_ctx_by_buf(b)' = c
  <2>1. Allocated(i)' /\ Entry(i, b)' = Info(c, b)
    BY <1>1, AddedLevels DEF Allocated, Entry
  <2>2. QED
    BY <1>1, <1>3, <2>1 DEF Hits, IsOf, Info
<1>5. ASSUME NEW a \in VABufferID, a # b
      PROVE  get_ctx_by_buf(a)' = get_ctx_by_buf(a)
  <2> DEFINE In(j) == Allocated(j) /\ IsOf(Entry(j, a), a)
  <2>1. ASSUME NEW j \in Level, Allocated(j), IsOf(Entry(j, a), a)
        PROVE  Allocated(j)' /\ Entry(j, a)' = Entry(j, a)
    <3>1. pbuf_info'[j][hash(a)] = pbuf_info[j][hash(a)] /\ pbuf_info'[j] # NULL
      <4>1. CASE j # i
        BY <1>1, <2>1, <4>1, AddedLevels DEF Allocated
      <4>2. CASE j = i
        <5>1. hash(a) # hash(b)
          BY <1>5, <2>1, <4>2 DEF Added, Usable, LevelOf, Allocated, IsOf, Entry
        <5>2. QED
          BY <1>1, <2>1, <4>2, <5>1, AddedLevels, HashTyped DEF Allocated
      <4>3. QED
        BY <4>1, <4>2
    <3>2. QED
      BY <3>1 DEF Allocated, Entry
  <2>2. ASSUME NEW j \in Level, Allocated(j)', IsOf(Entry(j, a), a)'
        PROVE  Allocated(j) /\ Entry(j, a)' = Entry(j, a)
    <3>1. pbuf_info'[j][hash(a)].valid /\ pbuf_info'[j][hash(a)].buf_id = a
      BY <2>2 DEF IsOf, Entry
    <3>2. ~(pbuf_info'[j][hash(a)] = Info(c, b))
      BY <1>5, <3>1 DEF Info
    <3>3. QED
      BY <1>1, <2>2, <3>1, <3>2, AddedSlots, HashTyped DEF Entry
  <2>3. CASE \E j \in Level : Allocated(j) /\ IsOf(Entry(j, a), a)
    <3>1. PICK j \in Level : Allocated(j) /\ IsOf(Entry(j, a), a)
      BY <2>3
    <3>2. Allocated(j)' /\ Entry(j, a)' = Entry(j, a)
      BY <2>1, <3>1
    <3>3. get_ctx_by_buf(a) = Entry(j, a).ctx_id
      BY <1>2, <3>1 DEF Hits
    <3>4. IsOf(Entry(j, a), a)'
      BY <3>1, <3>2 DEF IsOf
    <3>5. get_ctx_by_buf(a)' = Entry(j, a)'.ctx_id
      BY <1>3, <3>2, <3>4 DEF Hits
    <3>6. QED
      BY <3>2, <3>3, <3>5
  <2>4. CASE \A j \in Level : Allocated(j) => ~IsOf(Entry(j, a), a)
    <3>1. ASSUME NEW j \in Level, Allocated(j)', IsOf(Entry(j, a), a)'
          PROVE  FALSE
      <4>1. Allocated(j) /\ Entry(j, a)' = Entry(j, a)
        BY <2>2, <3>1
      <4>2. IsOf(Entry(j, a), a)
        BY <3>1, <4>1 DEF IsOf
      <4>3. QED
        BY <2>4, <4>1, <4>2
    <3>2. get_ctx_by_buf(a)' = VA_INVALID_ID
      BY <1>3, <3>1 DEF Misses
    <3>3. get_ctx_by_buf(a) = VA_INVALID_ID
      BY <1>2, <2>4 DEF Misses
    <3>4. QED
      BY <3>2, <3>3
  <2>5. QED
    BY <2>3, <2>4
<1>6. QED
  BY <1>4, <1>5
-----------------------------------------------------------------------------
(* The inductive invariant: a thread in a call has a buffer to itself, and *)
(* what the table says of a buffer of a traced context that is not just being   *)
(* created is right or nothing.                                            *)
Working ==
  /\ \A t \in Thread : pc[t] # "idle" => /\ arg[t] \in VABufferID
                                        /\ buffer[arg[t]].state = "busy"
  /\ \A s, t \in Thread : pc[s] # "idle" /\ pc[t] # "idle" /\ arg[s] = arg[t] => s = t

Adding(b) == \E t \in Thread : pc[t] = "add" /\ arg[t] = b

Known ==
  \A b \in VABufferID : buffer[b].context \in Traced /\ ~Adding(b) =>
    get_ctx_by_buf(b) \in {buffer[b].context, VA_INVALID_ID}

IInv == Table /\ Working /\ Known

(* DPY2TRACECTX gives only traced contexts, and none when the macro is     *)
(* given no context: an entry is never deleted.                            *)
LEMMA TracedOnly ==
  /\ \A c, b : DPY2TRACECTX(c, b) # VA_INVALID_ID => c \in Traced
  /\ \A b : DPY2TRACECTX(VA_INVALID_ID, b) = VA_INVALID_ID
  BY BufferAssumption DEF DPY2TRACECTX

(* A step changes the table only when va_TraceCreateBuffer records a       *)
(* buffer.                                                                 *)
LEMMA CreateIs ==
  ASSUME IInv, NEW t \in Thread, va_TraceCreateBuffer(t)
  PROVE  /\ arg[t] \in VABufferID
         /\ \/ UNCHANGED pbuf_info /\ buffer[arg[t]].context \notin Traced
            \/ UNCHANGED pbuf_info /\ get_ctx_by_buf(arg[t]) = VA_INVALID_ID
            \/ /\ buffer[arg[t]].context \in Traced
               /\ \E i \in Level : Added(buffer[arg[t]].context, arg[t], i)
<1> DEFINE b == arg[t]
           c == buffer[b].context
<1>1. b \in VABufferID
  BY DEF IInv, Working, va_TraceCreateBuffer, Step
<1>2. CASE DPY2TRACECTX(c, VA_INVALID_ID) = VA_INVALID_ID
  <2>1. c \notin Traced
    BY <1>2, BufferAssumption DEF DPY2TRACECTX
  <2>2. UNCHANGED pbuf_info
    BY <1>2 DEF va_TraceCreateBuffer
  <2>3. QED
    BY <1>1, <2>1, <2>2
<1>3. CASE DPY2TRACECTX(c, VA_INVALID_ID) # VA_INVALID_ID
  <2>1. c \in Traced
    BY <1>3, TracedOnly
  <2>2. PICK ok \in BOOLEAN : pbuf_info' = add_trace_buf_info(c, b, ok)
    BY <1>3, BufferAssumption DEF va_TraceCreateBuffer
  <2>3. \/ /\ UNCHANGED pbuf_info
           /\ \A j \in Level : Allocated(j) => ~IsOf(Entry(j, b), b)
        \/ \E i \in Level : Added(c, b, i)
    BY <1>1, <2>1, <2>2, AddIs DEF IInv
  <2>4. QED
    BY <1>1, <2>1, <2>3, NotFound DEF IInv, Misses
<1>4. QED
  BY <1>2, <1>3

LEMMA TableStep ==
  ASSUME IInv, [Next]_vars
  PROVE  \/ UNCHANGED pbuf_info
         \/ \E b \in VABufferID, c \in Traced, i \in Level : Added(c, b, i)
<1>1. CASE UNCHANGED vars
  BY <1>1 DEF vars
<1>2. ASSUME NEW t \in Thread, va_TraceCreateBuffer(t)
      PROVE  \/ UNCHANGED pbuf_info
             \/ \E b \in VABufferID, c \in Traced, i \in Level : Added(c, b, i)
  BY <1>2, CreateIs
<1>3. ASSUME NEW t \in Thread, va_TraceDestroyBuffer(t)
      PROVE  UNCHANGED pbuf_info
  BY <1>3, TracedOnly DEF va_TraceDestroyBuffer
<1>4. ASSUME NEW t \in Thread,
             \/ DriverCreateBuffer(t) \/ DriverMapBuffer(t) \/ va_TraceMapBuffer(t)
             \/ vaUnmapBuffer(t) \/ DriverDestroyBuffer(t)
      PROVE  UNCHANGED pbuf_info
  BY <1>4 DEF DriverCreateBuffer, DriverMapBuffer, va_TraceMapBuffer, vaUnmapBuffer,
              DriverDestroyBuffer
<1>5. QED
  BY <1>1, <1>2, <1>3, <1>4 DEF Next

LEMMA TypePreserved ==
  ASSUME IInv, [Next]_vars
  PROVE  TypeOK' /\ Working'
<1>1. TypeOK /\ Working
  BY DEF IInv, Table
<1>2. pbuf_info' \in [Level -> {NULL} \cup [Hash -> BufInfo]]
  BY <1>1, TableStep, AddedLevels DEF TypeOK
<1>3. NoBuffer \in Buffer
  BY DEF NoBuffer, Buffer
<1>4. \A b \in VABufferID, c \in VAContextID, coded \in BOOLEAN :
        [state |-> "busy", context |-> c, coded |-> coded] \in Buffer
  BY DEF Buffer
<1>5. \A b \in VABufferID, s \in {"free", "busy", "idle", "mapped"} :
        [buffer EXCEPT ![b].state = s] \in [VABufferID -> Buffer]
  BY <1>1 DEF TypeOK, Buffer
<1> DEFINE Others == /\ buffer' \in [VABufferID -> Buffer]
                     /\ pc' \in [Thread -> {"idle", "add", "map", "destroy"}]
                     /\ arg' \in [Thread -> VABufferID \cup {NULL}]
                     /\ dumped' \subseteq VABufferID
                     /\ Working'
<1>6. ASSUME UNCHANGED vars PROVE Others
  BY <1>1, <1>6 DEF vars, TypeOK, Working
(* A call begins on a buffer that no thread has.                           *)
<1>7. ASSUME NEW t \in Thread, NEW b \in VABufferID, buffer[b].state # "busy",
             NEW to \in {"add", "map", "destroy"}, Call(t, b, to),
             buffer' \in [VABufferID -> Buffer], buffer'[b].state = "busy",
             \A a \in VABufferID : a # b => buffer'[a] = buffer[a], UNCHANGED dumped
      PROVE  Others
  <2>1. pc[t] = "idle" /\ \A s \in Thread : pc[s] # "idle" => s # t /\ arg[s] # b
    BY <1>1, <1>7 DEF Call, Step, TypeOK, Working
  <2>2. /\ \A s \in Thread : s # t => pc'[s] = pc[s] /\ arg'[s] = arg[s]
        /\ pc'[t] = to /\ arg'[t] = b
    BY <1>1, <1>7 DEF Call, Step, TypeOK
  <2>3. Working'
    BY <1>1, <1>7, <2>1, <2>2 DEF Working
  <2>4. QED
    BY <1>1, <1>7, <2>3 DEF Call, Step, TypeOK
<1>8. ASSUME NEW t \in Thread, DriverCreateBuffer(t) PROVE Others
  <2>1. PICK b \in VABufferID, c \in VAContextID, coded \in BOOLEAN :
          /\ buffer[b].state = "free"
          /\ buffer' = [buffer EXCEPT ![b] = [state |-> "busy", context |-> c,
                                              coded |-> coded]]
          /\ Call(t, b, "add")
          /\ UNCHANGED dumped
    BY <1>8 DEF DriverCreateBuffer
  <2>2. /\ buffer' \in [VABufferID -> Buffer] /\ buffer'[b].state = "busy"
        /\ \A a \in VABufferID : a # b => buffer'[a] = buffer[a]
    BY <1>1, <1>4, <2>1 DEF TypeOK
  <2>3. QED
    BY <1>7, <2>1, <2>2
<1>9. ASSUME NEW t \in Thread, NEW b \in VABufferID, buffer[b].state = "idle",
             NEW to \in {"add", "map", "destroy"}, Call(t, b, to),
             buffer' = [buffer EXCEPT ![b].state = "busy"], UNCHANGED dumped
      PROVE  Others
  <2>1. buffer' \in [VABufferID -> Buffer]
    BY <1>5, <1>9
  <2>2. /\ buffer'[b].state = "busy"
        /\ \A a \in VABufferID : a # b => buffer'[a] = buffer[a]
    BY <1>1, <1>9 DEF TypeOK, Buffer
  <2>3. QED
    BY <1>7, <1>9, <2>1, <2>2
<1>10. ASSUME NEW t \in Thread, DriverMapBuffer(t) \/ va_TraceDestroyBuffer(t)
       PROVE  Others
  BY <1>9, <1>10 DEF DriverMapBuffer, va_TraceDestroyBuffer
(* A call ends, and no other thread has the buffer.                        *)
<1>11. ASSUME NEW t \in Thread, pc[t] # "idle", pc' = [pc EXCEPT ![t] = "idle"],
              arg' = [arg EXCEPT ![t] = NULL], buffer' \in [VABufferID -> Buffer],
              \A a \in VABufferID : a # arg[t] => buffer'[a] = buffer[a],
              dumped' \subseteq VABufferID
       PROVE  Others
  <2>1. \A s \in Thread : s # t => pc'[s] = pc[s] /\ arg'[s] = arg[s]
    BY <1>1, <1>11 DEF TypeOK
  <2>2. pc'[t] = "idle"
    BY <1>1, <1>11 DEF TypeOK
  <2>3. \A s \in Thread : s # t /\ pc[s] # "idle" => arg[s] # arg[t]
    BY <1>1, <1>11 DEF Working
  <2>4. Working'
    BY <1>1, <1>11, <2>1, <2>2, <2>3 DEF Working
  <2>5. QED
    BY <1>1, <1>11, <2>4 DEF TypeOK
<1>12. ASSUME NEW t \in Thread,
              va_TraceCreateBuffer(t) \/ va_TraceMapBuffer(t) \/ DriverDestroyBuffer(t)
       PROVE  Others
  <2>1. /\ pc[t] # "idle" /\ pc' = [pc EXCEPT ![t] = "idle"]
        /\ arg' = [arg EXCEPT ![t] = NULL]
    BY <1>12 DEF va_TraceCreateBuffer, va_TraceMapBuffer, DriverDestroyBuffer, Done, Step
  <2>2. arg[t] \in VABufferID
    BY <1>1, <2>1 DEF Working
  <2>3. dumped' \subseteq VABufferID
    BY <1>1, <1>12, <2>2
       DEF va_TraceCreateBuffer, va_TraceMapBuffer, DriverDestroyBuffer, TypeOK
  <2>4. \/ \E s \in {"free", "busy", "idle", "mapped"} :
             buffer' = [buffer EXCEPT ![arg[t]].state = s]
        \/ buffer' = [buffer EXCEPT ![arg[t]] = NoBuffer]
    BY <1>12 DEF va_TraceCreateBuffer, va_TraceMapBuffer, DriverDestroyBuffer, Done
  <2>5. buffer' \in [VABufferID -> Buffer]
    <3>1. [buffer EXCEPT ![arg[t]] = NoBuffer] \in [VABufferID -> Buffer]
      BY <1>1, <1>3, <2>2 DEF TypeOK
    <3>2. ASSUME NEW s \in {"free", "busy", "idle", "mapped"}
          PROVE  [buffer EXCEPT ![arg[t]].state = s] \in [VABufferID -> Buffer]
      BY <1>5, <2>2
    <3>3. QED
      BY <2>4, <3>1, <3>2
  <2>6. \A a \in VABufferID : a # arg[t] => buffer'[a] = buffer[a]
    BY <1>1, <2>4 DEF TypeOK
  <2>7. QED
    BY <1>11, <2>1, <2>3, <2>5, <2>6
<1>13. ASSUME NEW t \in Thread, vaUnmapBuffer(t) PROVE Others
  <2>1. PICK b \in VABufferID : /\ buffer[b].state = "mapped"
                                /\ buffer' = [buffer EXCEPT ![b].state = "idle"]
                                /\ UNCHANGED <<pc, arg, dumped>>
    BY <1>13 DEF vaUnmapBuffer
  <2>2. /\ buffer' \in [VABufferID -> Buffer]
        /\ \A a \in VABufferID : a # b => buffer'[a] = buffer[a]
    BY <1>1, <1>5, <2>1 DEF TypeOK
  <2>3. Working'
    BY <1>1, <2>1, <2>2 DEF Working
  <2>4. QED
    BY <1>1, <2>1, <2>2, <2>3 DEF TypeOK
<1>14. ASSUME Next PROVE Others
  <2>1. PICK t \in Thread :
          \/ DriverCreateBuffer(t) \/ vaUnmapBuffer(t)
          \/ DriverMapBuffer(t) \/ va_TraceDestroyBuffer(t)
          \/ va_TraceCreateBuffer(t) \/ va_TraceMapBuffer(t) \/ DriverDestroyBuffer(t)
    BY <1>14 DEF Next
  <2>2. CASE DriverCreateBuffer(t)
    BY <1>8, <2>2
  <2>3. CASE vaUnmapBuffer(t)
    BY <1>13, <2>3
  <2>4. CASE DriverMapBuffer(t) \/ va_TraceDestroyBuffer(t)
    BY <1>10, <2>4
  <2>5. CASE va_TraceCreateBuffer(t) \/ va_TraceMapBuffer(t) \/ DriverDestroyBuffer(t)
    BY <1>12, <2>5
  <2>6. QED
    BY <2>1, <2>2, <2>3, <2>4, <2>5
<1>15. QED
  BY <1>2, <1>6, <1>14 DEF TypeOK, Others

LEMMA TablePreserved ==
  ASSUME IInv, [Next]_vars
  PROVE  Table'
<1>1. Table /\ TypeOK'
  BY TypePreserved DEF IInv
<1>2. CASE UNCHANGED pbuf_info
  BY <1>1, <1>2 DEF Table, Dense, Placed, Unique, Allocated
<1>3. ASSUME NEW b \in VABufferID, NEW c \in Traced, NEW i \in Level, Added(c, b, i)
      PROVE  Table'
  BY <1>1, <1>3, AddKeepsTable
<1>4. QED
  BY <1>2, <1>3, TableStep

LEMMA SameTable ==
  ASSUME UNCHANGED pbuf_info, NEW b
  PROVE  get_ctx_by_buf(b)' = get_ctx_by_buf(b)
  BY DEF get_ctx_by_buf, Visited, IsOf, Entry

LEMMA KnownPreserved ==
  ASSUME IInv, [Next]_vars
  PROVE  Known'
<1>1. /\ TypeOK /\ Working /\ Known /\ Table /\ Table'
      /\ Traced \subseteq VAContextID /\ VA_INVALID_ID \notin Traced
  BY TablePreserved, BufferAssumption DEF IInv, Table
<1>2. CASE UNCHANGED vars
  BY <1>1, <1>2, SameTable DEF vars, Known, Adding
<1>3. ASSUME NEW t \in Thread, va_TraceCreateBuffer(t) PROVE Known'
  <2> SUFFICES ASSUME NEW b \in VABufferID, buffer'[b].context \in Traced, ~Adding(b)'
               PROVE  get_ctx_by_buf(b)' \in {buffer'[b].context, VA_INVALID_ID}
    BY DEF Known
  <2>1. arg[t] \in VABufferID
    BY <1>3, CreateIs
  <2>2. buffer'[b].context = buffer[b].context
    BY <1>1, <1>3, <2>1 DEF va_TraceCreateBuffer, Done, TypeOK, Buffer
  <2>3. CASE b = arg[t]
    BY <1>1, <1>3, <2>2, <2>3, CreateIs, AddRecords, SameTable
  <2>4. CASE b # arg[t]
    <3>1. ~Adding(b)
      BY <1>1, <1>3, <2>4 DEF Adding, va_TraceCreateBuffer, Done, Step, TypeOK
    <3>2. get_ctx_by_buf(b)' = get_ctx_by_buf(b)
      BY <1>1, <1>3, <2>1, <2>4, CreateIs, AddRecords, SameTable
    <3>3. QED
      BY <1>1, <2>2, <3>1, <3>2 DEF Known
  <2>5. QED
    BY <2>3, <2>4
<1>4. ASSUME UNCHANGED pbuf_info,
             \A b \in VABufferID :
               buffer'[b].context \in Traced /\ ~Adding(b)'
                 => buffer'[b].context = buffer[b].context /\ ~Adding(b)
      PROVE  Known'
  BY <1>1, <1>4, SameTable DEF Known
<1>5. ASSUME NEW t \in Thread, DriverCreateBuffer(t) PROVE Known'
  BY <1>1, <1>4, <1>5 DEF DriverCreateBuffer, Call, Step, Adding, TypeOK, Buffer
<1>6. ASSUME NEW t \in Thread, DriverMapBuffer(t) PROVE Known'
  BY <1>1, <1>4, <1>6 DEF DriverMapBuffer, Call, Step, Adding, TypeOK, Buffer
<1>7. ASSUME NEW t \in Thread, va_TraceMapBuffer(t) PROVE Known'
  <2>1. arg[t] \in VABufferID
    BY <1>1, <1>7 DEF Working, va_TraceMapBuffer, Step
  <2>2. QED
    BY <1>1, <1>4, <1>7, <2>1 DEF va_TraceMapBuffer, Done, Step, Adding, TypeOK, Buffer
<1>8. ASSUME NEW t \in Thread, vaUnmapBuffer(t) PROVE Known'
  BY <1>1, <1>4, <1>8 DEF vaUnmapBuffer, Adding, TypeOK, Buffer
<1>9. ASSUME NEW t \in Thread, va_TraceDestroyBuffer(t) PROVE Known'
  BY <1>1, <1>4, <1>9, TracedOnly
     DEF va_TraceDestroyBuffer, Call, Step, Adding, TypeOK, Buffer
<1>10. ASSUME NEW t \in Thread, DriverDestroyBuffer(t) PROVE Known'
  <2>1. arg[t] \in VABufferID
    BY <1>1, <1>10 DEF Working, DriverDestroyBuffer, Step
  <2>2. QED
    BY <1>1, <1>4, <1>10, <2>1 DEF DriverDestroyBuffer, NoBuffer, Step, Adding, TypeOK, Buffer
<1>11. QED
  BY <1>2, <1>3, <1>5, <1>6, <1>7, <1>8, <1>9, <1>10 DEF Next

LEMMA InitEstablishes == Init => IInv
<1> SUFFICES ASSUME Init PROVE IInv
  OBVIOUS
<1>1. TypeOK
  BY DEF Init, TypeOK, NoBuffer, Buffer
<1>2. Dense /\ Placed /\ Unique /\ Working
  BY DEF Init, Dense, Placed, Unique, Allocated, Working
<1>3. Known
  BY BufferAssumption DEF Init, Known, NoBuffer
<1>4. QED
  BY <1>1, <1>2, <1>3 DEF IInv, Table

LEMMA Inductive == Spec => []IInv
<1>1. IInv /\ [Next]_vars => IInv'
  BY TypePreserved, TablePreserved, KnownPreserved DEF IInv
<1>2. QED
  BY InitEstablishes, <1>1, PTL DEF Spec

-----------------------------------------------------------------------------
(* Every variable keeps its type, for any number of threads and buffers    *)
(* and any size of the hash table.                                         *)
THEOREM Typed == Spec => []TypeOK
<1>1. IInv => TypeOK
  BY DEF IInv, Table
<1>2. QED
  BY Inductive, <1>1, PTL

(* The search of get_ctx_by_buf, which stops at the first hit and at the   *)
(* first level missing, misses no entry of the table.                      *)
THEOREM SearchIsComplete == Spec => []OneEntry
<1>1. IInv => OneEntry
  <2> SUFFICES ASSUME IInv PROVE OneEntry
    OBVIOUS
  <2>1. Table
    BY DEF IInv
  <2>2. \A i \in Level : pbuf_info[i] # NULL => i \in Visited
    BY <2>1, VisitedAllocated DEF Table, Allocated
  <2>3. ASSUME NEW i \in Visited, NEW h \in Hash, pbuf_info[i][h].valid
        PROVE  /\ hash(pbuf_info[i][h].buf_id) = h
               /\ \A j \in Visited :
                    IsOf(pbuf_info[j][h], pbuf_info[i][h].buf_id) => i = j
    BY <2>1, <2>3, VisitedAllocated DEF Table, Placed, Unique, Allocated, IsOf
  <2>4. QED
    BY <2>2, <2>3 DEF OneEntry
<1>2. QED
  BY Inductive, <1>1, PTL

(* The trace of a buffer of a traced context never goes to the log of      *)
(* another one, however often its id was used before.                      *)
THEOREM BuffersKeepContext == Spec => []OwnContext
<1>1. IInv => OwnContext
  BY DEF IInv, Working, Known, Adding, OwnContext
<1>2. QED
  BY Inductive, <1>1, PTL

Undumped == dumped = {}

(* Nothing is ever written to the file of LIBVA_TRACE_CODEDBUF, although   *)
(* va_trace.c:100 says "save the coded clip into file coded_clip_file":    *)
(* va_TraceMapBuffer, like every function that is given only a buffer,     *)
(* compares the context the table gives with its argument VA_INVALID_ID.   *)
THEOREM NothingDumped == Spec => []Undumped
<1>1. Init => Undumped
  BY DEF Init, Undumped
<1>2. Undumped /\ [Next]_vars => Undumped'
  <2> SUFFICES ASSUME dumped = {}, [Next]_vars PROVE dumped' = {}
    BY DEF Undumped
  <2>1. CASE UNCHANGED vars
    BY <2>1 DEF vars
  <2>2. ASSUME NEW t \in Thread, va_TraceMapBuffer(t) PROVE dumped' = {}
    BY <2>2, TracedOnly DEF va_TraceMapBuffer
  <2>3. ASSUME NEW t \in Thread,
               \/ DriverCreateBuffer(t) \/ va_TraceCreateBuffer(t) \/ DriverMapBuffer(t)
               \/ vaUnmapBuffer(t) \/ va_TraceDestroyBuffer(t) \/ DriverDestroyBuffer(t)
        PROVE  dumped' = {}
    BY <2>3 DEF DriverCreateBuffer, va_TraceCreateBuffer, DriverMapBuffer, vaUnmapBuffer,
                va_TraceDestroyBuffer, DriverDestroyBuffer
  <2>4. QED
    BY <2>1, <2>2, <2>3 DEF Next
<1>3. QED
  BY <1>1, <1>2, PTL DEF Spec

(* The hash table of levels implements the registry: a step records one    *)
(* buffer with a traced context, or changes no answer.                     *)
THEOREM RegistryImplemented == Spec => ImplementsRegistry
<1> DEFINE now == [b \in VABufferID |-> get_ctx_by_buf(b)]
           then == [b \in VABufferID |-> get_ctx_by_buf(b)']
<1>1. Init => Registry!Init
  <2> SUFFICES ASSUME Init PROVE now = [b \in VABufferID |-> VA_INVALID_ID]
    BY DEF Registry!Init
  <2>1. \A b \in VABufferID : get_ctx_by_buf(b) = VA_INVALID_ID
    BY InitEstablishes, NotFound DEF IInv, Misses, Init, Allocated
  <2>2. QED
    BY <2>1
<1>2. IInv /\ IInv' /\ [Next]_vars => [Registry!Next]_now
  <2> SUFFICES ASSUME IInv, IInv', [Next]_vars
               PROVE  then = now \/ \E b \in VABufferID, c \in Traced :
                                       then = [now EXCEPT ![b] = c]
    BY DEF Registry!Next, Registry!Record
  <2>1. CASE UNCHANGED pbuf_info
    BY <2>1, SameTable
  <2>2. ASSUME NEW b \in VABufferID, NEW c \in Traced, NEW i \in Level, Added(c, b, i)
        PROVE  then = [now EXCEPT ![b] = c]
    BY <2>2, AddRecords DEF IInv
  <2>3. QED
    BY <2>1, <2>2, TableStep
<1>3. QED
  BY <1>1, <1>2, Inductive, PTL DEF Spec, ImplementsRegistry, Registry!Spec
=============================================================================
