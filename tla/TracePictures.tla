---------------------------- MODULE TracePictures ----------------------------
(***************************************************************************)
(* What a traced context shows of the pictures it is given: the buffers of *)
(* vaRenderPicture printed by the functions of TracePrinters, and the      *)
(* trace_slice_size that a slice parameter buffer leaves for the dump of   *)
(* the slice data that follows.  The application sends what the headers    *)
(* tell it to send, with every slice in normal mode.                       *)
(***************************************************************************)
EXTENDS TracePrinters, FiniteSets, SequencesExt

CONSTANTS
  Profile,       \* VAProfile
  Counts,        \* bound: values for the counts and sizes of the elements
  SliceSize,     \* bound: the sizes slices have
  MaxElements    \* bound: slice parameter elements in one buffer

ASSUME PicturesAssumption ==
  /\ Profile \subseteq STRING
  /\ Counts \subseteq Nat /\ Counts # {}
  /\ SliceSize \subseteq Nat \ {0} /\ SliceSize # {}
  /\ MaxElements \in Nat \ {0}

VARIABLES
  trace_profile,      \* trace_context: the profile of the context, or "none"
  trace_slice_size,   \* trace_context: of the last slice parameters printed
  picture,            \* application: inside vaBeginPicture .. vaEndPicture
  announced,          \* application: slices sent whose data are still due
  shown               \* history: the last buffer and what it was printed as

vars == <<trace_profile, trace_slice_size, picture, announced, shown>>

CodecOf(profile) ==
  LET of == {c \in DOMAIN Codec : profile \in Codec[c]}
  IN  IF of = {} THEN "unknown" ELSE CHOOSE c \in of : TRUE

-----------------------------------------------------------------------------
(* The application's side, from the headers: the struct a buffer of a type *)
(* holds, by codec.  A type that is not listed holds bytes.                *)
Sends == [
  MPEG2 |-> [PictureParameter |-> "VAPictureParameterBufferMPEG2",
             IQMatrix |-> "VAIQMatrixBufferMPEG2",
             SliceParameter |-> "VASliceParameterBufferMPEG2",
             EncSequenceParameter |-> "VAEncSequenceParameterBufferMPEG2",
             EncPictureParameter |-> "VAEncPictureParameterBufferMPEG2",
             EncSliceParameter |-> "VAEncSliceParameterBufferMPEG2"],
  MPEG4 |-> [PictureParameter |-> "VAPictureParameterBufferMPEG4",
             IQMatrix |-> "VAIQMatrixBufferMPEG4",
             SliceParameter |-> "VASliceParameterBufferMPEG4",
             EncSequenceParameter |-> "VAEncSequenceParameterBufferMPEG4",
             EncPictureParameter |-> "VAEncPictureParameterBufferMPEG4",
             EncSliceParameter |-> "VAEncSliceParameterBuffer"],
  H263  |-> [PictureParameter |-> "VAPictureParameterBufferMPEG4",
             IQMatrix |-> "VAIQMatrixBufferMPEG4",
             SliceParameter |-> "VASliceParameterBufferMPEG4",
             EncSequenceParameter |-> "VAEncSequenceParameterBufferH263",
             EncPictureParameter |-> "VAEncPictureParameterBufferH263",
             EncSliceParameter |-> "VAEncSliceParameterBuffer"],
  H264  |-> [PictureParameter |-> "VAPictureParameterBufferH264",
             IQMatrix |-> "VAIQMatrixBufferH264",
             SliceParameter |-> "VASliceParameterBufferH264",
             EncSequenceParameter |-> "VAEncSequenceParameterBufferH264",
             EncPictureParameter |-> "VAEncPictureParameterBufferH264",
             EncSliceParameter |-> "VAEncSliceParameterBufferH264"],
  VC1   |-> [PictureParameter |-> "VAPictureParameterBufferVC1",
             SliceParameter |-> "VASliceParameterBufferVC1"],
  JPEG  |-> [PictureParameter |-> "VAPictureParameterBufferJPEGBaseline",
             IQMatrix |-> "VAIQMatrixBufferJPEGBaseline",
             SliceParameter |-> "VASliceParameterBufferJPEGBaseline",
             HuffmanTable |-> "VAHuffmanTableBufferJPEGBaseline",
             EncPictureParameter |-> "VAEncPictureParameterBufferJPEG",
             QMatrix |-> "VAQMatrixBufferJPEG",
             EncSliceParameter |-> "VAEncSliceParameterBufferJPEG"],
  VP8   |-> [PictureParameter |-> "VAPictureParameterBufferVP8",
             IQMatrix |-> "VAIQMatrixBufferVP8",
             SliceParameter |-> "VASliceParameterBufferVP8",
             Probability |-> "VAProbabilityDataBufferVP8",
             EncSequenceParameter |-> "VAEncSequenceParameterBufferVP8",
             EncPictureParameter |-> "VAEncPictureParameterBufferVP8"],
  HEVC  |-> [PictureParameter |-> "VAPictureParameterBufferHEVC",
             IQMatrix |-> "VAIQMatrixBufferHEVC",
             SliceParameter |-> "VASliceParameterBufferHEVC",
             EncSequenceParameter |-> "VAEncSequenceParameterBufferHEVC",
             EncPictureParameter |-> "VAEncPictureParameterBufferHEVC",
             EncSliceParameter |-> "VAEncSliceParameterBufferHEVC"],
  VVC   |-> [PictureParameter |-> "VAPictureParameterBufferVVC",
             IQMatrix |-> "VAScalingListVVC",
             SliceParameter |-> "VASliceParameterBufferVVC",
             Alf |-> "VAAlfDataVVC", Lmcs |-> "VALmcsDataVVC",
             SubPic |-> "VASubPicVVC", Tile |-> "VATileBufferVVC",
             SliceStruct |-> "VASliceStructVVC"],
  VP9   |-> [PictureParameter |-> "VADecPictureParameterBufferVP9",
             SliceParameter |-> "VASliceParameterBufferVP9",
             EncSequenceParameter |-> "VAEncSequenceParameterBufferVP9",
             EncPictureParameter |-> "VAEncPictureParameterBufferVP9"],
  AV1   |-> [PictureParameter |-> "VADecPictureParameterBufferAV1",
             SliceParameter |-> "VASliceParameterBufferAV1",
             EncSequenceParameter |-> "VAEncSequenceParameterBufferAV1",
             EncPictureParameter |-> "VAEncPictureParameterBufferAV1",
             EncSliceParameter |-> "VAEncTileGroupBufferAV1"],
  None  |-> [ProcPipelineParameter |-> "VAProcPipelineParameterBuffer"],
  unknown |-> [PictureParameter |-> "a struct of its own"]]

(* Buffers every codec may send.                                           *)
Common == {"EncMiscParameter", "EncPackedHeaderParameter",
           "EncryptionParameter", "EncPackedHeaderData", "ProtectedSliceData",
           "MacroblockParameter", "EncCoded"}

MiscStruct == [
  FrameRate |-> "VAEncMiscParameterFrameRate",
  RateControl |-> "VAEncMiscParameterRateControl",
  MaxSliceSize |-> "VAEncMiscParameterMaxSliceSize",
  AIR |-> "VAEncMiscParameterAIR", HRD |-> "VAEncMiscParameterHRD",
  MaxFrameSize |-> "VAEncMiscParameterBufferMaxFrameSize",
  MultiPassFrameSize |-> "VAEncMiscParameterBufferMultiPassFrameSize",
  QualityLevel |-> "VAEncMiscParameterBufferQualityLevel",
  ROI |-> "VAEncMiscParameterBufferROI", RIR |-> "VAEncMiscParameterRIR",
  EncQuality |-> "VAEncMiscParameterEncQuality",
  SkipFrame |-> "VAEncMiscParameterSkipFrame",
  TemporalLayerStructure |-> "VAEncMiscParameterTemporalLayerStructure",
  DirtyRect |-> "VAEncMiscParameterBufferDirtyRect",
  ParallelBRC |-> "VAEncMiscParameterParallelRateControl",
  Quantization |-> "VAEncMiscParameterQuantization"]

FilterStruct == [
  Deinterlacing |-> "VAProcFilterParameterBufferDeinterlacing",
  ColorBalance |-> "VAProcFilterParameterBufferColorBalance",
  NoiseReduction |-> "VAProcFilterParameterBuffer"]

(* va_dec_hevc.h: range extension profiles send the Rext structs with the  *)
(* base ones in one buffer, screen content profiles the Scc struct too.    *)
ScreenContent == {"HEVCSccMain", "HEVCSccMain10", "HEVCSccMain444",
                  "HEVCSccMain444_10"}
RangeExtension == Codec.HEVC \ {"HEVCMain", "HEVCMain10"}

(* All that an element of this profile holds.  Every filter starts with    *)
(* the fields of VAProcFilterParameterBufferBase.                          *)
Holds(profile, e) ==
  LET codec == CodecOf(profile)
      extended(t) == codec = "HEVC" /\ e.type = t
  IN  {"Bytes"}
      \cup (IF e.type = "EncSliceParameter" /\ e.kind = "generic"
            THEN {"VAEncSliceParameterBuffer"}
            ELSE IF e.type \in DOMAIN Sends[codec]
            THEN {Sends[codec][e.type]} ELSE {})
      \cup (IF e.type = "EncMiscParameter" THEN {MiscStruct[e.kind]} ELSE {})
      \cup (IF e.type = "EncPackedHeaderParameter"
            THEN {"VAEncPackedHeaderParameterBuffer"} ELSE {})
      \cup (IF e.type = "EncryptionParameter"
            THEN {"VAEncryptionParameters"} ELSE {})
      \cup (IF e.type = "ProcPipelineParameter"
            THEN {FilterStruct[e.kind], "VAProcFilterParameterBufferBase"}
            ELSE {})
      \cup (IF extended("PictureParameter") /\ profile \in RangeExtension
            THEN {"VAPictureParameterBufferHEVCRext"} ELSE {})
      \cup (IF extended("PictureParameter") /\ profile \in ScreenContent
            THEN {"VAPictureParameterBufferHEVCScc"} ELSE {})
      \cup (IF extended("SliceParameter") /\ profile \in RangeExtension
            THEN {"VASliceParameterBufferHEVCRext"} ELSE {})

(* The counts a conforming application puts in the elements of a codec.    *)
MaxActive == [H264 |-> 31, HEVC |-> 14]
MaxCount(codec, type) ==
  CASE codec = "JPEG" /\ type = "PictureParameter" -> 255
    [] codec = "JPEG" -> 4
    [] codec = "H264" /\ type = "EncSequenceParameter" -> 16
    [] OTHER -> 1000

Kinds(codec, type) ==
  CASE type = "EncMiscParameter" -> DOMAIN MiscStruct
    [] type = "ProcPipelineParameter" -> DOMAIN FilterStruct
    [] type = "EncSliceParameter" /\ codec = "H264" -> {"generic", "own"}
    [] OTHER -> {"own"}

Element(type, kind, count, l0, l1, size, slice_size) ==
  [type |-> type, kind |-> kind, count |-> count, l0 |-> l0, l1 |-> l1,
   size |-> size, luts |-> count > 0, slice_data_size |-> slice_size]

Elements(profile) ==
  LET codec == CodecOf(profile)
      types == (DOMAIN Sends[codec] \ {"SliceParameter"}) \cup Common
      active == IF codec \in DOMAIN MaxActive
                THEN {n \in Counts : n <= MaxActive[codec]} ELSE {0}
  IN  UNION {{Element(type, kind, n, l0, l0, n, 0) :
                kind \in Kinds(codec, type),
                n \in {m \in Counts : m <= MaxCount(codec, type)},
                l0 \in active} : type \in types}

(* The elements of a slice parameter buffer, one for each size.            *)
SliceElements(profile, sizes) ==
  LET codec == CodecOf(profile)
      active == IF codec \in DOMAIN MaxActive
                THEN {n \in Counts : n <= MaxActive[codec]} ELSE {0}
  IN  {[i \in 1 .. Len(sizes) |->
          Element("SliceParameter", "own", n, l0, l1, 1, sizes[i])] :
         n \in {m \in Counts : m <= MaxCount(codec, "SliceParameter")},
         l0 \in active, l1 \in active}

-----------------------------------------------------------------------------
NoBuffer == [elements |-> << >>, prints |-> << >>]

Init ==
  /\ trace_profile = "none"
  /\ trace_slice_size = 0
  /\ picture = FALSE
  /\ announced = << >>
  /\ shown = NoBuffer

Show(elements) ==
  shown' = [elements |-> elements,
            prints |-> FlattenSeq([i \in 1 .. Len(elements) |->
              TraceElement(trace_profile, elements[i], trace_slice_size)])]

vaCreateContext ==
  /\ trace_profile = "none"
  /\ trace_profile' \in Profile
  /\ UNCHANGED <<trace_slice_size, picture, announced, shown>>

vaDestroyContext ==
  /\ trace_profile # "none" /\ ~picture
  /\ trace_profile' = "none"
  /\ trace_slice_size' = 0
  /\ UNCHANGED <<picture, announced, shown>>

va_TraceBeginPicture ==
  /\ trace_profile # "none" /\ ~picture
  /\ picture' = TRUE
  /\ UNCHANGED <<trace_profile, trace_slice_size, announced, shown>>

va_TraceEndPicture ==
  /\ picture /\ announced = << >> /\ shown = NoBuffer
  /\ picture' = FALSE
  /\ UNCHANGED <<trace_profile, trace_slice_size, announced, shown>>

(* The slice parameter printers that keep the size of the slice.           *)
KeepsSliceSize(profile) ==
  CodecOf(profile) \in {"MPEG2", "MPEG4", "H263", "VVC", "HEVC", "H264", "VC1"}

\* Mutants: the size of the first element is kept; the sizes add up.
FirstSliceSize(elements) == elements[1].slice_data_size
AddedSliceSize(elements) == trace_slice_size + Last(elements).slice_data_size

(* Every element sets trace_slice_size; the last one is what stays.        *)
LastSliceSize(elements) == Last(elements).slice_data_size

RenderSliceParameters ==
  \E sizes \in BoundedSeq(SliceSize, MaxElements) \ {<< >>} :
    \E elements \in SliceElements(trace_profile, sizes) :
      /\ announced = << >>
      /\ Show(elements)
      /\ announced' = sizes
      /\ trace_slice_size' = IF KeepsSliceSize(trace_profile)
                             THEN LastSliceSize(elements)
                             ELSE trace_slice_size
      /\ UNCHANGED <<trace_profile, picture>>

(* The data of all slices announced, in one buffer.                        *)
RenderSliceData ==
  /\ announced # << >>
  /\ Show(<<Element("SliceData", "own", 0, 0, 0, FoldSeq(+, 0, announced),
                    Last(announced))>>)
  /\ announced' = << >>
  /\ UNCHANGED <<trace_profile, trace_slice_size, picture>>

RenderOther ==
  \E e \in Elements(trace_profile) :
    /\ Show(<<e>>)
    /\ UNCHANGED <<trace_profile, trace_slice_size, picture, announced>>

va_TraceRenderPicture ==
  /\ picture /\ shown = NoBuffer
  /\ RenderSliceParameters \/ RenderSliceData \/ RenderOther

(* The driver has taken the buffer: vaRenderPicture returns.               *)
DriverRenderPicture ==
  /\ shown # NoBuffer
  /\ shown' = NoBuffer
  /\ UNCHANGED <<trace_profile, trace_slice_size, picture, announced>>

Next == \/ vaCreateContext \/ vaDestroyContext
        \/ va_TraceBeginPicture \/ va_TraceEndPicture
        \/ va_TraceRenderPicture \/ DriverRenderPicture

Spec == Init /\ [][Next]_vars

-----------------------------------------------------------------------------
Covers(dims, extents) ==
  /\ Len(dims) = Len(extents)
  /\ \A i \in 1 .. Len(dims) : extents[i] <= dims[i]

(* No dump reads past an array: each array a va_Trace function prints is   *)
(* an array of the struct it takes the buffer for, and the counts that the *)
(* application put in the buffer, or that an earlier buffer left in the    *)
(* trace context, never lead past its end or past the bytes of a buffer.   *)
WithinStruct ==
  \A i \in 1 .. Len(shown.prints) : LET print == shown.prints[i]
    IN  \A a \in DOMAIN print.arrays :
          /\ a \in DOMAIN print.of.arrays
          /\ Covers(print.of.arrays[a], print.arrays[a])

(* A buffer is taken for what the application put in it, for every profile *)
(* and type: va_dec_hevc.h, "This data structure should be sent together   *)
(* with VAPictureParameterBufferHEVC in a single buffer", says when the    *)
(* extension structs are there to be printed.                              *)
OwnStruct ==
  \A i \in 1 .. Len(shown.prints), j \in 1 .. Len(shown.elements) :
    shown.prints[i].of.name \in Holds(trace_profile, shown.elements[j])

(* The dump of slice data for H.264 and VC-1 shows a slice of this buffer, *)
(* the last one announced for it, however many slices came before.         *)
SliceDataShown ==
  \A i \in 1 .. Len(shown.elements), j \in 1 .. Len(shown.prints) :
    /\ shown.elements[i].type = "SliceData"
    /\ CodecOf(trace_profile) \in {"H264", "VC1"}
    => shown.prints[j].arrays.data = <<shown.elements[i].slice_data_size>>
=============================================================================
