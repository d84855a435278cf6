---------------------------- MODULE TracePrinters ----------------------------
(***************************************************************************)
(* The codec dumps of va/va_trace.c as functions of the buffer element e   *)
(* they are given: which struct the va_Trace function takes the element    *)
(* for, and how far it prints each array of it.  Wording and scalars are   *)
(* left out.  An element is a record:                                      *)
(*   type, size    its VABufferType and its length in bytes                *)
(*   count         the field that says how many entries a list has         *)
(*   l0, l1        num_ref_idx_l0/l1_active_minus1                         *)
(*   kind          the type of a misc parameter or of a filter, and        *)
(*                 "generic" for a VAEncSliceParameterBuffer               *)
(*   luts          whether the FTQ tables are said to be present           *)
(***************************************************************************)
EXTENDS VAStructs

CONSTANT
  BUFDATA      \* VA_TRACE_FLAG_BUFDATA is set: LIBVA_TRACE_BUFDATA

ASSUME BufdataAssumption == BUFDATA \in BOOLEAN

Prints(struct, arrays) == <<[of |-> struct, arrays |-> arrays]>>
AtMost(m, n) == IF m < n THEN m ELSE n

-----------------------------------------------------------------------------
va_TraceVAPictureParameterBufferMPEG2 ==
  Prints(VAPictureParameterBufferMPEG2, Scalars)
va_TraceVAIQMatrixBufferMPEG2 ==
  Prints(VAIQMatrixBufferMPEG2,
    [intra_quantiser_matrix |-> <<64>>, non_intra_quantiser_matrix |-> <<64>>,
     chroma_intra_quantiser_matrix |-> <<64>>,
     chroma_non_intra_quantiser_matrix |-> <<64>>])
va_TraceVASliceParameterBufferMPEG2 ==
  Prints(VASliceParameterBufferMPEG2, Scalars)
va_TraceVAPictureParameterBufferJPEG(e) ==
  Prints(VAPictureParameterBufferJPEGBaseline,
    [components |-> <<AtMost(e.count, 255)>>])
va_TraceVAIQMatrixBufferJPEG ==
  Prints(VAIQMatrixBufferJPEGBaseline,
    [load_quantiser_table |-> <<4>>, quantiser_table |-> <<4, 64>>])
va_TraceVASliceParameterBufferJPEG(e) ==
  Prints(VASliceParameterBufferJPEGBaseline,
    [components |-> <<AtMost(e.count, 4)>>])
va_TraceVAHuffmanTableBufferJPEG ==
  Prints(VAHuffmanTableBufferJPEGBaseline,
    [load_huffman_table |-> <<2>>, huffman_table |-> <<2>>,
     num_dc_codes |-> <<16>>, dc_values |-> <<12>>, num_ac_codes |-> <<16>>,
     ac_values |-> <<162>>, pad |-> <<2>>])
va_TraceVAPictureParameterBufferMPEG4 ==
  Prints(VAPictureParameterBufferMPEG4,
    [sprite_trajectory_du |-> <<3>>, sprite_trajectory_dv |-> <<3>>])
va_TraceVAIQMatrixBufferMPEG4 ==
  Prints(VAIQMatrixBufferMPEG4,
    [intra_quant_mat |-> <<64>>, non_intra_quant_mat |-> <<64>>])
va_TraceVAEncSequenceParameterBufferMPEG2 ==
  Prints(VAEncSequenceParameterBufferMPEG2, Scalars)
va_TraceVAEncSequenceParameterBufferMPEG4 ==
  Prints(VAEncSequenceParameterBufferMPEG4, Scalars)
va_TraceVAEncPictureParameterBufferMPEG4 ==
  Prints(VAEncPictureParameterBufferMPEG4, Scalars)
va_TraceVASliceParameterBufferMPEG4 ==
  Prints(VASliceParameterBufferMPEG4, Scalars)
va_TraceVAPictureParameterBufferVVC ==
  Prints(VAPictureParameterBufferVVC,
    [ReferenceFrames |-> <<15>>, ChromaQpTable |-> <<3, 111>>,
     sps_ladf_qp_offset |-> <<4>>, sps_ladf_delta_threshold_minus1 |-> <<4>>,
     reserved32b01 |-> <<2>>, VirtualBoundaryPosX |-> <<3>>,
     VirtualBoundaryPosY |-> <<3>>, pps_cb_qp_offset_list |-> <<6>>,
     pps_cr_qp_offset_list |-> <<6>>, pps_joint_cbcr_qp_offset_list |-> <<6>>,
     reserved32b02 |-> <<2>>, reserved32b03 |-> <<2>>, reserved32b |-> <<17>>])
va_TraceVASliceParameterBufferVVC ==
  Prints(VASliceParameterBufferVVC,
    [RefPicList |-> <<2, 15>>, sh_alf_aps_id_luma |-> <<7>>,
     NumRefIdxActive |-> <<2>>, reserved8b |-> <<3>>,
     luma_weight_l0_flag |-> <<15>>, chroma_weight_l0_flag |-> <<15>>,
     delta_luma_weight_l0 |-> <<15>>, luma_offset_l0 |-> <<15>>,
     delta_chroma_weight_l0 |-> <<15, 2>>,
     delta_chroma_offset_l0 |-> <<15, 2>>, luma_weight_l1_flag |-> <<15>>,
     chroma_weight_l1_flag |-> <<15>>, delta_luma_weight_l1 |-> <<15>>,
     luma_offset_l1 |-> <<15>>, delta_chroma_weight_l1 |-> <<15, 2>>,
     delta_chroma_offset_l1 |-> <<15, 2>>])
va_TraceVAScalingListBufferVVC ==
  Prints(VAScalingListVVC,
    [ScalingMatrixDCRec |-> <<14>>, ScalingMatrixRec2x2 |-> <<2, 2, 2>>,
     ScalingMatrixRec4x4 |-> <<6, 4, 4>>,
     ScalingMatrixRec8x8 |-> <<20, 8, 8>>, va_reserved |-> <<8>>])
va_TraceVAAlfBufferVVC ==
  Prints(VAAlfDataVVC,
    [alf_luma_coeff_delta_idx |-> <<25>>, filtCoeff |-> <<25, 12>>,
     alf_luma_clip_idx |-> <<25, 12>>, AlfCoeffC |-> <<8, 6>>,
     alf_chroma_clip_idx |-> <<8, 6>>, CcAlfApsCoeffCb |-> <<4, 7>>,
     CcAlfApsCoeffCr |-> <<4, 7>>, va_reserved |-> <<8>>])
va_TraceVALmcsBufferVVC ==
  Prints(VALmcsDataVVC,
    [lmcsDeltaCW |-> <<16>>, reserved8b |-> <<3>>, va_reserved |-> <<8>>])
va_TraceVASubPicBufferVVC == Prints(VASubPicVVC, [va_reserved |-> <<4>>])
va_TraceVASliceStructBufferVVC ==
  Prints(VASliceStructVVC, [va_reserved |-> <<4>>])
va_TraceVAIQMatrixBufferHEVC ==
  Prints(VAIQMatrixBufferHEVC,
    [ScalingList4x4 |-> <<6, 16>>, ScalingList8x8 |-> <<6, 64>>,
     ScalingList16x16 |-> <<6, 64>>, ScalingList32x32 |-> <<2, 64>>,
     ScalingListDC16x16 |-> <<6>>, ScalingListDC32x32 |-> <<2>>])
va_TraceVAEncSequenceParameterBufferHEVC ==
  Prints(VAEncSequenceParameterBufferHEVC, Scalars)
va_TraceVAEncPictureParameterBufferHEVC ==
  Prints(VAEncPictureParameterBufferHEVC,
    [reference_frames |-> <<15>>, column_width_minus1 |-> <<19>>,
     row_height_minus1 |-> <<21>>])
va_TraceVAEncSliceParameterBufferHEVC ==
  Prints(VAEncSliceParameterBufferHEVC,
    [ref_pic_list0 |-> <<15>>, ref_pic_list1 |-> <<15>>,
     delta_luma_weight_l0 |-> <<15>>, delta_luma_weight_l1 |-> <<15>>,
     luma_offset_l0 |-> <<15>>, luma_offset_l1 |-> <<15>>,
     delta_chroma_weight_l0 |-> <<15, 2>>,
     delta_chroma_weight_l1 |-> <<15, 2>>, chroma_offset_l0 |-> <<15, 2>>,
     chroma_offset_l1 |-> <<15, 2>>])
va_TraceVAPictureParameterBufferH264 ==
  Prints(VAPictureParameterBufferH264, [ReferenceFrames |-> <<16>>])
va_TraceVASliceParameterBufferH264(e) ==
  Prints(VASliceParameterBufferH264,
    [RefPicList0 |-> <<32>>, RefPicList1 |-> <<32>>,
     luma_weight_l0 |-> <<AtMost(e.l0 + 1, 32)>>,
     luma_offset_l0 |-> <<AtMost(e.l0 + 1, 32)>>,
     chroma_weight_l0 |-> <<AtMost(e.l0 + 1, 32), 2>>,
     chroma_offset_l0 |-> <<AtMost(e.l0 + 1, 32), 2>>,
     luma_weight_l1 |-> <<AtMost(e.l1 + 1, 32)>>,
     luma_offset_l1 |-> <<AtMost(e.l1 + 1, 32)>>,
     chroma_weight_l1 |-> <<AtMost(e.l1 + 1, 32), 2>>,
     chroma_offset_l1 |-> <<AtMost(e.l1 + 1, 32), 2>>])
va_TraceVAIQMatrixBufferH264 ==
  Prints(VAIQMatrixBufferH264,
    [ScalingList4x4 |-> <<6, 16>>, ScalingList8x8 |-> <<2, 64>>])
va_TraceVAEncSequenceParameterBufferH264(e) ==
  Prints(VAEncSequenceParameterBufferH264,
    [offset_for_ref_frame |-> <<AtMost(e.count, 32)>>])
va_TraceVAEncPictureParameterBufferH264 ==
  Prints(VAEncPictureParameterBufferH264, [ReferenceFrames |-> <<16>>])
va_TraceVAEncSliceParameterBuffer == Prints(VAEncSliceParameterBuffer, Scalars)
va_TraceVAEncSliceParameterBufferH264(e) ==
  Prints(VAEncSliceParameterBufferH264,
    [delta_pic_order_cnt |-> <<2>>, RefPicList0 |-> <<32>>,
     RefPicList1 |-> <<32>>, luma_weight_l0 |-> <<AtMost(e.l0 + 1, 32)>>,
     luma_offset_l0 |-> <<AtMost(e.l0 + 1, 32)>>,
     chroma_weight_l0 |-> <<AtMost(e.l0 + 1, 32), 2>>,
     chroma_offset_l0 |-> <<AtMost(e.l0 + 1, 32), 2>>,
     luma_weight_l1 |-> <<AtMost(e.l1 + 1, 32)>>,
     luma_offset_l1 |-> <<AtMost(e.l1 + 1, 32)>>,
     chroma_weight_l1 |-> <<AtMost(e.l1 + 1, 32), 2>>,
     chroma_offset_l1 |-> <<AtMost(e.l1 + 1, 32), 2>>])
va_TraceVAEncPackedHeaderParameterBufferType ==
  Prints(VAEncPackedHeaderParameterBuffer, Scalars)
va_TraceVAEncryptionParameters(e) ==
  Prints(VAEncryptionParameters(e),
    [segment_info |-> <<AtMost(e.count, 16)>>, aes_cbc_iv_or_ctr |-> <<16>>,
     wrapped_decrypt_blob |-> <<16>>, wrapped_encrypt_blob |-> <<16>>])
va_TraceVAPictureParameterBufferVC1 ==
  Prints(VAPictureParameterBufferVC1, Scalars)
va_TraceVASliceParameterBufferVC1 == Prints(VASliceParameterBufferVC1, Scalars)
va_TraceVAPictureParameterBufferVP8 ==
  Prints(VAPictureParameterBufferVP8,
    [mb_segment_tree_probs |-> <<3>>, loop_filter_level |-> <<4>>,
     loop_filter_deltas_ref_frame |-> <<4>>,
     loop_filter_deltas_mode |-> <<4>>, y_mode_probs |-> <<4>>,
     uv_mode_probs |-> <<3>>, mv_probs |-> <<2, 19>>])
va_TraceVASliceParameterBufferVP8 ==
  Prints(VASliceParameterBufferVP8, [partition_size |-> <<9>>])
va_TraceVAIQMatrixBufferVP8 ==
  Prints(VAIQMatrixBufferVP8, [quantization_index |-> <<4, 6>>])
va_TraceVAProbabilityBufferVP8 ==
  Prints(VAProbabilityDataBufferVP8, [dct_coeff_probs |-> <<4, 8, 3, 11>>])
va_TraceVAEncSequenceParameterBufferVP8 ==
  Prints(VAEncSequenceParameterBufferVP8, [reference_frames |-> <<4>>])
va_TraceVAEncSequenceParameterBufferVP9 ==
  Prints(VAEncSequenceParameterBufferVP9, Scalars)
va_TraceVAPictureParameterBufferVP9 ==
  Prints(VADecPictureParameterBufferVP9,
    [reference_frames |-> <<8>>, mb_segment_tree_probs |-> <<7>>,
     segment_pred_probs |-> <<3>>])
va_TraceVAEncSequenceParameterBufferAV1 ==
  Prints(VAEncSequenceParameterBufferAV1, Scalars)
va_TraceVAEncPictureParameterBufferAV1 ==
  Prints(VAEncPictureParameterBufferAV1,
    [reference_frames |-> <<8>>, ref_frame_idx |-> <<7>>,
     filter_level |-> <<2>>, ref_deltas |-> <<8>>, mode_deltas |-> <<2>>,
     feature_data |-> <<8, 8>>, feature_mask |-> <<8>>,
     width_in_sbs_minus_1 |-> <<63>>, height_in_sbs_minus_1 |-> <<63>>,
     cdef_y_strengths |-> <<8>>, cdef_uv_strengths |-> <<8>>, wm |-> <<7>>,
     wmmat |-> <<8>>])
va_TraceVAEncSliceParameterBufferAV1 ==
  Prints(VAEncTileGroupBufferAV1, Scalars)
va_TraceVAPictureParameterBufferAV1(e) ==
  Prints(VADecPictureParameterBufferAV1(e),
    [anchor_frames_list |-> <<e.count>>, ref_frame_map |-> <<8>>,
     ref_frame_idx |-> <<7>>, feature_data |-> <<8, 8>>,
     feature_mask |-> <<8>>, point_y_value |-> <<14>>,
     point_y_scaling |-> <<14>>, point_cb_value |-> <<10>>,
     point_cb_scaling |-> <<10>>, point_cr_value |-> <<10>>,
     point_cr_scaling |-> <<10>>, ar_coeffs_y |-> <<24>>,
     ar_coeffs_cb |-> <<25>>, ar_coeffs_cr |-> <<25>>,
     width_in_sbs_minus_1 |-> <<63>>, height_in_sbs_minus_1 |-> <<63>>,
     filter_level |-> <<2>>, ref_deltas |-> <<8>>, mode_deltas |-> <<2>>,
     cdef_y_strengths |-> <<8>>, cdef_uv_strengths |-> <<8>>, wm |-> <<7>>,
     wmmat |-> <<8>>])
va_TraceVAEncPictureParameterBufferVP8 ==
  Prints(VAEncPictureParameterBufferVP8,
    [loop_filter_level |-> <<4>>, ref_lf_delta |-> <<4>>,
     mode_lf_delta |-> <<4>>])
va_TraceVAEncPictureParameterBufferVP9 ==
  Prints(VAEncPictureParameterBufferVP9,
    [reference_frames |-> <<8>>, ref_lf_delta |-> <<4>>,
     mode_lf_delta |-> <<2>>])
va_TraceVASliceParameterBufferVP9 ==
  Prints(VASliceParameterBufferVP9,
    [seg_param |-> <<8>>, filter_level |-> <<4, 2>>])
va_TraceVASliceParameterBufferAV1 == Prints(VASliceParameterBufferAV1, Scalars)
va_TraceVAEncSequenceParameterBufferH263 ==
  Prints(VAEncSequenceParameterBufferH263, Scalars)
va_TraceVAEncPictureParameterBufferH263 ==
  Prints(VAEncPictureParameterBufferH263, Scalars)
va_TraceVAEncPictureParameterBufferJPEG(e) ==
  Prints(VAEncPictureParameterBufferJPEG,
    [component_id |-> <<e.count>>, quantiser_table_selector |-> <<4>>])
va_TraceVAEncQMatrixBufferJPEG ==
  Prints(VAQMatrixBufferJPEG,
    [lum_quantiser_matrix |-> <<64>>, chroma_quantiser_matrix |-> <<64>>])
va_TraceVAEncSliceParameterBufferJPEG ==
  Prints(VAEncSliceParameterBufferJPEG, [components |-> <<4>>])
va_TraceProcFilterParameterBufferDeinterlacing ==
  Prints(VAProcFilterParameterBufferDeinterlacing, Scalars)
va_TraceProcFilterParameterBufferColorBalance ==
  Prints(VAProcFilterParameterBufferColorBalance, Scalars)
va_TraceVAProcPipelineParameterBuffer(e) ==
  Prints(VAProcPipelineParameterBuffer(e),
    [forward_references |-> <<AtMost(e.count, 5)>>,
     backward_references |-> <<AtMost(e.count, 5)>>,
     additional_outputs |-> <<AtMost(e.count, 5)>>])
-----------------------------------------------------------------------------
(* A buffer that is not taken apart: `size' of its bytes, or nothing.      *)
va_TraceVABuffers(e, size) ==
  IF BUFDATA THEN Prints(Bytes(e), [data |-> <<size>>]) ELSE << >>

va_TraceVATileBufferVVC == Prints(VATileBufferVVC, Scalars)

\* Mutant: every profile after HEVCMain has the larger structures.
AfterMain(profile) ==
  \/ profile \in {"HEVCMain10", "HEVCMain12", "HEVCMain422_10", "HEVCMain422_12"}
  \/ profile \in {"HEVCMain444", "HEVCMain444_10", "HEVCMain444_12"}
  \/ profile \in {"HEVCSccMain", "HEVCSccMain10"}
  \/ profile \in {"HEVCSccMain444", "HEVCSccMain444_10"}

va_TraceIsRextProfile(profile) ==
  profile \in {"HEVCMain12", "HEVCMain422_10", "HEVCMain422_12",
               "HEVCMain444", "HEVCMain444_10", "HEVCMain444_12",
               "HEVCSccMain", "HEVCSccMain10", "HEVCSccMain444",
               "HEVCSccMain444_10"}
va_TraceIsSccProfile(profile) ==
  profile \in {"HEVCSccMain", "HEVCSccMain10", "HEVCSccMain444",
               "HEVCSccMain444_10"}

va_TraceVAPictureParameterBufferHEVC(profile) ==
  LET isRext == va_TraceIsRextProfile(profile)
      isScc  == va_TraceIsSccProfile(profile)
  IN  Prints(VAPictureParameterBufferHEVC,
             [ReferenceFrames |-> <<15>>, column_width_minus1 |-> <<19>>,
              row_height_minus1 |-> <<21>>])
      \o (IF isRext THEN Prints(VAPictureParameterBufferHEVCRext,
            [cb_qp_offset_list |-> <<6>>, cr_qp_offset_list |-> <<6>>])
          ELSE << >>)
      \o (IF isRext /\ isScc THEN Prints(VAPictureParameterBufferHEVCScc,
            [predictor_palette_entries |-> <<3, 128>>])
          ELSE << >>)

va_TraceVASliceParameterBufferHEVC(profile, e) ==
  Prints(VASliceParameterBufferHEVC,
    [RefPicList |-> <<2, 15>>,
     delta_luma_weight_l0 |-> <<e.l0 + 1>>, luma_offset_l0 |-> <<e.l0 + 1>>,
     delta_chroma_weight_l0 |-> <<e.l0 + 1, 2>>,
     ChromaOffsetL0 |-> <<e.l0 + 1, 2>>,
     delta_luma_weight_l1 |-> <<e.l1 + 1>>, luma_offset_l1 |-> <<e.l1 + 1>>,
     delta_chroma_weight_l1 |-> <<e.l1 + 1, 2>>,
     ChromaOffsetL1 |-> <<e.l1 + 1, 2>>])
  \o (IF va_TraceIsRextProfile(profile)
      THEN Prints(VASliceParameterBufferHEVCRext,
             [luma_offset_l0 |-> <<15>>, ChromaOffsetL0 |-> <<15, 2>>,
              luma_offset_l1 |-> <<15>>, ChromaOffsetL1 |-> <<15, 2>>])
      ELSE << >>)

(* The header of the buffer says what its data is.                         *)
va_TraceVAEncMiscParameterBuffer(e) ==
  CASE e.kind = "FrameRate" -> Prints(VAEncMiscParameterFrameRate, Scalars)
    [] e.kind = "RateControl" ->
         Prints(VAEncMiscParameterRateControl, Scalars)
    [] e.kind = "MaxSliceSize" ->
         Prints(VAEncMiscParameterMaxSliceSize, Scalars)
    [] e.kind = "AIR" -> Prints(VAEncMiscParameterAIR, Scalars)
    [] e.kind = "HRD" -> Prints(VAEncMiscParameterHRD, Scalars)
    [] e.kind = "MaxFrameSize" ->
         Prints(VAEncMiscParameterBufferMaxFrameSize, Scalars)
    [] e.kind = "MultiPassFrameSize" ->
         Prints(VAEncMiscParameterBufferMultiPassFrameSize(e),
                [delta_qp |-> <<e.count>>])
    [] e.kind = "QualityLevel" ->
         Prints(VAEncMiscParameterBufferQualityLevel, Scalars)
    [] e.kind = "ROI" ->
         Prints(VAEncMiscParameterBufferROI(e), [roi |-> <<e.count>>])
    [] e.kind = "RIR" -> Prints(VAEncMiscParameterRIR, Scalars)
    [] e.kind = "EncQuality" ->
         Prints(VAEncMiscParameterEncQuality,
                [FTQSkipThresholdLUT |-> <<IF e.luts THEN 52 ELSE 0>>,
                 NonFTQSkipThresholdLUT |-> <<IF e.luts THEN 52 ELSE 0>>])
    [] e.kind = "SkipFrame" -> Prints(VAEncMiscParameterSkipFrame, Scalars)
    [] e.kind = "TemporalLayerStructure" ->
         Prints(VAEncMiscParameterTemporalLayerStructure,
                [layer_id |-> <<32>>])
    [] OTHER -> va_TraceVABuffers(e, e.size)

(* One filter of a pipeline, which is a buffer of its own.                 *)
va_TraceProcFilterParameterBuffer(e) ==
  CASE e.kind = "Deinterlacing" ->
         va_TraceProcFilterParameterBufferDeinterlacing
    [] e.kind = "ColorBalance" ->
         va_TraceProcFilterParameterBufferColorBalance
    [] OTHER -> Prints(VAProcFilterParameterBufferBase, Scalars)

-----------------------------------------------------------------------------
(* A va_TraceXBuf function chooses by the type of the buffer.              *)
Raw(e) == va_TraceVABuffers(e, e.size)
Nothing == << >>

va_TraceMPEG2Buf(e) ==
  CASE e.type = "PictureParameter" -> va_TraceVAPictureParameterBufferMPEG2
    [] e.type = "IQMatrix" -> va_TraceVAIQMatrixBufferMPEG2
    [] e.type = "SliceParameter" -> va_TraceVASliceParameterBufferMPEG2
    [] e.type = "EncSequenceParameter" ->
         va_TraceVAEncSequenceParameterBufferMPEG2
    [] e.type = "EncMiscParameter" -> va_TraceVAEncMiscParameterBuffer(e)
    [] e.type \in {"BitPlane", "SliceGroupMap", "SliceData",
                   "MacroblockParameter", "ResidualData",
                   "DeblockingParameter", "ProtectedSliceData"} -> Raw(e)
    [] OTHER -> Nothing

va_TraceH263Buf(e) ==
  CASE e.type = "PictureParameter" -> va_TraceVAPictureParameterBufferMPEG4
    [] e.type = "IQMatrix" -> va_TraceVAIQMatrixBufferMPEG4
    [] e.type = "SliceParameter" -> va_TraceVASliceParameterBufferMPEG4
    [] e.type = "EncSequenceParameter" ->
         va_TraceVAEncSequenceParameterBufferH263
    [] e.type = "EncPictureParameter" ->
         va_TraceVAEncPictureParameterBufferH263
    [] e.type = "EncSliceParameter" -> va_TraceVAEncSliceParameterBuffer
    [] e.type = "EncPackedHeaderParameter" ->
         va_TraceVAEncPackedHeaderParameterBufferType
    [] e.type \in {"SliceGroupMap", "Image", "EncCoded"} -> Nothing
    [] OTHER -> Raw(e)

va_TraceJPEGBuf(e) ==
  CASE e.type = "EncSliceParameter" -> va_TraceVAEncSliceParameterBufferJPEG
    [] e.type = "PictureParameter" -> va_TraceVAPictureParameterBufferJPEG(e)
    [] e.type = "IQMatrix" -> va_TraceVAIQMatrixBufferJPEG
    [] e.type = "SliceParameter" -> va_TraceVASliceParameterBufferJPEG(e)
    [] e.type = "HuffmanTable" -> va_TraceVAHuffmanTableBufferJPEG
    [] e.type = "EncPictureParameter" ->
         va_TraceVAEncPictureParameterBufferJPEG(e)
    [] e.type = "QMatrix" -> va_TraceVAEncQMatrixBufferJPEG
    [] OTHER -> Raw(e)

va_TraceMPEG4Buf(e) ==
  CASE e.type = "PictureParameter" -> va_TraceVAPictureParameterBufferMPEG4
    [] e.type = "IQMatrix" -> va_TraceVAIQMatrixBufferMPEG4
    [] e.type = "SliceParameter" -> va_TraceVASliceParameterBufferMPEG4
    [] e.type = "EncSequenceParameter" ->
         va_TraceVAEncSequenceParameterBufferMPEG4
    [] e.type = "EncPictureParameter" ->
         va_TraceVAEncPictureParameterBufferMPEG4
    [] e.type = "EncSliceParameter" -> va_TraceVAEncSliceParameterBuffer
    [] e.type \in {"SliceGroupMap", "Image", "EncCoded"} -> Nothing
    [] OTHER -> Raw(e)

va_TraceVVCBuf(e) ==
  CASE e.type = "PictureParameter" -> va_TraceVAPictureParameterBufferVVC
    [] e.type = "SliceParameter" -> va_TraceVASliceParameterBufferVVC
    [] e.type = "IQMatrix" -> va_TraceVAScalingListBufferVVC
    [] e.type = "Alf" -> va_TraceVAAlfBufferVVC
    [] e.type = "Lmcs" -> va_TraceVALmcsBufferVVC
    [] e.type = "SubPic" -> va_TraceVASubPicBufferVVC
    [] e.type = "Tile" -> va_TraceVATileBufferVVC
    [] e.type = "SliceStruct" -> va_TraceVASliceStructBufferVVC
    [] OTHER -> Raw(e)

va_TraceHEVCBuf(profile, e) ==
  CASE e.type = "PictureParameter" ->
         va_TraceVAPictureParameterBufferHEVC(profile)
    [] e.type = "SliceParameter" ->
         va_TraceVASliceParameterBufferHEVC(profile, e)
    [] e.type = "IQMatrix" -> va_TraceVAIQMatrixBufferHEVC
    [] e.type = "EncSequenceParameter" ->
         va_TraceVAEncSequenceParameterBufferHEVC
    [] e.type = "EncPictureParameter" ->
         va_TraceVAEncPictureParameterBufferHEVC
    [] e.type = "EncSliceParameter" -> va_TraceVAEncSliceParameterBufferHEVC
    [] e.type = "EncMiscParameter" -> va_TraceVAEncMiscParameterBuffer(e)
    [] e.type = "EncryptionParameter" -> va_TraceVAEncryptionParameters(e)
    [] OTHER -> Raw(e)

va_TraceH264Buf(e, slice_size) ==
  CASE e.type = "PictureParameter" -> va_TraceVAPictureParameterBufferH264
    [] e.type = "IQMatrix" -> va_TraceVAIQMatrixBufferH264
    [] e.type = "SliceParameter" -> va_TraceVASliceParameterBufferH264(e)
    [] e.type = "SliceData" -> va_TraceVABuffers(e, slice_size)
    [] e.type = "EncSequenceParameter" ->
         va_TraceVAEncSequenceParameterBufferH264(e)
    [] e.type = "EncPictureParameter" ->
         va_TraceVAEncPictureParameterBufferH264
    [] e.type = "EncSliceParameter" /\ e.kind = "generic" ->
         va_TraceVAEncSliceParameterBuffer
    [] e.type = "EncSliceParameter" /\ e.kind # "generic" ->
         va_TraceVAEncSliceParameterBufferH264(e)
    [] e.type = "EncPackedHeaderParameter" ->
         va_TraceVAEncPackedHeaderParameterBufferType
    [] e.type = "EncMiscParameter" -> va_TraceVAEncMiscParameterBuffer(e)
    [] e.type = "EncryptionParameter" -> va_TraceVAEncryptionParameters(e)
    [] e.type \in {"Image", "EncCoded"} -> Nothing
    [] OTHER -> Raw(e)

va_TraceVP8Buf(e) ==
  CASE e.type = "PictureParameter" -> va_TraceVAPictureParameterBufferVP8
    [] e.type = "IQMatrix" -> va_TraceVAIQMatrixBufferVP8
    [] e.type = "SliceParameter" -> va_TraceVASliceParameterBufferVP8
    [] e.type = "Probability" -> va_TraceVAProbabilityBufferVP8
    [] e.type = "EncSequenceParameter" ->
         va_TraceVAEncSequenceParameterBufferVP8
    [] e.type = "EncPictureParameter" ->
         va_TraceVAEncPictureParameterBufferVP8
    [] e.type = "EncMiscParameter" -> va_TraceVAEncMiscParameterBuffer(e)
    [] e.type \in {"QMatrix", "BitPlane", "SliceGroupMap", "SliceData",
                   "MacroblockParameter", "ResidualData",
                   "DeblockingParameter", "Image", "ProtectedSliceData",
                   "EncCoded", "EncSliceParameter",
                   "EncPackedHeaderParameter"} -> Nothing
    [] OTHER -> Raw(e)

va_TraceVP9Buf(e) ==
  CASE e.type = "PictureParameter" -> va_TraceVAPictureParameterBufferVP9
    [] e.type = "EncSequenceParameter" ->
         va_TraceVAEncSequenceParameterBufferVP9
    [] e.type = "EncPictureParameter" ->
         va_TraceVAEncPictureParameterBufferVP9
    [] e.type = "SliceParameter" -> va_TraceVASliceParameterBufferVP9
    [] e.type = "EncMiscParameter" -> va_TraceVAEncMiscParameterBuffer(e)
    [] e.type = "EncryptionParameter" -> va_TraceVAEncryptionParameters(e)
    [] OTHER -> Raw(e)

va_TraceAV1Buf(e) ==
  CASE e.type = "PictureParameter" -> va_TraceVAPictureParameterBufferAV1(e)
    [] e.type = "SliceParameter" -> va_TraceVASliceParameterBufferAV1
    [] e.type = "EncSequenceParameter" ->
         va_TraceVAEncSequenceParameterBufferAV1
    [] e.type = "EncPictureParameter" ->
         va_TraceVAEncPictureParameterBufferAV1
    [] e.type = "EncSliceParameter" -> va_TraceVAEncSliceParameterBufferAV1
    [] e.type = "EncMiscParameter" -> va_TraceVAEncMiscParameterBuffer(e)
    [] e.type = "EncPackedHeaderParameter" ->
         va_TraceVAEncPackedHeaderParameterBufferType
    [] e.type = "EncryptionParameter" -> va_TraceVAEncryptionParameters(e)
    [] OTHER -> Raw(e)

va_TraceVC1Buf(e, slice_size) ==
  CASE e.type = "PictureParameter" -> va_TraceVAPictureParameterBufferVC1
    [] e.type = "SliceParameter" -> va_TraceVASliceParameterBufferVC1
    [] e.type = "SliceData" -> va_TraceVABuffers(e, slice_size)
    [] e.type \in {"IQMatrix", "Image", "EncCoded"} -> Nothing
    [] OTHER -> Raw(e)

va_TraceNoneBuf(e) ==
  IF e.type = "ProcPipelineParameter"
  THEN va_TraceVAProcPipelineParameterBuffer(e)
       \o va_TraceProcFilterParameterBuffer(e)
  ELSE Raw(e)

(* The codec of a profile, as the switch of va_TraceRenderPicture groups   *)
(* them; the profiles it has no case for are in none of the sets.          *)
Codec == [
  MPEG2 |-> {"MPEG2Simple", "MPEG2Main"},
  MPEG4 |-> {"MPEG4Simple", "MPEG4AdvancedSimple", "MPEG4Main"},
  H264  |-> {"H264High10", "H264High422", "H264Main", "H264High",
             "H264ConstrainedBaseline"},
  VC1   |-> {"VC1Simple", "VC1Main", "VC1Advanced"},
  H263  |-> {"H263Baseline"},
  JPEG  |-> {"JPEGBaseline"},
  None  |-> {"None"},
  VP8   |-> {"VP8Version0_3"},
  HEVC  |-> {"HEVCMain", "HEVCMain10", "HEVCMain12", "HEVCMain422_10",
             "HEVCMain422_12", "HEVCMain444", "HEVCMain444_10",
             "HEVCMain444_12", "HEVCSccMain", "HEVCSccMain10",
             "HEVCSccMain444", "HEVCSccMain444_10"},
  VVC   |-> {"VVCMain10", "VVCMultilayerMain10"},
  VP9   |-> {"VP9Profile0", "VP9Profile1", "VP9Profile2", "VP9Profile3"},
  AV1   |-> {"AV1Profile0", "AV1Profile1", "AV1Profile2"}]

(* va_TraceRenderPicture: what one element of a buffer is printed as.      *)
TraceElement(profile, e, slice_size) ==
  CASE profile \in Codec.MPEG2 -> va_TraceMPEG2Buf(e)
    [] profile \in Codec.MPEG4 -> va_TraceMPEG4Buf(e)
    [] profile \in Codec.H264  -> va_TraceH264Buf(e, slice_size)
    [] profile \in Codec.VC1   -> va_TraceVC1Buf(e, slice_size)
    [] profile \in Codec.H263  -> va_TraceH263Buf(e)
    [] profile \in Codec.JPEG  -> va_TraceJPEGBuf(e)
    [] profile \in Codec.None  -> va_TraceNoneBuf(e)
    [] profile \in Codec.VP8   -> va_TraceVP8Buf(e)
    [] profile \in Codec.HEVC  -> va_TraceHEVCBuf(profile, e)
    [] profile \in Codec.VVC   -> va_TraceVVCBuf(e)
    [] profile \in Codec.VP9   -> va_TraceVP9Buf(e)
    [] profile \in Codec.AV1   -> va_TraceAV1Buf(e)
    [] OTHER -> Nothing
=============================================================================
