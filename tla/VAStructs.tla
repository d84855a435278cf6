------------------------------ MODULE VAStructs ------------------------------
(***************************************************************************)
(* The buffers of the VA API as the headers declare them: for each struct  *)
(* the arrays it has, with their dimensions; the scalars are left out.     *)
(* Structs nested in another are named by their arrays.  An array behind a *)
(* pointer is as long as the element e says (e.count).  The va_Trace       *)
(* functions cast every buffer to one of these (module TracePrinters).     *)
(***************************************************************************)
EXTENDS Naturals, Sequences, TLC

Struct(name, arrays) == [name |-> name, arrays |-> arrays]
Scalars == << >>

(* The arrays of a struct and those of a struct nested in it.              *)
Nests(outer, inner) ==
  [a \in DOMAIN outer \cup DOMAIN inner |->
     IF a \in DOMAIN outer THEN outer[a] ELSE inner[a]]

-----------------------------------------------------------------------------
VAPictureParameterBufferMPEG2 ==
  Struct("VAPictureParameterBufferMPEG2", Scalars)
VAIQMatrixBufferMPEG2 ==
  Struct("VAIQMatrixBufferMPEG2",
    [intra_quantiser_matrix |-> <<64>>, non_intra_quantiser_matrix |-> <<64>>,
     chroma_intra_quantiser_matrix |-> <<64>>,
     chroma_non_intra_quantiser_matrix |-> <<64>>])
VASliceParameterBufferMPEG2 == Struct("VASliceParameterBufferMPEG2", Scalars)
VAPictureParameterBufferJPEGBaseline ==
  Struct("VAPictureParameterBufferJPEGBaseline", [components |-> <<255>>])
VAIQMatrixBufferJPEGBaseline ==
  Struct("VAIQMatrixBufferJPEGBaseline",
    [load_quantiser_table |-> <<4>>, quantiser_table |-> <<4, 64>>])
VASliceParameterBufferJPEGBaseline ==
  Struct("VASliceParameterBufferJPEGBaseline", [components |-> <<4>>])
VAHuffmanTableBufferJPEGBaseline ==
  Struct("VAHuffmanTableBufferJPEGBaseline",
    [load_huffman_table |-> <<2>>, num_dc_codes |-> <<16>>,
     dc_values |-> <<12>>, num_ac_codes |-> <<16>>, ac_values |-> <<162>>,
     pad |-> <<2>>, huffman_table |-> <<2>>])
VAPictureParameterBufferMPEG4 ==
  Struct("VAPictureParameterBufferMPEG4",
    [sprite_trajectory_du |-> <<3>>, sprite_trajectory_dv |-> <<3>>])
VAIQMatrixBufferMPEG4 ==
  Struct("VAIQMatrixBufferMPEG4",
    [intra_quant_mat |-> <<64>>, non_intra_quant_mat |-> <<64>>])
VAEncSequenceParameterBufferMPEG2 ==
  Struct("VAEncSequenceParameterBufferMPEG2", Scalars)
VAEncSequenceParameterBufferMPEG4 ==
  Struct("VAEncSequenceParameterBufferMPEG4", Scalars)
VAEncPictureParameterBufferMPEG4 ==
  Struct("VAEncPictureParameterBufferMPEG4", Scalars)
VASliceParameterBufferMPEG4 == Struct("VASliceParameterBufferMPEG4", Scalars)
VAPictureParameterBufferVVC ==
  Struct("VAPictureParameterBufferVVC",
    [ReferenceFrames |-> <<15>>, ChromaQpTable |-> <<3, 111>>,
     sps_ladf_qp_offset |-> <<4>>, sps_ladf_delta_threshold_minus1 |-> <<4>>,
     reserved32b01 |-> <<2>>, VirtualBoundaryPosX |-> <<3>>,
     VirtualBoundaryPosY |-> <<3>>, pps_cb_qp_offset_list |-> <<6>>,
     pps_cr_qp_offset_list |-> <<6>>, pps_joint_cbcr_qp_offset_list |-> <<6>>,
     reserved32b02 |-> <<2>>, reserved32b03 |-> <<2>>, reserved32b |-> <<17>>])
VAWeightedPredInfo == [luma_weight_l0_flag |-> <<15>>,
                       chroma_weight_l0_flag |-> <<15>>,
                       delta_luma_weight_l0 |-> <<15>>,
                       luma_offset_l0 |-> <<15>>,
                       delta_chroma_weight_l0 |-> <<15, 2>>,
                       delta_chroma_offset_l0 |-> <<15, 2>>,
                       luma_weight_l1_flag |-> <<15>>,
                       chroma_weight_l1_flag |-> <<15>>,
                       delta_luma_weight_l1 |-> <<15>>,
                       luma_offset_l1 |-> <<15>>,
                       delta_chroma_weight_l1 |-> <<15, 2>>,
                       delta_chroma_offset_l1 |-> <<15, 2>>]
VASliceParameterBufferVVC ==
  Struct("VASliceParameterBufferVVC",
    Nests([RefPicList |-> <<2, 15>>, sh_alf_aps_id_luma |-> <<7>>,
           NumRefIdxActive |-> <<2>>, reserved8b |-> <<3>>],
          VAWeightedPredInfo))
VAScalingListVVC == Struct("VAScalingListVVC",
  [ScalingMatrixDCRec |-> <<14>>, ScalingMatrixRec2x2 |-> <<2, 2, 2>>,
   ScalingMatrixRec4x4 |-> <<6, 4, 4>>, ScalingMatrixRec8x8 |-> <<20, 8, 8>>,
   va_reserved |-> <<8>>])
VAAlfDataVVC == Struct("VAAlfDataVVC",
  [alf_luma_coeff_delta_idx |-> <<25>>, filtCoeff |-> <<25, 12>>,
   alf_luma_clip_idx |-> <<25, 12>>, AlfCoeffC |-> <<8, 6>>,
   alf_chroma_clip_idx |-> <<8, 6>>, CcAlfApsCoeffCb |-> <<4, 7>>,
   CcAlfApsCoeffCr |-> <<4, 7>>, va_reserved |-> <<8>>])
VALmcsDataVVC == Struct("VALmcsDataVVC",
  [lmcsDeltaCW |-> <<16>>, reserved8b |-> <<3>>, va_reserved |-> <<8>>])
VASubPicVVC == Struct("VASubPicVVC",
  [va_reserved |-> <<4>>])
VASliceStructVVC == Struct("VASliceStructVVC",
  [va_reserved |-> <<4>>])
VAPictureParameterBufferHEVC ==
  Struct("VAPictureParameterBufferHEVC",
    [ReferenceFrames |-> <<15>>, column_width_minus1 |-> <<19>>,
     row_height_minus1 |-> <<21>>])
VAPictureParameterBufferHEVCRext ==
  Struct("VAPictureParameterBufferHEVCRext",
    [cb_qp_offset_list |-> <<6>>, cr_qp_offset_list |-> <<6>>])
VAPictureParameterBufferHEVCScc ==
  Struct("VAPictureParameterBufferHEVCScc",
    [predictor_palette_entries |-> <<3, 128>>])
VASliceParameterBufferHEVC ==
  Struct("VASliceParameterBufferHEVC",
    [RefPicList |-> <<2, 15>>, delta_luma_weight_l0 |-> <<15>>,
     luma_offset_l0 |-> <<15>>, delta_chroma_weight_l0 |-> <<15, 2>>,
     ChromaOffsetL0 |-> <<15, 2>>, delta_luma_weight_l1 |-> <<15>>,
     luma_offset_l1 |-> <<15>>, delta_chroma_weight_l1 |-> <<15, 2>>,
     ChromaOffsetL1 |-> <<15, 2>>])
VASliceParameterBufferHEVCRext ==
  Struct("VASliceParameterBufferHEVCRext",
    [luma_offset_l0 |-> <<15>>, ChromaOffsetL0 |-> <<15, 2>>,
     luma_offset_l1 |-> <<15>>, ChromaOffsetL1 |-> <<15, 2>>])
VAIQMatrixBufferHEVC ==
  Struct("VAIQMatrixBufferHEVC",
    [ScalingList4x4 |-> <<6, 16>>, ScalingList8x8 |-> <<6, 64>>,
     ScalingList16x16 |-> <<6, 64>>, ScalingList32x32 |-> <<2, 64>>,
     ScalingListDC16x16 |-> <<6>>, ScalingListDC32x32 |-> <<2>>])
VAEncSequenceParameterBufferHEVC ==
  Struct("VAEncSequenceParameterBufferHEVC", Scalars)
VAEncPictureParameterBufferHEVC ==
  Struct("VAEncPictureParameterBufferHEVC",
    [reference_frames |-> <<15>>, column_width_minus1 |-> <<19>>,
     row_height_minus1 |-> <<21>>])
VAEncSliceParameterBufferHEVC ==
  Struct("VAEncSliceParameterBufferHEVC",
    [ref_pic_list0 |-> <<15>>, ref_pic_list1 |-> <<15>>,
     delta_luma_weight_l0 |-> <<15>>, luma_offset_l0 |-> <<15>>,
     delta_chroma_weight_l0 |-> <<15, 2>>, chroma_offset_l0 |-> <<15, 2>>,
     delta_luma_weight_l1 |-> <<15>>, luma_offset_l1 |-> <<15>>,
     delta_chroma_weight_l1 |-> <<15, 2>>, chroma_offset_l1 |-> <<15, 2>>])
VAPictureParameterBufferH264 ==
  Struct("VAPictureParameterBufferH264", [ReferenceFrames |-> <<16>>])
VASliceParameterBufferH264 ==
  Struct("VASliceParameterBufferH264",
    [RefPicList0 |-> <<32>>, RefPicList1 |-> <<32>>,
     luma_weight_l0 |-> <<32>>, luma_offset_l0 |-> <<32>>,
     chroma_weight_l0 |-> <<32, 2>>, chroma_offset_l0 |-> <<32, 2>>,
     luma_weight_l1 |-> <<32>>, luma_offset_l1 |-> <<32>>,
     chroma_weight_l1 |-> <<32, 2>>, chroma_offset_l1 |-> <<32, 2>>])
VAIQMatrixBufferH264 ==
  Struct("VAIQMatrixBufferH264",
    [ScalingList4x4 |-> <<6, 16>>, ScalingList8x8 |-> <<2, 64>>])
VAEncSequenceParameterBufferH264 ==
  Struct("VAEncSequenceParameterBufferH264",
    [offset_for_ref_frame |-> <<256>>])
VAEncPictureParameterBufferH264 ==
  Struct("VAEncPictureParameterBufferH264", [ReferenceFrames |-> <<16>>])
VAEncSliceParameterBuffer == Struct("VAEncSliceParameterBuffer", Scalars)
VAEncSliceParameterBufferH264 ==
  Struct("VAEncSliceParameterBufferH264",
    [delta_pic_order_cnt |-> <<2>>, RefPicList0 |-> <<32>>,
     RefPicList1 |-> <<32>>, luma_weight_l0 |-> <<32>>,
     luma_offset_l0 |-> <<32>>, chroma_weight_l0 |-> <<32, 2>>,
     chroma_offset_l0 |-> <<32, 2>>, luma_weight_l1 |-> <<32>>,
     luma_offset_l1 |-> <<32>>, chroma_weight_l1 |-> <<32, 2>>,
     chroma_offset_l1 |-> <<32, 2>>])
VAEncPackedHeaderParameterBuffer ==
  Struct("VAEncPackedHeaderParameterBuffer", Scalars)
VAEncryptionParameters(e) ==
  Struct("VAEncryptionParameters",
    [segment_info |-> <<e.count>>, wrapped_decrypt_blob |-> <<64>>,
     wrapped_encrypt_blob |-> <<64>>, aes_cbc_iv_or_ctr |-> <<64>>])
VAEncMiscParameterBuffer == Struct("VAEncMiscParameterBuffer", Scalars)
VAEncMiscParameterFrameRate == Struct("VAEncMiscParameterFrameRate", Scalars)
VAEncMiscParameterRateControl ==
  Struct("VAEncMiscParameterRateControl", Scalars)
VAEncMiscParameterMaxSliceSize ==
  Struct("VAEncMiscParameterMaxSliceSize", Scalars)
VAEncMiscParameterAIR == Struct("VAEncMiscParameterAIR", Scalars)
VAEncMiscParameterHRD == Struct("VAEncMiscParameterHRD", Scalars)
VAEncMiscParameterBufferMaxFrameSize ==
  Struct("VAEncMiscParameterBufferMaxFrameSize", Scalars)
VAEncMiscParameterBufferMultiPassFrameSize(e) ==
  Struct("VAEncMiscParameterBufferMultiPassFrameSize",
    [delta_qp |-> <<e.count>>])
VAEncMiscParameterBufferQualityLevel ==
  Struct("VAEncMiscParameterBufferQualityLevel", Scalars)
VAEncMiscParameterBufferROI(e) ==
  Struct("VAEncMiscParameterBufferROI", [roi |-> <<e.count>>])
VAEncMiscParameterRIR == Struct("VAEncMiscParameterRIR", Scalars)
VAEncMiscParameterEncQuality ==
  Struct("VAEncMiscParameterEncQuality",
    [FTQSkipThresholdLUT |-> <<52>>, NonFTQSkipThresholdLUT |-> <<52>>])
VAEncMiscParameterSkipFrame == Struct("VAEncMiscParameterSkipFrame", Scalars)
VAEncMiscParameterTemporalLayerStructure ==
  Struct("VAEncMiscParameterTemporalLayerStructure", [layer_id |-> <<32>>])
VAPictureParameterBufferVC1 == Struct("VAPictureParameterBufferVC1", Scalars)
VASliceParameterBufferVC1 == Struct("VASliceParameterBufferVC1", Scalars)
VAPictureParameterBufferVP8 ==
  Struct("VAPictureParameterBufferVP8",
    [mb_segment_tree_probs |-> <<3>>, loop_filter_level |-> <<4>>,
     loop_filter_deltas_ref_frame |-> <<4>>,
     loop_filter_deltas_mode |-> <<4>>, y_mode_probs |-> <<4>>,
     uv_mode_probs |-> <<3>>, mv_probs |-> <<2, 19>>])
VASliceParameterBufferVP8 ==
  Struct("VASliceParameterBufferVP8", [partition_size |-> <<9>>])
VAIQMatrixBufferVP8 == Struct("VAIQMatrixBufferVP8",
  [quantization_index |-> <<4, 6>>])
VAProbabilityDataBufferVP8 ==
  Struct("VAProbabilityDataBufferVP8", [dct_coeff_probs |-> <<4, 8, 3, 11>>])
VAEncSequenceParameterBufferVP8 ==
  Struct("VAEncSequenceParameterBufferVP8", [reference_frames |-> <<4>>])
VAEncSequenceParameterBufferVP9 ==
  Struct("VAEncSequenceParameterBufferVP9", Scalars)
VADecPictureParameterBufferVP9 ==
  Struct("VADecPictureParameterBufferVP9",
    [reference_frames |-> <<8>>, mb_segment_tree_probs |-> <<7>>,
     segment_pred_probs |-> <<3>>])
VAEncSequenceParameterBufferAV1 ==
  Struct("VAEncSequenceParameterBufferAV1", Scalars)
VAEncSegParamAV1 == [feature_data |-> <<8, 8>>, feature_mask |-> <<8>>]
VAEncWarpedMotionParamsAV1 == [wmmat |-> <<8>>]
VAEncPictureParameterBufferAV1 ==
  Struct("VAEncPictureParameterBufferAV1",
    Nests([reference_frames |-> <<8>>, ref_frame_idx |-> <<7>>,
           filter_level |-> <<2>>, ref_deltas |-> <<8>>, mode_deltas |-> <<2>>,
           width_in_sbs_minus_1 |-> <<63>>, height_in_sbs_minus_1 |-> <<63>>,
           cdef_y_strengths |-> <<8>>, cdef_uv_strengths |-> <<8>>, wm |-> <<7>>],
          Nests(VAEncSegParamAV1, VAEncWarpedMotionParamsAV1)))
VAEncTileGroupBufferAV1 == Struct("VAEncTileGroupBufferAV1", Scalars)
VASegmentationStructAV1 == [feature_data |-> <<8, 8>>, feature_mask |-> <<8>>]
VAFilmGrainStructAV1 == [point_y_value |-> <<14>>, point_y_scaling |-> <<14>>,
                         point_cb_value |-> <<10>>,
                         point_cb_scaling |-> <<10>>,
                         point_cr_value |-> <<10>>,
                         point_cr_scaling |-> <<10>>, ar_coeffs_y |-> <<24>>,
                         ar_coeffs_cb |-> <<25>>, ar_coeffs_cr |-> <<25>>]
VAWarpedMotionParamsAV1 == [wmmat |-> <<8>>]
VADecPictureParameterBufferAV1(e) ==
  Struct("VADecPictureParameterBufferAV1",
    Nests([anchor_frames_list |-> <<e.count>>, ref_frame_map |-> <<8>>,
           ref_frame_idx |-> <<7>>, width_in_sbs_minus_1 |-> <<63>>,
           height_in_sbs_minus_1 |-> <<63>>, filter_level |-> <<2>>,
           ref_deltas |-> <<8>>, mode_deltas |-> <<2>>,
           cdef_y_strengths |-> <<8>>, cdef_uv_strengths |-> <<8>>, wm |-> <<7>>],
          Nests(VASegmentationStructAV1,
                Nests(VAFilmGrainStructAV1, VAWarpedMotionParamsAV1))))
VAEncPictureParameterBufferVP8 ==
  Struct("VAEncPictureParameterBufferVP8",
    [loop_filter_level |-> <<4>>, ref_lf_delta |-> <<4>>,
     mode_lf_delta |-> <<4>>])
VAEncPictureParameterBufferVP9 ==
  Struct("VAEncPictureParameterBufferVP9",
    [reference_frames |-> <<8>>, ref_lf_delta |-> <<4>>,
     mode_lf_delta |-> <<2>>])
VASegmentParameterVP9 == [filter_level |-> <<4, 2>>]
VASliceParameterBufferVP9 ==
  Struct("VASliceParameterBufferVP9",
    Nests([seg_param |-> <<8>>], VASegmentParameterVP9))
VASliceParameterBufferAV1 == Struct("VASliceParameterBufferAV1", Scalars)
VAEncSequenceParameterBufferH263 ==
  Struct("VAEncSequenceParameterBufferH263", Scalars)
VAEncPictureParameterBufferH263 ==
  Struct("VAEncPictureParameterBufferH263", Scalars)
VAEncPictureParameterBufferJPEG ==
  Struct("VAEncPictureParameterBufferJPEG",
    [component_id |-> <<4>>, quantiser_table_selector |-> <<4>>])
VAQMatrixBufferJPEG == Struct("VAQMatrixBufferJPEG",
  [lum_quantiser_matrix |-> <<64>>, chroma_quantiser_matrix |-> <<64>>])
VAEncSliceParameterBufferJPEG ==
  Struct("VAEncSliceParameterBufferJPEG", [components |-> <<4>>])
VAProcFilterParameterBufferDeinterlacing ==
  Struct("VAProcFilterParameterBufferDeinterlacing", Scalars)
VAProcFilterParameterBufferColorBalance ==
  Struct("VAProcFilterParameterBufferColorBalance", Scalars)
VAProcFilterParameterBufferBase ==
  Struct("VAProcFilterParameterBufferBase", Scalars)
VAProcPipelineParameterBuffer(e) ==
  Struct("VAProcPipelineParameterBuffer",
    [forward_references |-> <<e.count>>, backward_references |-> <<e.count>>,
     additional_outputs |-> <<e.count>>])

(* An element of the tile buffer is one uint16_t; a buffer that is not     *)
(* taken apart is its bytes.                                               *)
VATileBufferVVC == Struct("VATileBufferVVC", Scalars)
Bytes(e) == Struct("Bytes", [data |-> <<e.size>>])
=============================================================================
