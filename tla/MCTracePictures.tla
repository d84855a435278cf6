--------------------------- MODULE MCTracePictures ---------------------------
(* Every profile va.h names; what an HEVC, H.264 or JPEG element may count. *)
EXTENDS TracePictures

AllProfiles == UNION {Codec[c] : c \in DOMAIN Codec}
               \cup {"H264MultiviewHigh", "H264StereoHigh", "Protected"}
=============================================================================
