-------------------------------- MODULE VAApi --------------------------------
(***************************************************************************)
(* The functions of va/va.c as scripts: the steps one call makes, in the   *)
(* order the code makes them.  A step is a record with an `op':            *)
(*   begin, end    a trace event of the call, TRACE_BEGIN or TRACE_END     *)
(*   driver        a call through the driver's vtable                      *)
(*   if            a hook is tested, and one of two scripts is gone on with*)
(*   lock, unlock  context_mutex                                           *)
(* The trace functions that look only into the tables (DPY2TRACECTX) take  *)
(* no lock that is held over a step and are left out here; those that are  *)
(* more than one critical section of context_mutex are in TraceRender.     *)
(***************************************************************************)
EXTENDS Naturals, Sequences

CONSTANTS
  LOG, FTRACE, BUFDATA,      \* the bits of va_trace_flag
  ListLengths                \* how many surfaces or attributes there are in
                             \* the lists an application gives

ASSUME FlagAssumption == {LOG, FTRACE, BUFDATA} \subseteq BOOLEAN
ASSUME LengthAssumption == ListLengths \subseteq Nat

Do(op, arg) == <<[op |-> op, arg |-> arg]>>

va_trace_flag == LOG \/ FTRACE

VA_TRACE_LOG(script) == IF LOG THEN script ELSE << >>
VA_TRACE_ALL(script) == IF va_trace_flag THEN script ELSE << >>

(* An event of va_TraceEvent: a few values are too short to matter, the    *)
(* bytes of a list the application gives may be too many for it.           *)
TraceEvent(op, id, bytes) ==
  IF FTRACE THEN <<[op |-> op, arg |-> id, bytes |-> bytes]>> ELSE << >>
TRACE_BEGIN(id) == TraceEvent("begin", id, 0)
TRACE_END(id)   == TraceEvent("end", id, 0)
TRACE_BEGIN_LIST(id, bytes) == TraceEvent("begin", id, bytes)
TRACE_END_LIST(id, bytes)   == TraceEvent("end", id, bytes)

(* DPY2TRACE_VIRCTX .. DPY2TRACE_VIRCTX_EXIT: printed under the mutex.     *)
DPY2TRACE_VIRCTX == Do("lock", "") \o Do("unlock", "")

va_TraceStatus == DPY2TRACE_VIRCTX
VA_TRACE_RET   == VA_TRACE_ALL(va_TraceStatus)

(* A hook of the driver called as it is, tested first with another script  *)
(* in its place, or needed for the call to go on at all.                   *)
Hook(h) == Do("driver", h)
IfHook(h, then, else) == <<[op |-> "if", arg |-> h, then |-> then, else |-> else]>>
Optional(h)  == IfHook(h, Hook(h), << >>)
Needs(h, script) == IfHook(h, Hook(h) \o script, << >>)

-----------------------------------------------------------------------------
vaQueryConfigProfiles    == Hook("QueryConfigProfiles") \o VA_TRACE_RET
vaQueryConfigEntrypoints == Hook("QueryConfigEntrypoints") \o VA_TRACE_RET
vaGetConfigAttributes    == Hook("GetConfigAttributes") \o VA_TRACE_RET
vaQueryConfigAttributes  == Hook("QueryConfigAttributes") \o VA_TRACE_RET
vaQueryProcessingRate    == Optional("QueryProcessingRate") \o VA_TRACE_RET

va_TraceCreateConfig  == DPY2TRACE_VIRCTX
va_TraceDestroyConfig == DPY2TRACE_VIRCTX

vaCreateConfig(num_attribs) ==
  TRACE_BEGIN_LIST("CREATE_CONFIG", 12 + 8 * num_attribs)
  \o Hook("CreateConfig") \o VA_TRACE_ALL(va_TraceCreateConfig) \o VA_TRACE_RET
  \o TRACE_END("CREATE_CONFIG")

vaDestroyConfig ==
  TRACE_BEGIN("DESTROY_CONFIG") \o Hook("DestroyConfig")
  \o VA_TRACE_ALL(va_TraceDestroyConfig) \o VA_TRACE_RET
  \o TRACE_END("DESTROY_CONFIG")

-----------------------------------------------------------------------------
va_TraceQuerySurfaceAttributes == DPY2TRACE_VIRCTX
va_TraceCreateSurfaces         == DPY2TRACE_VIRCTX
va_TraceDestroySurfaces        == DPY2TRACE_VIRCTX

(* Older drivers: the attributes are put together from three hooks.        *)
va_impl_query_surface_attributes ==
  Needs("GetSurfaceAttributes", Hook("QueryImageFormats"))

vaQuerySurfaceAttributes(num_attribs) ==
  TRACE_BEGIN("QUERY_SURFACE_ATTR")
  \o IfHook("QuerySurfaceAttributes", Hook("QuerySurfaceAttributes"),
            va_impl_query_surface_attributes)
  \o VA_TRACE_LOG(va_TraceQuerySurfaceAttributes) \o VA_TRACE_RET
  \o TRACE_END_LIST("QUERY_SURFACE_ATTR", 4 + 24 * num_attribs)

vaCreateSurfaces(num_surfaces, num_attribs) ==
  TRACE_BEGIN_LIST("CREATE_SURFACE", 16 + 24 * num_attribs)
  \o IfHook("CreateSurfaces2", Hook("CreateSurfaces2"), Hook("CreateSurfaces"))
  \o VA_TRACE_LOG(va_TraceCreateSurfaces) \o VA_TRACE_RET
  \o TRACE_END_LIST("CREATE_SURFACE", 8 + 4 * num_surfaces)

vaDestroySurfaces(num_surfaces) ==
  TRACE_BEGIN_LIST("DESTROY_SURFACE", 4 + 4 * num_surfaces)
  \o VA_TRACE_LOG(va_TraceDestroySurfaces)
  \o Hook("DestroySurfaces") \o VA_TRACE_RET \o TRACE_END("DESTROY_SURFACE")

-----------------------------------------------------------------------------
(* These two hold the mutex over the tables of contexts as well.           *)
va_TraceCreateContext  == DPY2TRACE_VIRCTX
va_TraceDestroyContext == DPY2TRACE_VIRCTX

vaCreateContext(num_render_targets) ==
  TRACE_BEGIN_LIST("CREATE_CONTEXT", 20 + 4 * num_render_targets)
  \o Hook("CreateContext")
  \o VA_TRACE_ALL(va_TraceCreateContext) \o VA_TRACE_RET
  \o TRACE_END("CREATE_CONTEXT")

vaDestroyContext ==
  TRACE_BEGIN("DESTROY_CONTEXT") \o Hook("DestroyContext")
  \o VA_TRACE_ALL(va_TraceDestroyContext) \o VA_TRACE_RET
  \o TRACE_END("DESTROY_CONTEXT")

vaCreateMFContext  == Optional("CreateMFContext") \o VA_TRACE_RET
vaMFAddContext     == Optional("MFAddContext") \o VA_TRACE_RET
vaMFReleaseContext == Optional("MFReleaseContext") \o VA_TRACE_RET
vaMFSubmit         == Optional("MFSubmit") \o VA_TRACE_RET

-----------------------------------------------------------------------------
vaCreateBuffer ==
  TRACE_BEGIN("CREATE_BUFFER") \o Hook("CreateBuffer") \o VA_TRACE_RET
  \o TRACE_END("CREATE_BUFFER")

vaCreateBuffer2        == Needs("CreateBuffer2", VA_TRACE_RET)
vaBufferSetNumElements == Hook("BufferSetNumElements") \o VA_TRACE_RET

vaDestroyBuffer ==
  TRACE_BEGIN("DESTROY_BUFFER") \o Hook("DestroyBuffer") \o VA_TRACE_RET
  \o TRACE_END("DESTROY_BUFFER")

vaBufferInfo == Hook("BufferInfo") \o VA_TRACE_RET

va_TraceExportSurfaceHandle == DPY2TRACE_VIRCTX

vaAcquireBufferHandle == Optional("AcquireBufferHandle") \o VA_TRACE_RET
vaReleaseBufferHandle == Optional("ReleaseBufferHandle") \o VA_TRACE_RET
vaExportSurfaceHandle ==
  Optional("ExportSurfaceHandle")
  \o VA_TRACE_LOG(va_TraceExportSurfaceHandle) \o VA_TRACE_RET

-----------------------------------------------------------------------------
va_TraceSyncSurface        == DPY2TRACE_VIRCTX
va_TraceSyncSurface2       == DPY2TRACE_VIRCTX
va_TraceSyncBuffer         == DPY2TRACE_VIRCTX
va_TraceQuerySurfaceStatus == DPY2TRACE_VIRCTX
va_TraceQuerySurfaceError  == DPY2TRACE_VIRCTX

vaBeginPicture ==
  TRACE_BEGIN("BEGIN_PICTURE") \o Hook("BeginPicture") \o VA_TRACE_RET
  \o TRACE_END("BEGIN_PICTURE")

vaSyncSurface ==
  TRACE_BEGIN("SYNC_SURFACE") \o Hook("SyncSurface")
  \o VA_TRACE_LOG(va_TraceSyncSurface) \o VA_TRACE_RET
  \o TRACE_END("SYNC_SURFACE")

\* Mutants: the hook is not tested; the call returns before its end event.
SyncUntested ==
  TRACE_BEGIN("SYNC_SURFACE2") \o Hook("SyncSurface2")
  \o VA_TRACE_LOG(va_TraceSyncSurface2) \o VA_TRACE_RET
  \o TRACE_END("SYNC_SURFACE2")
SyncEarlyReturn ==
  TRACE_BEGIN("SYNC_SURFACE2")
  \o Needs("SyncSurface2", VA_TRACE_LOG(va_TraceSyncSurface2) \o VA_TRACE_RET
                           \o TRACE_END("SYNC_SURFACE2"))

vaSyncSurface2 ==
  TRACE_BEGIN("SYNC_SURFACE2") \o Optional("SyncSurface2")
  \o VA_TRACE_LOG(va_TraceSyncSurface2) \o VA_TRACE_RET
  \o TRACE_END("SYNC_SURFACE2")

vaQuerySurfaceStatus ==
  Hook("QuerySurfaceStatus") \o VA_TRACE_LOG(va_TraceQuerySurfaceStatus)
  \o VA_TRACE_RET
vaQuerySurfaceError ==
  Hook("QuerySurfaceError") \o VA_TRACE_LOG(va_TraceQuerySurfaceError)
  \o VA_TRACE_RET
vaSyncBuffer ==
  VA_TRACE_LOG(va_TraceSyncBuffer) \o Optional("SyncBuffer") \o VA_TRACE_RET

-----------------------------------------------------------------------------
va_TraceDeriveImage == DPY2TRACE_VIRCTX

vaQueryImageFormats == Hook("QueryImageFormats")
vaCreateImage     == Hook("CreateImage") \o VA_TRACE_RET
vaDestroyImage    == Hook("DestroyImage") \o VA_TRACE_RET
vaSetImagePalette == Hook("SetImagePalette") \o VA_TRACE_RET
vaGetImage        == Hook("GetImage") \o VA_TRACE_RET
vaPutImage        == Hook("PutImage") \o VA_TRACE_RET
vaDeriveImage ==
  Hook("DeriveImage") \o VA_TRACE_LOG(va_TraceDeriveImage) \o VA_TRACE_RET

vaQuerySubpictureFormats   == Hook("QuerySubpictureFormats")
vaCreateSubpicture         == Hook("CreateSubpicture")
vaDestroySubpicture        == Hook("DestroySubpicture")
vaSetSubpictureImage       == Hook("SetSubpictureImage")
vaSetSubpictureChromakey   == Hook("SetSubpictureChromakey")
vaSetSubpictureGlobalAlpha == Hook("SetSubpictureGlobalAlpha")
vaAssociateSubpicture      == Hook("AssociateSubpicture")
vaDeassociateSubpicture    == Hook("DeassociateSubpicture")

-----------------------------------------------------------------------------
va_TraceMaxNumDisplayAttributes == DPY2TRACE_VIRCTX
va_TraceQueryDisplayAttributes  == DPY2TRACE_VIRCTX
va_TraceGetDisplayAttributes    == DPY2TRACE_VIRCTX
va_TraceSetDisplayAttributes    == DPY2TRACE_VIRCTX
va_TracePutSurface              == DPY2TRACE_VIRCTX

vaMaxNumDisplayAttributes == VA_TRACE_LOG(va_TraceMaxNumDisplayAttributes)
vaQueryDisplayAttributes ==
  Hook("QueryDisplayAttributes")
  \o VA_TRACE_LOG(va_TraceQueryDisplayAttributes) \o VA_TRACE_RET
vaGetDisplayAttributes ==
  Hook("GetDisplayAttributes")
  \o VA_TRACE_LOG(va_TraceGetDisplayAttributes) \o VA_TRACE_RET
vaSetDisplayAttributes ==
  Hook("SetDisplayAttributes")
  \o VA_TRACE_LOG(va_TraceSetDisplayAttributes) \o VA_TRACE_RET

vaPutSurface ==
  VA_TRACE_LOG(va_TracePutSurface) \o Hook("PutSurface") \o VA_TRACE_RET
vaLockSurface   == Hook("LockSurface") \o VA_TRACE_RET
vaUnlockSurface == Hook("UnlockSurface") \o VA_TRACE_RET
vaCopy          == Optional("Copy")

-----------------------------------------------------------------------------
(* VA_VPP_INVOKE and VA_PROT_INVOKE: without the hook nothing is traced.   *)
va_TraceCreateProtectedSession  == DPY2TRACE_VIRCTX
va_TraceDestroyProtectedSession == DPY2TRACE_VIRCTX
va_TraceAttachProtectedSession  == DPY2TRACE_VIRCTX
va_TraceDetachProtectedSession  == DPY2TRACE_VIRCTX

vaQueryVideoProcFilters    == Needs("QueryVideoProcFilters", VA_TRACE_RET)
vaQueryVideoProcFilterCaps == Needs("QueryVideoProcFilterCaps", VA_TRACE_RET)
vaQueryVideoProcPipelineCaps ==
  Needs("QueryVideoProcPipelineCaps", VA_TRACE_RET)
vaCreateProtectedSession ==
  Needs("CreateProtectedSession",
        VA_TRACE_LOG(va_TraceCreateProtectedSession) \o VA_TRACE_RET)
vaDestroyProtectedSession ==
  Needs("DestroyProtectedSession",
        VA_TRACE_LOG(va_TraceDestroyProtectedSession) \o VA_TRACE_RET)
vaAttachProtectedSession ==
  Needs("AttachProtectedSession",
        VA_TRACE_LOG(va_TraceAttachProtectedSession) \o VA_TRACE_RET)
vaDetachProtectedSession ==
  Needs("DetachProtectedSession",
        VA_TRACE_LOG(va_TraceDetachProtectedSession) \o VA_TRACE_RET)

-----------------------------------------------------------------------------
(* va_openDriver refuses a driver without these hooks.                     *)
CHECK_VTABLE == {
  "Terminate", "QueryConfigProfiles", "QueryConfigEntrypoints",
  "QueryConfigAttributes", "CreateConfig", "DestroyConfig",
  "GetConfigAttributes", "CreateSurfaces", "DestroySurfaces",
  "CreateContext", "DestroyContext", "CreateBuffer", "BufferSetNumElements",
  "MapBuffer", "UnmapBuffer", "DestroyBuffer", "BeginPicture",
  "RenderPicture", "EndPicture", "SyncSurface", "QuerySurfaceStatus",
  "QueryImageFormats", "CreateImage", "DeriveImage", "DestroyImage",
  "SetImagePalette", "GetImage", "PutImage", "QuerySubpictureFormats",
  "CreateSubpicture", "DestroySubpicture", "SetSubpictureImage",
  "SetSubpictureChromakey", "SetSubpictureGlobalAlpha",
  "AssociateSubpicture", "DeassociateSubpicture", "QueryDisplayAttributes",
  "GetDisplayAttributes", "SetDisplayAttributes"}

(* Hooks that are neither checked when the driver is opened nor tested     *)
(* before they are called: the process dies when the driver lacks one.     *)
Unchecked == {"BufferInfo", "QuerySurfaceError", "LockSurface",
              "UnlockSurface", "PutSurface"}

(* Hooks a driver may leave out.                                           *)
OptionalHooks == {
  "QueryProcessingRate", "GetSurfaceAttributes", "QuerySurfaceAttributes",
  "CreateSurfaces2", "CreateMFContext", "MFAddContext", "MFReleaseContext",
  "MFSubmit", "CreateBuffer2", "MapBuffer2", "AcquireBufferHandle",
  "ReleaseBufferHandle", "ExportSurfaceHandle", "SyncSurface2", "SyncBuffer",
  "Copy", "QueryVideoProcFilters", "QueryVideoProcFilterCaps",
  "QueryVideoProcPipelineCaps", "CreateProtectedSession",
  "DestroyProtectedSession", "AttachProtectedSession",
  "DetachProtectedSession", "ProtectedSessionExecute"}

(* The calls that are given a list which may be long.                      *)
ListCalls ==
  (UNION {{vaCreateConfig(n), vaQuerySurfaceAttributes(n), vaDestroySurfaces(n),
           vaCreateContext(n)} : n \in ListLengths})
  \cup {vaCreateSurfaces(n, m) : n \in ListLengths, m \in ListLengths}

(* Every other call that TraceRender does not take apart.                  *)
PlainCalls == {
  vaQueryConfigProfiles, vaQueryConfigEntrypoints, vaGetConfigAttributes,
  vaQueryConfigAttributes, vaQueryProcessingRate, vaDestroyConfig,
  vaDestroyContext, vaCreateMFContext,
  vaMFAddContext, vaMFReleaseContext, vaMFSubmit, vaCreateBuffer,
  vaCreateBuffer2, vaBufferSetNumElements, vaDestroyBuffer, vaBufferInfo,
  vaAcquireBufferHandle, vaReleaseBufferHandle, vaExportSurfaceHandle,
  vaBeginPicture, vaSyncSurface, vaSyncSurface2, vaQuerySurfaceStatus,
  vaQuerySurfaceError, vaSyncBuffer, vaQueryImageFormats, vaCreateImage,
  vaDestroyImage, vaSetImagePalette, vaGetImage, vaPutImage, vaDeriveImage,
  vaQuerySubpictureFormats, vaCreateSubpicture, vaDestroySubpicture,
  vaSetSubpictureImage, vaSetSubpictureChromakey, vaSetSubpictureGlobalAlpha,
  vaAssociateSubpicture, vaDeassociateSubpicture, vaMaxNumDisplayAttributes,
  vaQueryDisplayAttributes, vaGetDisplayAttributes, vaSetDisplayAttributes,
  vaPutSurface, vaLockSurface, vaUnlockSurface, vaCopy,
  vaQueryVideoProcFilters, vaQueryVideoProcFilterCaps,
  vaQueryVideoProcPipelineCaps, vaCreateProtectedSession,
  vaDestroyProtectedSession, vaAttachProtectedSession,
  vaDetachProtectedSession}
=============================================================================
