------------------------------ MODULE CdmCalls ------------------------------
(***************************************************************************)
(* What each call of the C interface (client/open_cdm.cpp,                  *)
(* client/open_cdm_ext.cpp) returns, through its three layers: the C        *)
(* function, the client's object (OpenCDMAccessor and OpenCDMSession,       *)
(* open_cdm_impl.h) and the server's (AccessorOCDM and                      *)
(* SessionImplementation, FrameworkRPC.cpp).  A call has the name of the    *)
(* method of IAccessorOCDM or ISession it is passed on to.                  *)
(*                                                                         *)
(* Results: "NONE" is ERROR_NONE, which is OCDM_SUCCESS and zero; "FALSE"   *)
(* is OCDM_S_FALSE, ERROR_UNKNOWN and one; "value" is a number or a text of *)
(* the CDM; "zero", "empty" are what stands for one when there is none.     *)
(* Null arguments are left out: each function refuses them.                 *)
(***************************************************************************)

-----------------------------------------------------------------------------
(* The calls, by the way the client's accessor reaches the server. *)

\* Reconnect() is called whatever _remote is.
Asking == {"IsTypeSupported"}

\* Reconnect() is called if _remote is null.
Reviving == {"Metadata", "CreateMovieSession", "DestroyMovieSession",
             "GenerateChallengeWithVersionList", "DestroyServerExchange",
             "InitLibrary", "ProcessLicense", "DestroyCryptor"}

\* Never reconnects.
SecureStops == {"EnableSecureStop", "GetSecureStopIds", "GetSecureStop", "CommitSecureStop"}
Stores == {"DeleteKeyStore", "DeleteSecureStore", "GetKeyStoreHash", "GetSecureStoreHash"}
Numbers == {"GetDrmSystemTime", "GetLdlSessionLimit", "ResetSecureStops"}
Extended == SecureStops \cup Stores \cup Numbers \cup {"GetVersionExt", "IsSecureStopEnabled"}
Simple == {"Metricdata", "GetSupportedRobustness", "CreateSession", "SetServerCertificate"}

AccessorCalls == Asking \cup Reviving \cup Extended \cup Simple

\* A call on the session's own proxy: the first have a result, the others none.
Judged == {"Load", "Remove", "SessionMetricdata"}
Unjudged == {"Update", "SetParameter", "ResetOutputProtection", "Close"}

\* A call on the session's second interface, which the client obtained with it; a
\* session of a CDM without that interface has none, and no such call can be made.
SessionExts == {"SetDrmHeader", "GetChallengeDataExt", "CancelChallengeDataExt",
                "StoreLicenseData", "SelectKeyId", "CleanDecryptContext"}

SessionCalls == Judged \cup Unjudged \cup SessionExts

Calls == AccessorCalls \cup SessionCalls

-----------------------------------------------------------------------------
(* The server. *)

\* The interface of the key system, or of the session, that carries the call out.
Interface(call) ==
  CASE call \in Extended -> "IMediaKeysExt"
    [] call = "Metricdata" -> "IMediaSystemMetrics"
    [] call = "GetSupportedRobustness" -> "IRobustnessExtension"
    [] call = "SessionMetricdata" -> "IMediaSessionMetrics"
    [] call \in SessionExts -> "IMediaKeySessionExt"
    [] OTHER -> "IMediaKeys"

\* AccessorOCDM without such a key system: KeySystem() returned null, and a
\* dynamic_cast of null is null.
NoSystem(call) ==
  CASE call = "IsTypeSupported" -> "false"
    [] call \in {"Metadata", "Metricdata"} -> "KEYSYSTEM_NOT_SUPPORTED"
    [] call = "GetSupportedRobustness" -> "INTERFACE_NOT_IMPLEMENTED"
    [] call \in {"GetLdlSessionLimit", "ResetSecureStops"} -> "zero"
    [] call = "GetVersionExt" -> "empty"
    [] call = "IsSecureStopEnabled" -> "false"
    [] OTHER -> "FALSE"   \* GetDrmSystemTime too: a time of one

\* The key system is there, and not the interface.
NoInterface(call) ==
  IF call \in {"Metricdata", "GetSupportedRobustness", "SessionMetricdata"}
  THEN "INTERFACE_NOT_IMPLEMENTED" ELSE NoSystem(call)

\* A CDM's refusal: passed on, except where the server replaces it.
Refused(call) ==
  IF call \in (Reviving \ {"Metadata"}) \cup {"CreateSession"} THEN "FALSE" ELSE "FAIL"

\* What a CDM that has the call may answer.  IsTypeSupported and Metadata do not
\* ask it whether they may.
CdmAnswers(call) ==
  CASE call = "IsTypeSupported" -> {"true", "false"}  \* the blacklist has its say
    [] call = "IsSecureStopEnabled" -> {"true", "false"}
    [] call = "Metadata" -> {"NONE"}
    [] call \in Numbers \cup {"GetVersionExt"} -> {"value"}
    [] call \in Unjudged -> {"void"}
    [] OTHER -> {"NONE", Refused(call)}

-----------------------------------------------------------------------------
(* The client. *)

\* OpenCDMAccessor without a remote, OpenCDMSession without a session.
Unreached(call) ==
  CASE call = "IsTypeSupported" -> "false"
    [] call \in Reviving -> "FALSE"
    [] call \in Numbers -> "zero"
    [] call = "GetVersionExt" -> "empty"
    [] call = "IsSecureStopEnabled" -> "false"
    [] call \in Judged -> "FALSE"
    [] call \in Unjudged -> "void"
    [] OTHER -> "INVALID_ACCESSOR"

\* Mutant: the C function forgets what the accessor said.
CResult_Forgets(call, answer) ==
  CASE call = "IsTypeSupported" -> IF answer = "true" THEN "NONE" ELSE "KEYSYSTEM_NOT_SUPPORTED"
    [] call \in {"GetVersionExt", "GetLdlSessionLimit", "GetDrmSystemTime", "CreateSession",
                 "Remove"} \cup Unjudged -> "NONE"
    [] call = "IsSecureStopEnabled" -> IF answer = "true" THEN "FALSE" ELSE "NONE"
    [] call = "ResetSecureStops" -> IF answer = "zero" THEN "NONE" ELSE answer
    [] OTHER -> answer

\* The result of the C function: of some calls it is ERROR_NONE whatever came
\* back, of others the answer is converted.  opencdm_construct_session returns
\* the object it made, with or without a session of the server.
CResult(call, answer) ==
  CASE call = "IsTypeSupported" -> IF answer = "true" THEN "NONE" ELSE "KEYSYSTEM_NOT_SUPPORTED"
    [] call \in {"GetVersionExt", "GetLdlSessionLimit", "GetDrmSystemTime", "CreateSession"}
                  \cup Unjudged -> "NONE"
    [] call = "IsSecureStopEnabled" -> IF answer = "true" THEN "FALSE" ELSE "NONE"
    [] call = "ResetSecureStops" -> IF answer = "zero" THEN "NONE" ELSE answer
    [] OTHER -> answer

=============================================================================
