-------------------------- MODULE MCClientChannel --------------------------
(* Two key systems, one with a CDM that has the extended interfaces and lacks *)
(* the metrics, one session; the server is started up to three times.        *)
EXTENDS ClientChannel, TLC

CONSTANTS playready, other, o1

MCSystems == {playready, other}
MCOffered == (playready :> {"IMediaKeys", "IMediaKeysExt", "IMediaKeySessionExt"})
=============================================================================
