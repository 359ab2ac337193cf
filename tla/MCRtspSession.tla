--------------------------- MODULE MCRtspSession ---------------------------
(***************************************************************************)
(* RtspSession on a small instance: two session ids, and three servers, of *)
(* which one announces GET_PARAMETER, one only the methods of the          *)
(* handshake, and one announces nothing.                                   *)
(***************************************************************************)
EXTENDS RtspSession

CONSTANTS s1, s2

MCSids == {s1, s2}

Plain == {"DESCRIBE", "SETUP", "PLAY", "TEARDOWN"}

MCPublics == {{}, Plain, Plain \cup {"GET_PARAMETER"}}

\* Adding keys modulo 64 keeps bits 0 and 5 of the mask exact, and these are
\* all that the keep-alive looks at.
MCCmdMod == 64
=============================================================================
