----------------------------- MODULE RtspOptions -----------------------------
(***************************************************************************)
(* The mask sess->cmdstats over the life of a session: filled by the reply *)
(* to the first OPTIONS, asked before every keep-alive, and added to again *)
(* by every keep-alive that falls back to OPTIONS, because                 *)
(* ParseOptionsPublic adds keys and nothing clears the mask.               *)
(***************************************************************************)
EXTENDS RtspCommands

CONSTANT Width      \* values of the mask: 2^w for a w-bit integer

\* The keys of all names together fit the mask.
ASSUME WidthAssumption == Width \in Nat /\ Width >= 1024

VARIABLES public,   \* the names the server announces
          cmdstats, \* the mask
          parsed    \* Public headers parsed so far: "none", "once", "more"

maskVars == <<public, cmdstats, parsed>>

MaskTypeOK ==
  /\ public \in SUBSET Names
  /\ cmdstats \in 0 .. Width - 1
  /\ parsed \in {"none", "once", "more"}

MaskInit ==
  /\ public \in SUBSET Names
  /\ cmdstats = 0
  /\ parsed = "none"

GetParameterSupported ==
  RtspCommandIsSupported(gcmdtbl["GET_PARAMETER"], cmdstats)

\* An OPTIONS reply with a Public header is parsed.
Parse ==
  /\ cmdstats' = ParseOptionsPublic(cmdstats, public, Width)
  /\ parsed' = IF parsed = "none" THEN "once" ELSE "more"
  /\ UNCHANGED public

\* The first OPTIONS of the session.
FirstOptions == parsed = "none" /\ Parse

\* A keep-alive sent as OPTIONS whether or not GET_PARAMETER is supported.
KeepAliveOptionsAlways == Parse

\* A keep-alive falls back to OPTIONS only without GET_PARAMETER.
KeepAliveOptions == ~GetParameterSupported /\ Parse

MaskNext == FirstOptions \/ KeepAliveOptions

MaskSpec == MaskInit /\ [][MaskNext]_maskVars

\* After one OPTIONS reply the mask answers exactly what the server announced,
\* for every method but OPTIONS itself: the keys are distinct powers of two
\* and their sum loses none of them (gcmdtbl, ParseOptionsPublic,
\* RtspCommandIsSupported).  A name that begins with one of the table adds that
\* one's key a second time, and nothing is promised then.
FirstReplyExact ==
  parsed = "once" /\ "PLAY_NOTIFY" \notin public
    => \A m \in Methods \ {"OPTIONS"} :
         RtspCommandIsSupported(gcmdtbl[m], cmdstats) <=> m \in public

\* The announced sets where twice the key of PLAY and the key of PAUSE carry
\* into the bit of GET_PARAMETER.
CarriesIntoGetParameter == {"PLAY", "PLAY_NOTIFY", "PAUSE"} \subseteq public

\* A server that announced GET_PARAMETER gets GET_PARAMETER keep-alives for
\* the rest of the session: the carries of repeated additions, which turn bits
\* of the mask over, never reach it (RtspSendKeepAliveCommand), nor does the one
\* of a name counted twice, unless PAUSE carries it on.
AnnouncedStaysSupported ==
  parsed # "none" /\ "GET_PARAMETER" \in public /\ ~CarriesIntoGetParameter
    => GetParameterSupported
=============================================================================
