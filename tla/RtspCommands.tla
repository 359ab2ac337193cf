---------------------------- MODULE RtspCommands ----------------------------
(***************************************************************************)
(* The two tables of the client and the arithmetic done on them.           *)
(*                                                                         *)
(* rtsp_common.c keeps what a server announces in the Public header of its *)
(* OPTIONS reply as a bit mask, sess->cmdstats, and asks the mask whether  *)
(* GET_PARAMETER may be used as a keep-alive.  rtsp.c keeps the handlers   *)
(* of the session states in a table that RtspStatusMachine walks in order. *)
(***************************************************************************)
EXTENDS Integers, Sequences

\* The method names of gcmdtbl.
Methods == {"OPTIONS", "DESCRIBE", "SETUP", "PLAY", "PAUSE", "GET_PARAMETER",
            "SET_PARAMETER", "REDIRECT", "TEARDOWN"}

\* The keys taken from EN_RTSP_STATUS, where OPTIONS is 1.
KeysOfTheEnum == [OPTIONS |-> 1, DESCRIBE |-> 2, SETUP |-> 4, PLAY |-> 8,
                  PAUSE |-> 16, GET_PARAMETER |-> 32, SET_PARAMETER |-> 64,
                  REDIRECT |-> 128, TEARDOWN |-> 256]

\* Key of every method the table knows; any other name has key 0.
gcmdtbl == [OPTIONS |-> 0, DESCRIBE |-> 2, SETUP |-> 4, PLAY |-> 8,
            PAUSE |-> 16, GET_PARAMETER |-> 32, SET_PARAMETER |-> 64,
            REDIRECT |-> 128, TEARDOWN |-> 256]

\* Names a server may announce: those of the table, one it does not know, and
\* one of RTSP 2.0 that begins with a name of the table.
Names == Methods \cup {"RECORD", "PLAY_NOTIFY"}

\* The name of the table a name begins with: strncmp looks no further than the
\* table's name goes.
Prefix(m) == IF m = "PLAY_NOTIFY" THEN "PLAY" ELSE m

GetCmdTblKey(m) == IF Prefix(m) \in Methods THEN gcmdtbl[Prefix(m)] ELSE 0

\* What one name adds to the mask when the announced set is S.
Adds(m, S) == IF m \in S THEN GetCmdTblKey(m) ELSE 0

\* The walk over the header adds the key of every announced name.
KeySum(S) ==
  Adds("OPTIONS", S) + Adds("DESCRIBE", S) + Adds("SETUP", S)
  + Adds("PLAY", S) + Adds("PAUSE", S) + Adds("GET_PARAMETER", S)
  + Adds("SET_PARAMETER", S) + Adds("REDIRECT", S) + Adds("TEARDOWN", S)
  + Adds("RECORD", S) + Adds("PLAY_NOTIFY", S)

\* cmdstats after a reply that announces S: the keys are added to what the
\* mask already holds, in an integer of the given width.
ParseOptionsPublic(stats, S, width) == (stats + KeySum(S)) % width

\* Bit test of a single-bit key of the table.
BitOf(key, stats) == (stats \div key) % 2 = 1

\* An odd mask, or an odd key, is never supported; key 0 (OPTIONS) never is.
RtspCommandIsSupported(key, stats) ==
  /\ stats % 2 = 0
  /\ key % 2 = 0
  /\ key > 0
  /\ BitOf(key, stats)

\* The table with the SETUP row before the DESCRIBE row.
SetupRowFirst == <<"OPTIONS", "SETUP", "DESCRIBE", "PLAY", "GET_PARAMETER",
                   "TEARDOWN", "KEEPALIVE">>

\* The table RtspStatusMachine walks, by the state each row serves.
rtspcmdhdl == <<"OPTIONS", "DESCRIBE", "SETUP", "PLAY", "GET_PARAMETER",
                "TEARDOWN", "KEEPALIVE">>

Rows == Len(rtspcmdhdl)

\* The values sess->state takes in the code (rtsp.h names four more).
States == {"OPTIONS", "DESCRIBE", "SETUP", "PLAY", "KEEPALIVE", "TEARDOWN",
           "QUIT"}
=============================================================================
