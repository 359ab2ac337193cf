---------------------------- MODULE RtspDialogue ----------------------------
(***************************************************************************)
(* What a session promises to say on its RTSP connection: the order of its *)
(* requests.  One request at a time, OPTIONS and DESCRIBE first, then one  *)
(* SETUP for each stream the description offers, video before audio, PLAY  *)
(* only after the last of them, and then keep-alives until at most one     *)
(* TEARDOWN, after which the session is silent.                            *)
(***************************************************************************)
CONSTANT Streams    \* the streams a description may offer

VARIABLES last,     \* the last request sent, "none" before the first
          media     \* the streams the description offered

vars == <<last, media>>

Init == last = "none" /\ media = {}

Greet == last = "none" /\ last' = "OPTIONS" /\ UNCHANGED media

Ask == last = "OPTIONS" /\ last' = "DESCRIBE" /\ UNCHANGED media

\* The description arrives.
Described ==
  /\ last = "DESCRIBE"
  /\ media = {}
  /\ media' \in SUBSET Streams
  /\ UNCHANGED last

SetupVideo ==
  /\ last = "DESCRIBE" /\ "video" \in media
  /\ last' = "SETUP1"
  /\ UNCHANGED media

SetupAudio ==
  /\ "audio" \in media
  /\ last = IF "video" \in media THEN "SETUP1" ELSE "DESCRIBE"
  /\ last' = "SETUP2"
  /\ UNCHANGED media

Play ==
  /\ last = IF "audio" \in media THEN "SETUP2"
            ELSE IF "video" \in media THEN "SETUP1" ELSE "DESCRIBE"
  /\ last' = "PLAY"
  /\ UNCHANGED media

KeepAlive ==
  /\ last \in {"PLAY", "KEEPALIVE"}
  /\ last' = "KEEPALIVE"
  /\ UNCHANGED media

Teardown ==
  /\ last \in {"PLAY", "KEEPALIVE"}
  /\ last' = "TEARDOWN"
  /\ UNCHANGED media

Next == \/ Greet \/ Ask \/ Described \/ SetupVideo \/ SetupAudio \/ Play
        \/ KeepAlive \/ Teardown

Spec == Init /\ [][Next]_vars
=============================================================================
