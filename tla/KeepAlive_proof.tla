--------------------------- MODULE KeepAlive_proof ---------------------------
(***************************************************************************)
(* The keep-alives of the client: when they are sent (KeepAlive) and as    *)
(* which request (RtspOptions).                                            *)
(***************************************************************************)
EXTENDS KeepAlive, RtspOptions, TLAPS

-----------------------------------------------------------------------------
(* For every set of timeouts, word width and message delay of up to two    *)
(* seconds: when the keep-alives of the client keep a session.             *)

\* The remainder of a number is the one that differs by a multiple.
LEMMA Remainder ==
  ASSUME NEW w \in Nat, w > 0, NEW x \in 0 .. w - 1
  PROVE  x % w = x /\ (x - w) % w = x
BY SMT

\* A timeout below five wraps past every time the clock shows (Margin).
LEMMA ShortNeverDue ==
  ASSUME TypeOK, timeout < 5
  PROVE  ~Due
<1>1. timeout \in 0 .. Word - 1 /\ timeout < 5 /\ Word > 5
  BY TimeAssumption, SMT DEF TypeOK
<1>2. (timeout - 5) % Word = timeout - 5 + Word
  BY <1>1, TimeAssumption, Remainder, SMT
<1>3. now \in 0 .. MaxTime /\ last_cmd_time \in 0 .. now
  BY DEF TypeOK
<1> QED
  BY <1>1, <1>2, <1>3, TimeAssumption, SMT DEF Due, Margin, Sec

\* From five on the margin is the timeout less five.
LEMMA LongMargin ==
  ASSUME TypeOK, timeout >= 5
  PROVE  Margin = timeout - 5
<1>1. timeout \in 0 .. Word - 1
  BY TimeAssumption, SMT DEF TypeOK
<1>2. Word \in Nat /\ Word > 0 /\ timeout - 5 \in 0 .. Word - 1
  BY <1>1, TimeAssumption, SMT
<1> QED
  BY <1>2, Remainder DEF Margin

\* The clock while the loop is idle.
LEMMA NotDueYet ==
  ASSUME TypeOK, timeout >= 5, ~Due
  PROVE  now + 1 - last_cmd_time <= 2 * (timeout - 4)
BY LongMargin, TimeAssumption, SMT DEF TypeOK, Due, Sec

LEMMA KInvInit == Init => KInv
BY TimeAssumption, SMT DEF Init, KInv, TypeOK, Kept, ShortTimeoutIsSilent

\* One step per action.
LEMMA KInvNext == KInv /\ [Next]_vars => KInv'
<1> SUFFICES ASSUME KInv, [Next]_vars
             PROVE  KInv'
  OBVIOUS
<1> USE DEF KInv
<1>1. CASE RtspKeepAliveCommand
  <2>1. timeout >= 5
    BY <1>1, ShortNeverDue, TimeAssumption, SMT DEF RtspKeepAliveCommand, TypeOK
  <2>2. TypeOK'
    BY <1>1 DEF RtspKeepAliveCommand, TypeOK, Requests, serverVars
  <2>3. Kept'
    BY <1>1, <2>1, TimeAssumption, SMT
       DEF RtspKeepAliveCommand, TypeOK, Kept, Counted, Requests, serverVars
  <2> QED
    BY <1>1, <2>1, <2>2, <2>3, SMT DEF RtspKeepAliveCommand, TypeOK, ShortTimeoutIsSilent
<1>2. CASE ServerHears
  <2>1. TypeOK'
    BY <1>2, SMT DEF ServerHears, TypeOK, serverVars
  <2>2. Kept'
    BY <1>2, TimeAssumption, SMT DEF ServerHears, TypeOK, Kept, Counted, serverVars
  <2> QED
    BY <1>2, <2>1, <2>2, SMT DEF ServerHears, TypeOK, ShortTimeoutIsSilent
<1>3. CASE ReplyArrives
  <2>1. TypeOK'
    BY <1>3 DEF ReplyArrives, TypeOK, serverVars
  <2>2. Kept'
    BY <1>3, TimeAssumption, SMT DEF ReplyArrives, TypeOK, Kept, Counted, serverVars
  <2> QED
    BY <1>3, <2>1, <2>2, SMT DEF ReplyArrives, TypeOK, ShortTimeoutIsSilent
<1>4. CASE Tick
  <2>1. TypeOK'
    BY <1>4, TimeAssumption, SMT DEF Tick, TypeOK, serverVars
  <2>2. Kept'
    BY <1>4, NotDueYet, TimeAssumption, SMT DEF Tick, TypeOK, Kept, Counted, serverVars
  <2> QED
    BY <1>4, <2>1, <2>2, SMT DEF Tick, ShortTimeoutIsSilent
<1>5. CASE UNCHANGED vars
  BY <1>5 DEF vars, serverVars, TypeOK, Kept, Counted, ShortTimeoutIsSilent
<1> QED
  BY <1>1, <1>2, <1>3, <1>4, <1>5 DEF Next

\* The states of every behaviour.
LEMMA KInvAlways == Spec => []KInv
BY KInvInit, KInvNext, PTL DEF Spec

\* The clocks of RtspKeepAliveCommand stay in their ranges: in particular
\* last_cmd_time is never ahead of time().
THEOREM TimesTyped == Spec => []TypeOK
<1>1. KInv => TypeOK
  BY DEF KInv
<1> QED
  BY <1>1, KInvAlways, PTL

\* For every timeout of five seconds or more that the reply to PLAY carries,
\* and messages of up to two seconds, a server that announced GET_PARAMETER, or
\* counts requests that name no session, never forgets this one
\* (RtspKeepAliveCommand).
THEOREM LongSessionKept == Spec => []SessionKept
<1>1. KInv => SessionKept
  BY TimeAssumption, SMT DEF KInv, TypeOK, Kept, Counted, SessionKept
<1> QED
  BY <1>1, KInvAlways, PTL

\* Below five, or without a timeout, no keep-alive is ever sent
\* (sess->timeout - 5 is unsigned).
THEOREM ShortSessionSilent == Spec => []ShortTimeoutIsSilent
<1>1. KInv => ShortTimeoutIsSilent
  BY DEF KInv
<1> QED
  BY <1>1, KInvAlways, PTL

-----------------------------------------------------------------------------
(* The mask of announced methods, for every width that holds the keys and  *)
(* every set of methods: whether a keep-alive is GET_PARAMETER or OPTIONS. *)

USE DEF Methods

\* What the sum of the keys of S is, written out.
LEMMA KeySumValue ==
  ASSUME NEW S
  PROVE  KeySum(S) = (IF "DESCRIBE" \in S THEN 2 ELSE 0)
                     + (IF "SETUP" \in S THEN 4 ELSE 0)
                     + (IF "PLAY" \in S THEN 8 ELSE 0)
                     + (IF "PAUSE" \in S THEN 16 ELSE 0)
                     + (IF "GET_PARAMETER" \in S THEN 32 ELSE 0)
                     + (IF "SET_PARAMETER" \in S THEN 64 ELSE 0)
                     + (IF "REDIRECT" \in S THEN 128 ELSE 0)
                     + (IF "TEARDOWN" \in S THEN 256 ELSE 0)
                     + (IF "PLAY_NOTIFY" \in S THEN 8 ELSE 0)
BY DEF KeySum, Adds, GetCmdTblKey, Prefix, gcmdtbl

\* The sum is even and below 1024.
LEMMA KeySumRange ==
  ASSUME NEW S
  PROVE  KeySum(S) \in 0 .. 1023 /\ KeySum(S) % 2 = 0
BY KeySumValue

\* The bit of a key is set in the sum exactly when its method is in S, as long
\* as no key is in it twice.
LEMMA KeySumBits ==
  ASSUME NEW S, "PLAY_NOTIFY" \notin S, NEW m \in Methods \ {"OPTIONS"}
  PROVE  BitOf(gcmdtbl[m], KeySum(S)) <=> m \in S
<1>1. CASE m = "DESCRIBE"
  BY <1>1, KeySumValue DEF BitOf, gcmdtbl
<1>2. CASE m = "SETUP"
  BY <1>2, KeySumValue DEF BitOf, gcmdtbl
<1>3. CASE m = "PLAY"
  BY <1>3, KeySumValue DEF BitOf, gcmdtbl
<1>4. CASE m = "PAUSE"
  BY <1>4, KeySumValue DEF BitOf, gcmdtbl
<1>5. CASE m = "GET_PARAMETER"
  BY <1>5, KeySumValue DEF BitOf, gcmdtbl
<1>6. CASE m = "SET_PARAMETER"
  BY <1>6, KeySumValue DEF BitOf, gcmdtbl
<1>7. CASE m = "REDIRECT"
  BY <1>7, KeySumValue DEF BitOf, gcmdtbl
<1>8. CASE m = "TEARDOWN"
  BY <1>8, KeySumValue DEF BitOf, gcmdtbl
<1>. QED  BY <1>1, <1>2, <1>3, <1>4, <1>5, <1>6, <1>7, <1>8

\* Twice the key of PLAY does not reach the bit of GET_PARAMETER without PAUSE.
LEMMA GetParameterBit ==
  ASSUME NEW S, ~({"PLAY", "PLAY_NOTIFY", "PAUSE"} \subseteq S)
  PROVE  BitOf(32, KeySum(S)) <=> "GET_PARAMETER" \in S
BY KeySumValue DEF BitOf

\* The mask holds one sum after the first reply, and a server that announced
\* GET_PARAMETER is never asked for its methods again.
MaskInv ==
  /\ MaskTypeOK
  /\ parsed = "none" => cmdstats = 0
  /\ parsed = "once" => cmdstats = KeySum(public)
  /\ parsed = "more" => "GET_PARAMETER" \notin public \/ CarriesIntoGetParameter

\* After one reply the mask is exact.
LEMMA ExactAfterOne ==
  ASSUME MaskInv, parsed = "once", "PLAY_NOTIFY" \notin public, NEW m \in Methods \ {"OPTIONS"}
  PROVE  RtspCommandIsSupported(gcmdtbl[m], cmdstats) <=> m \in public
<1>1. gcmdtbl[m] > 0 /\ gcmdtbl[m] % 2 = 0
  BY DEF gcmdtbl
<1>2. cmdstats = KeySum(public)
  BY DEF MaskInv
<1>. QED  BY <1>1, <1>2, KeySumRange, KeySumBits DEF RtspCommandIsSupported

\* After one reply the mask knows of GET_PARAMETER.
LEMMA SupportedAfterOne ==
  ASSUME MaskInv, parsed = "once", ~CarriesIntoGetParameter
  PROVE  GetParameterSupported <=> "GET_PARAMETER" \in public
<1>1. cmdstats = KeySum(public)
  BY DEF MaskInv
<1>2. gcmdtbl["GET_PARAMETER"] = 32
  BY DEF gcmdtbl
<1>. QED  BY <1>1, <1>2, KeySumRange, GetParameterBit
          DEF GetParameterSupported, RtspCommandIsSupported, CarriesIntoGetParameter

\* The first reply fits the mask; later ones keep its type.
LEMMA ParseResult ==
  ASSUME NEW stats \in 0 .. Width - 1, NEW S
  PROVE  /\ ParseOptionsPublic(stats, S, Width) \in 0 .. Width - 1
         /\ stats = 0 => ParseOptionsPublic(stats, S, Width) = KeySum(S)
<1>. DEFINE a == stats + KeySum(S)
<1>1. a \in Nat /\ Width \in Nat /\ Width > 1023 /\ KeySum(S) \in 0 .. 1023
  BY KeySumRange, WidthAssumption
<1>2. a % Width \in 0 .. Width - 1
  <2>. HIDE DEF a
  <2>. QED  BY <1>1
<1>3. stats = 0 => a = KeySum(S)
  BY <1>1
<1>4. KeySum(S) % Width = KeySum(S)
  <2>. DEFINE k == KeySum(S)
  <2>1. k \in Nat /\ k < Width
    BY <1>1
  <2>. HIDE DEF k
  <2>2. k % Width = k
    BY <2>1, <1>1
  <2>. QED  BY <2>2 DEF k
<1>. QED  BY <1>2, <1>3, <1>4 DEF ParseOptionsPublic

\* The inductive invariant.
THEOREM MaskInvariance == MaskSpec => []MaskInv
<1>1. MaskInit => MaskInv
  BY WidthAssumption DEF MaskInit, MaskInv, MaskTypeOK
<1>2. MaskInv /\ [MaskNext]_maskVars => MaskInv'
  <2>. SUFFICES ASSUME MaskInv, [MaskNext]_maskVars PROVE MaskInv'
    OBVIOUS
  <2>1. CASE FirstOptions
    BY <2>1, ParseResult DEF FirstOptions, Parse, MaskInv, MaskTypeOK
  <2>2. CASE KeepAliveOptions
    <3>1. cmdstats' \in 0 .. Width - 1 /\ public' = public
          /\ (cmdstats = 0 => cmdstats' = KeySum(public))
          /\ parsed' = IF parsed = "none" THEN "once" ELSE "more"
      BY <2>2, ParseResult DEF KeepAliveOptions, Parse, MaskInv, MaskTypeOK
    <3>2. parsed = "once" => "GET_PARAMETER" \notin public \/ CarriesIntoGetParameter
      BY <2>2, SupportedAfterOne DEF KeepAliveOptions
    <3>. QED  BY <3>1, <3>2 DEF MaskInv, MaskTypeOK, CarriesIntoGetParameter
  <2>3. CASE UNCHANGED maskVars
    BY <2>3 DEF maskVars, MaskInv, MaskTypeOK, CarriesIntoGetParameter
  <2>. QED  BY <2>1, <2>2, <2>3 DEF MaskNext
<1>. QED  BY <1>1, <1>2, PTL DEF MaskSpec

\* One OPTIONS reply makes the mask answer what the server announced, unless a
\* name of it begins with another.
THEOREM MaskIsExactAfterOneReply == MaskSpec => []FirstReplyExact
<1>1. MaskInv => FirstReplyExact
  BY ExactAfterOne DEF FirstReplyExact
<1>. QED  BY MaskInvariance, <1>1, PTL

\* An announced GET_PARAMETER is used for ever, unless two keys of PLAY and the
\* one of PAUSE carry into its bit.
THEOREM GetParameterStaysSupported == MaskSpec => []AnnouncedStaysSupported
<1>1. MaskInv => AnnouncedStaysSupported
  BY SupportedAfterOne DEF MaskInv, MaskTypeOK, AnnouncedStaysSupported
<1>. QED  BY MaskInvariance, <1>1, PTL
=============================================================================
