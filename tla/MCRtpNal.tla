------------------------------ MODULE MCRtpNal -------------------------------
(* Three NAL units for TLC: of one byte, of two, and one long enough for a *)
(* first, a middle and a last fragment, with a start code in its bytes     *)
(* once the fragment with the 3 is lost.  NRI is 2, 0 and 3.               *)
EXTENDS RtpNal

NalsForCheck == {<<71>>, <<1, 9>>, <<101, 0, 0, 3, 0, 1>>}
=============================================================================
