------------------------------ MODULE PortAlloc ------------------------------
(***************************************************************************)
(* GetSomePort of net.c: the local UDP port a SETUP request asks for.  The *)
(* event loops of all the sessions of the process call it, and share its   *)
(* static cursor portTmp without a lock: a call reads the cursor when it   *)
(* starts, probes candidates with a TCP socket, closes the probe that      *)
(* could be bound, and writes the cursor when it returns.  The pair        *)
(* (port, port + 1) is for RTP and RTCP.                                   *)
(***************************************************************************)
EXTENDS Integers, FiniteSets

CONSTANTS
  Sessions,   \* the event loops that call GetSomePort
  PORT_BASE,  \* first port of the range (31688 in net.c)
  PortSpace,  \* values of sin_port: 2^16
  Foreign,    \* the ports other programs may take
  MaxCalls,   \* bound: calls per session
  MaxTaken,   \* bound: ports other programs take during the run
  MaxFails    \* bound: socket() calls that fail

\* Both are even in the code, and the range ends within the port space.
ASSUME PortAssumption ==
  /\ PORT_BASE \in Nat /\ PORT_BASE > 0
  /\ PortSpace \in Nat /\ PortSpace > 0
  /\ PORT_BASE % 2 = 0 /\ PortSpace % 2 = 0
  /\ 2 * PORT_BASE <= PortSpace
  /\ Foreign \subseteq 1 .. PortSpace - 1

ASSUME BoundAssumption == MaxCalls \in Nat /\ MaxTaken \in Nat /\ MaxFails \in Nat

\* All that can stand in the way of one call, two ports for each, leaves part of
\* the range free: failures of socket(), the ports of other programs and the
\* probes of the other sessions.  The range has 31688 ports.
ASSUME RoomAssumption ==
  /\ IsFiniteSet(Sessions)
  /\ 2 * (MaxFails + MaxTaken + MaxCalls * (Cardinality(Sessions) - 1)) + 2 < PORT_BASE

VARIABLES
  portTmp,    \* the static cursor
  pc,         \* where each session's call is
  candidate,  \* the local of each call, 0 outside one
  cursor,     \* history: the cursor each call read, 0 outside one
  port,       \* the port each session got last, 0 before the first
  calls,      \* calls made
  busy,       \* ports held by other programs
  taken,      \* ports other programs took so far
  fails       \* socket() failures so far

vars == <<portTmp, pc, candidate, cursor, port, calls, busy, taken, fails>>

Even(n) == n % 2 = 0

\* Where a candidate may get: busy ports lead to the end of the port space,
\* each failure of socket() there once more round it.
Candidates == 0 .. PortSpace * (MaxFails + 1)

TypeOK ==
  /\ portTmp \in Candidates
  /\ pc \in [Sessions -> {"out", "probing", "bound", "found"}]
  /\ candidate \in [Sessions -> Candidates]
  /\ cursor \in [Sessions -> Candidates]
  /\ port \in [Sessions -> Candidates]
  /\ calls \in [Sessions -> 0 .. MaxCalls]
  /\ busy \subseteq Foreign
  /\ taken \in 0 .. MaxTaken
  /\ fails \in 0 .. MaxFails

Init ==
  /\ portTmp = 0
  /\ pc = [s \in Sessions |-> "out"]
  /\ candidate = [s \in Sessions |-> 0]
  /\ cursor = [s \in Sessions |-> 0]
  /\ port = [s \in Sessions |-> 0]
  /\ calls = [s \in Sessions |-> 0]
  /\ busy = {}
  /\ taken = 0
  /\ fails = 0

-----------------------------------------------------------------------------

\* A candidate that does not turn at the end of the range.
FirstCandidateNoTurn(n) == PORT_BASE + (n + 2)

\* A cursor that is read without its step.
FirstCandidateSame(n) == PORT_BASE + (n % PORT_BASE)

\* The candidate a call starts from.
FirstCandidate(n) == PORT_BASE + ((n + 2) % PORT_BASE)

\* A step to the next number.
AfterOne(c) == c + 1

\* A step that stays at the last port.
AfterToLast(c) == IF c + 2 < PortSpace THEN c + 2 ELSE c

\* The candidate after one that could not be bound.
After(c) == c + 2

\* Ports the probing sockets of the other calls are bound to.
Probed(s) == {candidate[t] % PortSpace : t \in {t \in Sessions \ {s} : pc[t] = "bound"}}

\* htons keeps sixteen bits; port 0 asks the kernel for any free port, so
\* that binding it succeeds.
Bindable(s) ==
  LET p == candidate[s] % PortSpace IN p = 0 \/ p \notin busy \union Probed(s)

Enter(s) ==
  /\ pc[s] = "out"
  /\ calls[s] < MaxCalls
  /\ pc' = [pc EXCEPT ![s] = "probing"]
  /\ candidate' = [candidate EXCEPT ![s] = FirstCandidate(portTmp)]
  /\ cursor' = [cursor EXCEPT ![s] = portTmp]
  /\ calls' = [calls EXCEPT ![s] = @ + 1]
  /\ UNCHANGED <<portTmp, port, busy, taken, fails>>

\* socket() and bind() succeed.
ProbeSucceeds(s) ==
  /\ pc[s] = "probing"
  /\ Bindable(s)
  /\ pc' = [pc EXCEPT ![s] = "bound"]
  /\ UNCHANGED <<portTmp, candidate, cursor, port, calls, busy, taken, fails>>

\* The probing socket is closed: the port is free again.
ProbeCloses(s) ==
  /\ pc[s] = "bound"
  /\ pc' = [pc EXCEPT ![s] = "found"]
  /\ UNCHANGED <<portTmp, candidate, cursor, port, calls, busy, taken, fails>>

\* bind() fails: another program, or the probe of another call, holds the
\* candidate.
ProbeFails(s) ==
  /\ pc[s] = "probing"
  /\ ~Bindable(s)
  /\ candidate' = [candidate EXCEPT ![s] = After(@)]
  /\ UNCHANGED <<portTmp, pc, cursor, port, calls, busy, taken, fails>>

\* socket() fails: no descriptor left for the probe.
SocketFails(s) ==
  /\ pc[s] = "probing"
  /\ fails < MaxFails
  /\ fails' = fails + 1
  /\ candidate' = [candidate EXCEPT ![s] = After(@)]
  /\ UNCHANGED <<portTmp, pc, cursor, port, calls, busy, taken>>

\* The cursor is written and the port returned; the locals are gone.
Return(s) ==
  /\ pc[s] = "found"
  /\ pc' = [pc EXCEPT ![s] = "out"]
  /\ portTmp' = candidate[s]
  /\ port' = [port EXCEPT ![s] = candidate[s]]
  /\ candidate' = [candidate EXCEPT ![s] = 0]
  /\ cursor' = [cursor EXCEPT ![s] = 0]
  /\ UNCHANGED <<calls, busy, taken, fails>>

GetSomePort(s) ==
  \/ Enter(s)
  \/ ProbeSucceeds(s) \/ ProbeCloses(s) \/ ProbeFails(s) \/ SocketFails(s)
  \/ Return(s)

\* Other programs take and release ports at any time.
Occupy(p) ==
  /\ p \notin busy \union {candidate[s] : s \in {s \in Sessions : pc[s] = "bound"}}
  /\ taken < MaxTaken
  /\ taken' = taken + 1
  /\ busy' = busy \union {p}
  /\ UNCHANGED <<portTmp, pc, candidate, cursor, port, calls, fails>>

Release(p) ==
  /\ p \in busy
  /\ busy' = busy \ {p}
  /\ UNCHANGED <<portTmp, pc, candidate, cursor, port, calls, taken, fails>>

Next ==
  \/ \E s \in Sessions : GetSomePort(s)
  \/ \E p \in Foreign : Occupy(p) \/ Release(p)

Spec == Init /\ [][Next]_vars

\* A thread inside the call keeps running.  Starting one is the session's
\* choice, and other programs and failures are under no obligation.
Fairness ==
  \A s \in Sessions :
    WF_vars(ProbeSucceeds(s) \/ ProbeCloses(s) \/ ProbeFails(s) \/ Return(s))

LiveSpec == Spec /\ Fairness

-----------------------------------------------------------------------------
(* Properties                                                              *)

\* What makes PairsAligned inductive: every cursor and candidate is even.
AllEven ==
  /\ portTmp \in Nat /\ Even(portTmp)
  /\ candidate \in [Sessions -> Nat] /\ \A s \in Sessions : Even(candidate[s])
  /\ port \in [Sessions -> Nat] /\ \A s \in Sessions : Even(port[s])

Pair(p) == {p, p + 1}

\* Whatever the sessions race, the RTP and RTCP ports of two of them are the
\* same pair or have nothing in common: the RTP port of one is never the RTCP
\* port of another, although RTCP ports are not probed (GetSomePort).
PairsAligned ==
  \A s, t \in Sessions :
    Pair(port[s]) \cap Pair(port[t]) # {} => port[s] = port[t]

\* A call that reads the cursor the session's own last call wrote gets another
\* port, so that audio and video of a session do not ask for the same one when
\* no other session came between, round the turn of the range and past busy
\* ports (GetSomePort).  RoomAssumption keeps part of the range free.
NextPortDiffers ==
  [][\A s \in Sessions :
       Return(s) /\ port[s] # 0 /\ cursor[s] = port[s]
         => port'[s] # port[s]]_vars

\* Every call returns though other programs hold the ports it tries, also when
\* its candidate walks past the last port of all: what is left of it in sixteen
\* bits is port 0, which can always be bound (GetSomePort).  A socket() that
\* fails for ever is not covered: MaxFails bounds the failures.
EveryCallReturns ==
  \A s \in Sessions : pc[s] = "probing" ~> pc[s] = "out"
=============================================================================
