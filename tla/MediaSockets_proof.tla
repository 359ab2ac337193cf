-------------------------- MODULE MediaSockets_proof --------------------------
(***************************************************************************)
(* The ports and the descriptors of any number of sessions, for every even *)
(* range of ports and every size of the descriptor table.  The pairs that  *)
(* GetSomePort returns never straddle, a candidate goes once round the     *)
(* port space for each failure of socket() at most, and a call does not    *)
(* come back to the cursor it read (PortAlloc).  Nobody works on the       *)
(* descriptor of another, nobody takes more than four, the RTP socket gets *)
(* the lower descriptor unless another session came between, a closed      *)
(* session gives its descriptors back, and the ports that were found are   *)
(* the ports that are bound (MediaSockets).                                *)
(***************************************************************************)
EXTENDS MediaSockets, FiniteSetTheorems, WellFoundedInduction, TLAPS

-----------------------------------------------------------------------------
(* The ports of GetSomePort (PortAlloc)                                    *)

\* The step between candidates keeps an even one even (After).
LEMMA EvenStep ==
  ASSUME NEW n \in Nat, Even(n)
  PROVE  Even(n + 2)
BY SMT DEF Even

\* An even number is twice its half.
LEMMA EvenIsTwice ==
  ASSUME NEW n \in Nat, Even(n)
  PROVE  \E half \in Nat : n = 2 * half
<1> DEFINE h == n \div 2
<1>1. h \in Nat /\ n = 2 * h
  BY SMT DEF Even
<1> QED
  BY <1>1

\* The turn of an even range keeps even cursors even (FirstCandidate).
LEMMA FirstCandidateEven ==
  ASSUME NEW n \in Nat, Even(n)
  PROVE  FirstCandidate(n) \in Nat /\ Even(FirstCandidate(n))
<1>1. PICK a \in Nat : n + 2 = 2 * a
  <2>1. n + 2 \in Nat /\ Even(n + 2)
    BY EvenStep, SMT
  <2> QED
    BY <2>1, EvenIsTwice
<1>2. PICK b \in Nat : PORT_BASE = 2 * b
  BY PortAssumption, EvenIsTwice DEF Even
<1> DEFINE q == (n + 2) \div PORT_BASE
           r == (n + 2) % PORT_BASE
<1>3. q \in Int /\ r \in Nat /\ n + 2 = PORT_BASE * q + r
  BY PortAssumption, SMT
<1>4. r = 2 * (a - b * q)
  BY <1>1, <1>2, <1>3, SMT
<1>5. b * q \in Int
  BY <1>2, <1>3, SMT
<1> HIDE DEF q, r
<1> DEFINE c == b * q
<1>6. c \in Int /\ r = 2 * (a - c)
  BY <1>4, <1>5
<1> HIDE DEF c
<1>7. PORT_BASE + r = 2 * (b + a - c)
  BY <1>1, <1>2, <1>6, SMT
<1>8. Even(PORT_BASE + r)
  BY <1>1, <1>2, <1>3, <1>6, <1>7, SMT DEF Even
<1> QED
  BY <1>3, <1>8, PortAssumption, SMT DEF FirstCandidate, r

\* Every cursor and candidate is even, initially and after each step.
LEMMA AllEvenInit == Init => AllEven
BY SMT DEF Init, AllEven, Even

LEMMA AllEvenNext == AllEven /\ [Next]_vars => AllEven'
<1> SUFFICES ASSUME AllEven, [Next]_vars
             PROVE  AllEven'
  OBVIOUS
<1>1. ASSUME NEW s \in Sessions, Enter(s)
      PROVE  AllEven'
  <2>1. FirstCandidate(portTmp) \in Nat /\ Even(FirstCandidate(portTmp))
    BY FirstCandidateEven DEF AllEven
  <2> QED
    BY <1>1, <2>1 DEF AllEven, Enter
<1>2. ASSUME NEW s \in Sessions, ProbeFails(s) \/ SocketFails(s)
      PROVE  AllEven'
  <2>1. candidate[s] \in Nat /\ Even(candidate[s])
    BY DEF AllEven
  <2>2. After(candidate[s]) \in Nat /\ Even(After(candidate[s]))
    BY <2>1, EvenStep, SMT DEF After
  <2> QED
    BY <1>2, <2>2 DEF AllEven, ProbeFails, SocketFails
<1>3. ASSUME NEW s \in Sessions, ProbeSucceeds(s) \/ ProbeCloses(s)
      PROVE  AllEven'
  BY <1>3 DEF AllEven, ProbeSucceeds, ProbeCloses
<1>4. ASSUME NEW s \in Sessions, Return(s)
      PROVE  AllEven'
  BY <1>4 DEF AllEven, Return, Even
<1>5. ASSUME NEW p \in Foreign, Occupy(p) \/ Release(p)
      PROVE  AllEven'
  BY <1>5 DEF AllEven, Occupy, Release
<1>6. CASE UNCHANGED vars
  BY <1>6 DEF AllEven, vars
<1> QED
  BY <1>1, <1>2, <1>3, <1>4, <1>5, <1>6 DEF Next, GetSomePort

\* Two even ports whose pairs meet are the same port.
LEMMA EvenPairsAligned == AllEven => PairsAligned
<1> SUFFICES ASSUME AllEven, NEW s \in Sessions, NEW t \in Sessions,
                    NEW p \in Pair(port[s]), p \in Pair(port[t])
             PROVE  port[s] = port[t]
  BY DEF PairsAligned
<1>1. /\ port[s] \in Nat /\ port[s] % 2 = 0
      /\ port[t] \in Nat /\ port[t] % 2 = 0
  BY DEF AllEven, Even
<1>2. p \in {port[s], port[s] + 1} /\ p \in {port[t], port[t] + 1}
  BY DEF Pair
<1> QED
  BY <1>1, <1>2, SMT

\* For every set of sessions, even range and even port space: the RTP port of
\* a session is never the RTCP port of another (GetSomePort).
THEOREM AllPairsAligned == Spec => []PairsAligned
<1>1. Spec => []AllEven
  BY AllEvenInit, AllEvenNext, PTL DEF Spec
<1> QED
  BY <1>1, EvenPairsAligned, PTL

-----------------------------------------------------------------------------
(* How far candidates climb                                                *)

Reach == PortSpace * (fails + 1)

\* Port 0 of every turn can be bound: a candidate stops there.
ReachInv ==
  /\ portTmp <= Reach
  /\ \A s \in Sessions : candidate[s] <= Reach /\ cursor[s] <= Reach /\ port[s] <= Reach

TypeInv == TypeOK /\ AllEven /\ ReachInv

\* A candidate that is not at the end of a turn stays within it (ProbeFails).
LEMMA WithinTurn ==
  ASSUME NEW c \in Nat, Even(c), NEW k \in Nat, c <= PortSpace * k, c % PortSpace # 0
  PROVE  c + 2 <= PortSpace * k
<1> DEFINE q == c \div PortSpace
           r == c % PortSpace
<1>1. /\ PortSpace \in Nat /\ PortSpace > 0
      /\ q \in Nat /\ r \in Nat /\ c = PortSpace * q + r /\ r < PortSpace /\ r > 0
  BY PortAssumption, SMT
<1> HIDE DEF q, r
<1>2. PICK h \in Nat : PortSpace = 2 * h
  BY PortAssumption, EvenIsTwice DEF Even
<1>3. PICK d \in Nat : c = 2 * d
  BY EvenIsTwice
<1> DEFINE m == PortSpace * q
<1>4. m \in Nat /\ c = m + r
  BY <1>1
<1>5. m = 2 * (h * q) /\ h * q \in Nat
  BY <1>1, <1>2
<1>6. PortSpace * (q + 1) = m + PortSpace
  BY <1>1
<1>7. q + 1 <= k
  <2> SUFFICES ASSUME k <= q
               PROVE  FALSE
    BY <1>1
  <2>1. PortSpace * k <= PortSpace * q
    BY <1>1
  <2> QED
    BY <1>1, <2>1
<1>8. PortSpace * (q + 1) <= PortSpace * k
  BY <1>1, <1>7
<1>9. PortSpace * k \in Nat
  BY <1>1
<1> DEFINE hq == h * q
           end == PortSpace * k
<1>10. m = 2 * hq /\ hq \in Nat /\ m + PortSpace <= end /\ end \in Nat
  BY <1>5, <1>6, <1>8, <1>9
<1> HIDE DEF m, hq, end
<1>11. r = 2 * (d - hq)
  BY <1>1, <1>3, <1>4, <1>10
<1>12. r + 2 <= PortSpace
  BY <1>1, <1>2, <1>3, <1>10, <1>11
<1>13. c + 2 <= end
  BY <1>1, <1>4, <1>10, <1>12
<1> QED
  BY <1>13 DEF end

\* A call starts within the first turn (FirstCandidate).
LEMMA FirstWithinTurn ==
  ASSUME NEW n \in Nat, NEW k \in Nat
  PROVE  FirstCandidate(n) <= PortSpace * (k + 1)
<1>1. (n + 2) % PORT_BASE < PORT_BASE /\ (n + 2) % PORT_BASE \in Nat
  BY PortAssumption, SMT
<1>2. FirstCandidate(n) <= PortSpace
  BY <1>1, PortAssumption DEF FirstCandidate
<1>3. PortSpace * (k + 1) >= PortSpace /\ PortSpace * (k + 1) \in Nat
  BY PortAssumption
<1>4. FirstCandidate(n) \in Nat
  BY <1>1, PortAssumption DEF FirstCandidate
<1> QED
  BY <1>2, <1>3, <1>4, PortAssumption

LEMMA ReachGrows ==
  ASSUME fails \in 0 .. MaxFails
  PROVE  /\ Reach \in Nat /\ Reach <= PortSpace * (MaxFails + 1) /\ Reach >= 0
         /\ PortSpace * (fails + 2) = Reach + PortSpace
         /\ PortSpace * (MaxFails + 1) \in Nat
<1>1. fails \in Nat /\ MaxFails \in Nat /\ fails + 1 <= MaxFails + 1
  BY BoundAssumption
<1> QED
  BY <1>1, PortAssumption DEF Reach

LEMMA TypeInit == Init => TypeOK /\ ReachInv
<1> SUFFICES ASSUME Init
             PROVE  TypeOK /\ ReachInv
  OBVIOUS
<1>1. fails \in 0 .. MaxFails
  BY BoundAssumption DEF Init
<1>2. Reach \in Nat /\ 0 \in Candidates
  BY <1>1, ReachGrows DEF Candidates
<1> QED
  BY <1>1, <1>2, BoundAssumption DEF Init, TypeOK, ReachInv

LEMMA TypeNext == TypeInv /\ [Next]_vars => (TypeOK /\ ReachInv)'
<1> SUFFICES ASSUME TypeInv, [Next]_vars
             PROVE  (TypeOK /\ ReachInv)'
  OBVIOUS
<1> USE DEF TypeInv
<1>1. /\ fails \in 0 .. MaxFails /\ fails \in Nat /\ MaxFails \in Nat
      /\ calls \in [Sessions -> 0 .. MaxCalls] /\ MaxCalls \in Nat
      /\ taken \in 0 .. MaxTaken /\ MaxTaken \in Nat
  BY BoundAssumption DEF TypeOK
<1>2. /\ Reach \in Nat /\ \A n \in Nat : n <= Reach => n \in Candidates
      /\ 0 \in Candidates
  BY <1>1, ReachGrows DEF Candidates
<1>3. ASSUME NEW s \in Sessions, Enter(s)
      PROVE  (TypeOK /\ ReachInv)'
  <2>1. /\ FirstCandidate(portTmp) \in Nat /\ FirstCandidate(portTmp) <= Reach
        /\ portTmp \in Nat /\ portTmp <= Reach
    BY <1>1, FirstCandidateEven, FirstWithinTurn DEF AllEven, Reach, ReachInv
  <2>2. FirstCandidate(portTmp) \in Candidates
    BY <1>2, <2>1
  <2>3. TypeOK'
    BY <1>1, <1>3, <2>2 DEF TypeOK, Enter
  <2>4. ReachInv'
    BY <1>3, <2>1 DEF Enter, ReachInv, Reach, TypeOK
  <2> QED
    BY <2>3, <2>4
<1>4. ASSUME NEW s \in Sessions, ProbeFails(s)
      PROVE  (TypeOK /\ ReachInv)'
  <2>1. candidate[s] \in Nat /\ Even(candidate[s]) /\ candidate[s] % PortSpace # 0
    BY <1>4 DEF AllEven, ProbeFails, Bindable
  <2>2. candidate[s] <= PortSpace * (fails + 1) /\ fails + 1 \in Nat
    BY <1>1 DEF ReachInv, Reach
  <2>3. After(candidate[s]) <= Reach /\ After(candidate[s]) \in Nat
    BY <2>1, <2>2, WithinTurn DEF After, Reach
  <2>4. After(candidate[s]) \in Candidates
    BY <1>2, <2>3
  <2>5. TypeOK'
    BY <1>4, <2>4 DEF TypeOK, ProbeFails
  <2>6. ReachInv'
    BY <1>4, <2>3 DEF ProbeFails, ReachInv, Reach, TypeOK
  <2> QED
    BY <2>5, <2>6
<1>5. ASSUME NEW s \in Sessions, SocketFails(s)
      PROVE  (TypeOK /\ ReachInv)'
  <2>1. fails' = fails + 1 /\ fails' \in 0 .. MaxFails
    BY <1>1, <1>5 DEF SocketFails
  <2>2. Reach' = Reach + PortSpace /\ Reach' <= PortSpace * (MaxFails + 1)
    <3>1. Reach' = PortSpace * (fails + 2)
      BY <1>1, <2>1, PortAssumption DEF Reach
    <3>2. PortSpace * (fails + 2) <= PortSpace * (MaxFails + 1)
      BY <1>1, <2>1, PortAssumption
    <3> QED
      BY <1>1, <3>1, <3>2, ReachGrows
  <2>3. PortSpace >= 2 /\ PortSpace \in Nat /\ Reach' \in Nat
    BY <1>2, <2>2, PortAssumption
  <2>4. /\ After(candidate[s]) \in Nat /\ After(candidate[s]) <= Reach'
        /\ \A n \in Nat : n <= Reach => n <= Reach'
    BY <1>2, <2>2, <2>3 DEF After, ReachInv, AllEven
  <2>5. After(candidate[s]) \in Candidates
    BY <1>1, <2>2, <2>3, <2>4, ReachGrows DEF Candidates
  <2>6. TypeOK'
    BY <1>5, <2>1, <2>5 DEF TypeOK, SocketFails
  <2>7. \A t \in Sessions : cursor[t] \in Nat
    BY DEF TypeOK, Candidates
  <2>8. /\ UNCHANGED <<portTmp, cursor, port>>
        /\ candidate' = [candidate EXCEPT ![s] = After(candidate[s])]
    BY <1>5 DEF SocketFails
  <2>9. /\ portTmp' <= Reach'
        /\ \A t \in Sessions : cursor'[t] <= Reach' /\ port'[t] <= Reach'
    BY <2>4, <2>7, <2>8 DEF ReachInv, AllEven
  <2>10. \A t \in Sessions : candidate'[t] <= Reach'
    BY <2>4, <2>8 DEF ReachInv, AllEven
  <2> QED
    BY <2>6, <2>9, <2>10 DEF ReachInv
<1>6. ASSUME NEW s \in Sessions, ProbeSucceeds(s) \/ ProbeCloses(s)
      PROVE  (TypeOK /\ ReachInv)'
  BY <1>6 DEF TypeOK, ReachInv, Reach, ProbeSucceeds, ProbeCloses
<1>7. ASSUME NEW s \in Sessions, Return(s)
      PROVE  (TypeOK /\ ReachInv)'
  <2>1. TypeOK'
    BY <1>2, <1>7 DEF TypeOK, Return
  <2>2. ReachInv'
    BY <1>2, <1>7 DEF TypeOK, ReachInv, Reach, Return
  <2> QED
    BY <2>1, <2>2
<1>8. ASSUME NEW p \in Foreign, Occupy(p) \/ Release(p)
      PROVE  (TypeOK /\ ReachInv)'
  BY <1>1, <1>8 DEF TypeOK, ReachInv, Reach, Occupy, Release
<1>9. CASE UNCHANGED vars
  BY <1>9 DEF TypeOK, ReachInv, Reach, vars
<1> QED
  BY <1>3, <1>4, <1>5, <1>6, <1>7, <1>8, <1>9 DEF Next, GetSomePort

\* Neither cursor nor candidate leaves its turn of the port space: every even
\* range, port space and set of busy ports (GetSomePort).
THEOREM PortsTyped == Spec => []TypeOK
<1>1. Init => TypeInv
  BY AllEvenInit, TypeInit DEF TypeInv
<1>2. TypeInv /\ [Next]_vars => TypeInv'
  BY AllEvenNext, TypeNext DEF TypeInv
<1>3. TypeInv => TypeOK
  BY DEF TypeInv
<1> QED
  BY <1>1, <1>2, <1>3, PTL DEF Spec

-----------------------------------------------------------------------------
(* A call does not come round to the cursor it read                        *)

\* The window of a call: the ports from its candidate to the end of one turn of
\* the range.
Ahead(s) ==
  {c % PortSpace : c \in candidate[s] .. FirstCandidate(cursor[s]) + PORT_BASE - 1}

\* The calls of the other sessions.
Others(s) == (Sessions \ {s}) \X (1 .. MaxCalls)

\* Those whose probe may still be in the way of s: calls to come, the call that
\* looks for a port and the one that holds a port ahead of s.
Rivals(s) ==
  {r \in Others(s) :
     \/ r[2] > calls[r[1]]
     \/ /\ r[2] = calls[r[1]]
        /\ \/ pc[r[1]] = "probing"
           \/ pc[r[1]] = "bound" /\ candidate[r[1]] % PortSpace \in Ahead(s)}

\* What may still be in the way of s.
Obstacles(s) ==
  Cardinality(busy \cap Ahead(s)) + Cardinality(Rivals(s))
    + (MaxFails - fails) + (MaxTaken - taken)

Room(s) == MaxFails + MaxTaken + Cardinality(Others(s))

Climbed(s) == candidate[s] - FirstCandidate(cursor[s])

\* Each step of a candidate uses up one of the obstacles ahead of it.
ClimbInv ==
  /\ IsFiniteSet(busy) /\ Cardinality(busy) <= taken
  /\ \A s \in Sessions : pc[s] # "out" =>
       /\ calls[s] > 0
       /\ Climbed(s) >= 0
       /\ Climbed(s) + 2 * Obstacles(s) <= 2 * Room(s)

\* Numbers less than the port space apart are different ports (htons).
LEMMA ResiduesDiffer ==
  ASSUME NEW a \in Nat, NEW b \in Nat, a < b, b < a + PortSpace
  PROVE  a % PortSpace # b % PortSpace
<1> DEFINE qa == a \div PortSpace
           qb == b \div PortSpace
           ra == a % PortSpace
           rb == b % PortSpace
<1>1. /\ PortSpace \in Nat /\ PortSpace > 0
      /\ qa \in Nat /\ ra \in Nat /\ a = PortSpace * qa + ra
      /\ qb \in Nat /\ rb \in Nat /\ b = PortSpace * qb + rb
  BY PortAssumption, SMT
<1> HIDE DEF qa, qb, ra, rb
<1> SUFFICES ASSUME ra = rb
             PROVE  FALSE
  BY DEF ra, rb
<1>2. CASE qb <= qa
  <2>1. PortSpace * qb <= PortSpace * qa
    BY <1>1, <1>2
  <2> QED
    BY <1>1, <2>1
<1>3. CASE qb >= qa + 1
  <2>1. PortSpace * qb >= PortSpace * qa + PortSpace
    BY <1>1, <1>3
  <2> QED
    BY <1>1, <2>1
<1> QED
  BY <1>1, <1>2, <1>3

\* A part that lacks an element has fewer elements.
LEMMA CardLess ==
  ASSUME NEW A, IsFiniteSet(A), NEW B, B \subseteq A, NEW x \in A, x \notin B
  PROVE  Cardinality(B) + 1 <= Cardinality(A)
<1>1. IsFiniteSet(A \ {x}) /\ Cardinality(A \ {x}) = Cardinality(A) - 1
  BY FS_RemoveElement
<1>2. B \in SUBSET (A \ {x})
  OBVIOUS
<1>3. IsFiniteSet(B) /\ Cardinality(B) <= Cardinality(A \ {x})
  BY <1>1, <1>2, FS_Subset
<1>4. Cardinality(A) \in Nat /\ Cardinality(B) \in Nat
  BY <1>3, FS_CardinalityType
<1> QED
  BY <1>1, <1>3, <1>4

\* The other sessions make MaxCalls calls each.
LEMMA OthersCounted ==
  ASSUME NEW s \in Sessions
  PROVE  /\ IsFiniteSet(Others(s))
         /\ Cardinality(Others(s)) = (Cardinality(Sessions) - 1) * MaxCalls
         /\ Cardinality(Others(s)) \in Nat
<1>1. /\ IsFiniteSet(Sessions \ {s})
      /\ Cardinality(Sessions \ {s}) = Cardinality(Sessions) - 1
  BY RoomAssumption, FS_RemoveElement
<1>2. PICK one \in Int : one = 1
  OBVIOUS
<1>3. IsFiniteSet(one .. MaxCalls)
  BY BoundAssumption, FS_Interval
<1>4. Cardinality(one .. MaxCalls) = MaxCalls
  <2>1. Cardinality(one .. MaxCalls) = IF one > MaxCalls THEN 0 ELSE MaxCalls - one + 1
    BY BoundAssumption, FS_Interval
  <2> QED
    BY <1>2, <2>1, BoundAssumption
<1>5. Others(s) = (Sessions \ {s}) \X (one .. MaxCalls)
  BY <1>2 DEF Others
<1>6. /\ IsFiniteSet(Others(s))
      /\ Cardinality(Others(s)) = Cardinality(Sessions \ {s}) * Cardinality(one .. MaxCalls)
  BY <1>1, <1>3, <1>5, FS_Product, Zenon
<1>7. Cardinality(Others(s)) \in Nat
  BY <1>6, FS_CardinalityType, Zenon
<1> QED
  BY <1>1, <1>4, <1>6, <1>7, Zenon

\* What a call can be kept from leaves part of the range.
LEMMA RoomLeft ==
  ASSUME NEW s \in Sessions
  PROVE  Room(s) \in Nat /\ 2 * Room(s) + 2 < PORT_BASE
<1> DEFINE n == Cardinality(Sessions) - 1
           m == n * MaxCalls
<1>1. n \in Int
  BY RoomAssumption, FS_CardinalityType
<1>2. MaxCalls * n = m /\ m = Cardinality(Others(s)) /\ m \in Nat
  BY <1>1, OthersCounted, BoundAssumption
<1>3. 2 * (MaxFails + MaxTaken + m) + 2 < PORT_BASE
  BY <1>2, RoomAssumption
<1> HIDE DEF m
<1> QED
  BY <1>2, <1>3, BoundAssumption DEF Room

\* The counts of ClimbInv are numbers.
LEMMA ObstaclesCounted ==
  ASSUME NEW s \in Sessions, IsFiniteSet(busy)
  PROVE  /\ IsFiniteSet(busy \cap Ahead(s)) /\ IsFiniteSet(Rivals(s))
         /\ Cardinality(busy \cap Ahead(s)) \in Nat
         /\ Cardinality(busy \cap Ahead(s)) <= Cardinality(busy)
         /\ Cardinality(Rivals(s)) \in Nat
         /\ Cardinality(Rivals(s)) <= Cardinality(Others(s))
<1>1. Rivals(s) \in SUBSET Others(s)
  BY DEF Rivals
<1> QED
  BY <1>1, OthersCounted, FS_Subset, FS_Intersection, FS_CardinalityType

\* A candidate only goes up during a call: the window loses ports at its front.
LEMMA WindowFalls ==
  ASSUME TypeInv, [Next]_vars, NEW s \in Sessions, pc[s] # "out", pc'[s] # "out"
  PROVE  /\ cursor'[s] = cursor[s]
         /\ \/ candidate'[s] = candidate[s]
            \/ candidate'[s] = candidate[s] + 2 /\ (ProbeFails(s) \/ SocketFails(s))
         /\ Ahead(s)' \subseteq Ahead(s)
<1>1. /\ cursor'[s] = cursor[s]
      /\ \/ candidate'[s] = candidate[s]
         \/ candidate'[s] = candidate[s] + 2 /\ (ProbeFails(s) \/ SocketFails(s))
  <2>1. ASSUME NEW t \in Sessions, GetSomePort(t)
        PROVE  /\ cursor'[s] = cursor[s]
               /\ \/ candidate'[s] = candidate[s]
                  \/ candidate'[s] = candidate[s] + 2 /\ (ProbeFails(s) \/ SocketFails(s))
    BY <2>1 DEF TypeInv, TypeOK, GetSomePort, Enter, ProbeSucceeds, ProbeCloses, ProbeFails,
       SocketFails, Return, After
  <2>2. ASSUME NEW p \in Foreign, Occupy(p) \/ Release(p)
        PROVE  UNCHANGED <<cursor, candidate>>
    BY <2>2 DEF Occupy, Release
  <2> QED
    BY <2>1, <2>2 DEF Next, vars
<1>2. candidate[s] \in Nat /\ cursor[s] \in Nat /\ candidate'[s] >= candidate[s]
  BY <1>1 DEF TypeInv, TypeOK, Candidates
<1>3. FirstCandidate(cursor[s]) \in Nat
  BY <1>2, PortAssumption, SMT DEF FirstCandidate
<1>4. FirstCandidate(cursor[s])' = FirstCandidate(cursor[s])
  BY <1>1 DEF FirstCandidate
<1> DEFINE end == FirstCandidate(cursor[s]) + PORT_BASE - 1
<1>5. candidate'[s] .. end \subseteq candidate[s] .. end
  BY <1>1, <1>2, <1>3, PortAssumption
<1>6. /\ Ahead(s) = {c % PortSpace : c \in candidate[s] .. end}
      /\ Ahead(s)' = {c % PortSpace : c \in candidate'[s] .. end}
  BY <1>4 DEF Ahead
<1> HIDE DEF end
<1> QED
  BY <1>1, <1>5, <1>6

\* A call of another session that was in nobody's way does not get in the way.
LEMMA RivalsFall ==
  ASSUME TypeInv, [Next]_vars, NEW s \in Sessions, Ahead(s)' \subseteq Ahead(s)
  PROVE  Rivals(s)' \subseteq Rivals(s)
<1> SUFFICES ASSUME NEW t \in Sessions \ {s}, NEW i \in 1 .. MaxCalls,
                    <<t, i>> \in Rivals(s)'
             PROVE  <<t, i>> \in Rivals(s)
  BY DEF Rivals, Others
<1>1. \/ i > calls'[t]
      \/ /\ i = calls'[t]
         /\ \/ pc'[t] = "probing"
            \/ pc'[t] = "bound" /\ (candidate'[t] % PortSpace) \in Ahead(s)
  BY DEF Rivals
<1>2. calls[t] \in Nat /\ i \in Nat
  BY BoundAssumption DEF TypeInv, TypeOK
<1> SUFFICES \/ i > calls[t]
             \/ /\ i = calls[t]
                /\ \/ pc[t] = "probing"
                   \/ pc[t] = "bound" /\ (candidate[t] % PortSpace) \in Ahead(s)
  BY DEF Rivals, Others
<1>3. CASE Enter(t)
  <2>1. calls'[t] = calls[t] + 1
    BY <1>3 DEF Enter, TypeInv, TypeOK
  <2> QED
    BY <1>1, <1>2, <2>1
<1>4. CASE ProbeSucceeds(t) \/ ProbeCloses(t) \/ ProbeFails(t) \/ SocketFails(t) \/ Return(t)
  <2>1. /\ calls'[t] = calls[t]
        /\ \/ pc'[t] \in {"out", "found"}
           \/ pc[t] = "probing"
    BY <1>4 DEF ProbeSucceeds, ProbeCloses, ProbeFails, SocketFails, Return, TypeInv, TypeOK
  <2> QED
    BY <1>1, <2>1
<1>5. CASE calls'[t] = calls[t] /\ pc'[t] = pc[t] /\ candidate'[t] = candidate[t]
  BY <1>1, <1>5
<1>6. ASSUME NEW u \in Sessions, GetSomePort(u), u # t
      PROVE  calls'[t] = calls[t] /\ pc'[t] = pc[t] /\ candidate'[t] = candidate[t]
  BY <1>6 DEF TypeInv, TypeOK, GetSomePort, Enter, ProbeSucceeds, ProbeCloses, ProbeFails,
     SocketFails, Return
<1>7. ASSUME NEW p \in Foreign, Occupy(p) \/ Release(p)
      PROVE  UNCHANGED <<calls, pc, candidate>>
  BY <1>7 DEF Occupy, Release
<1> QED
  BY <1>3, <1>4, <1>5, <1>6, <1>7 DEF Next, GetSomePort, vars

LEMMA ClimbInit == Init => ClimbInv
BY FS_EmptySet, BoundAssumption DEF Init, ClimbInv

\* A call starts with nothing climbed, and all that can be in its way is room
\* for it.
LEMMA ClimbStarts ==
  ASSUME TypeInv, ClimbInv, NEW s \in Sessions, Enter(s)
  PROVE  (/\ calls[s] > 0
          /\ Climbed(s) >= 0
          /\ Climbed(s) + 2 * Obstacles(s) <= 2 * Room(s))'
<1>1. /\ candidate'[s] = FirstCandidate(portTmp) /\ cursor'[s] = portTmp
      /\ calls'[s] = calls[s] + 1 /\ busy' = busy /\ taken' = taken /\ fails' = fails
  BY DEF Enter, TypeInv, TypeOK
<1>2. /\ calls[s] \in Nat /\ portTmp \in Nat
      /\ taken \in Nat /\ taken <= MaxTaken /\ fails \in Nat /\ fails <= MaxFails
      /\ MaxTaken \in Nat /\ MaxFails \in Nat
  BY BoundAssumption DEF TypeInv, TypeOK, Candidates
<1>3. FirstCandidate(portTmp) \in Nat
  BY <1>2, PortAssumption, SMT DEF FirstCandidate
<1>4. Climbed(s)' = 0
  <2>1. Climbed(s)' = candidate'[s] - FirstCandidate(cursor'[s])
    BY DEF Climbed, FirstCandidate
  <2> HIDE DEF Climbed
  <2> QED
    BY <1>1, <1>3, <2>1
<1>5. /\ (Cardinality(busy \cap Ahead(s)))' \in Nat
      /\ (Cardinality(busy \cap Ahead(s)))' <= Cardinality(busy')
      /\ Cardinality(Rivals(s))' \in Nat
      /\ Cardinality(Rivals(s))' <= Cardinality(Others(s))
      /\ Cardinality(Others(s)) \in Nat
  <2>1. IsFiniteSet(busy')
    BY <1>1 DEF ClimbInv
  <2>2. /\ Rivals(s)' \in SUBSET Others(s)
        /\ (busy \cap Ahead(s))' = busy' \cap Ahead(s)'
    BY DEF Rivals, Others
  <2> QED
    BY <2>1, <2>2, OthersCounted, FS_Subset, FS_Intersection, FS_CardinalityType
<1>6. Cardinality(busy') <= taken /\ Cardinality(busy') \in Nat
  BY <1>1, FS_CardinalityType DEF ClimbInv
<1>7. /\ Obstacles(s)' = Cardinality(busy \cap Ahead(s))' + Cardinality(Rivals(s))'
                          + (MaxFails - fails) + (MaxTaken - taken)
      /\ Room(s)' = MaxFails + MaxTaken + Cardinality(Others(s))
  BY <1>1 DEF Obstacles, Room, Others
<1>8. Obstacles(s)' <= Room(s)' /\ Obstacles(s)' \in Nat /\ Room(s)' \in Nat
  BY <1>2, <1>5, <1>6, <1>7
<1> QED
  BY <1>1, <1>2, <1>4, <1>8

\* The counts of two states, when none of them goes up.
LEMMA ClimbKept ==
  ASSUME TypeInv, ClimbInv, [Next]_vars, NEW s \in Sessions, pc[s] # "out", pc'[s] # "out"
  PROVE  (/\ calls[s] > 0
          /\ Climbed(s) >= 0
          /\ Climbed(s) + 2 * Obstacles(s) <= 2 * Room(s))'
<1> DEFINE b == Cardinality(busy \cap Ahead(s))
           r == Cardinality(Rivals(s))
           o == Cardinality(Others(s))
<1>1. /\ cursor'[s] = cursor[s] /\ Ahead(s)' \subseteq Ahead(s)
      /\ \/ candidate'[s] = candidate[s]
         \/ candidate'[s] = candidate[s] + 2 /\ (ProbeFails(s) \/ SocketFails(s))
  BY WindowFalls
<1>2. Rivals(s)' \subseteq Rivals(s)
  BY <1>1, RivalsFall
<1>3. /\ b \in Nat /\ r \in Nat /\ o \in Nat
      /\ IsFiniteSet(busy \cap Ahead(s)) /\ IsFiniteSet(Rivals(s)) /\ IsFiniteSet(busy)
  BY ObstaclesCounted, OthersCounted DEF ClimbInv
<1>4. r' \in Nat /\ r' <= r
  <2>1. Rivals(s)' \in SUBSET Rivals(s)
    BY <1>2
  <2> QED
    BY <1>3, <2>1, FS_Subset, FS_CardinalityType
<1>5. /\ taken \in Nat /\ fails \in Nat /\ MaxTaken \in Nat /\ MaxFails \in Nat
      /\ calls[s] \in Nat /\ candidate[s] \in Nat /\ cursor[s] \in Nat
      /\ taken <= MaxTaken /\ fails <= MaxFails
      /\ FirstCandidate(cursor[s]) \in Nat
  <2>1. cursor[s] \in Nat
    BY DEF TypeInv, TypeOK, Candidates
  <2>2. FirstCandidate(cursor[s]) \in Nat
    BY <2>1, PortAssumption, SMT DEF FirstCandidate
  <2> QED
    BY <2>1, <2>2, BoundAssumption DEF TypeInv, TypeOK, Candidates
<1>6. /\ calls[s] > 0 /\ Climbed(s) >= 0 /\ Climbed(s) \in Int
      /\ Climbed(s) + 2 * (b + r + (MaxFails - fails) + (MaxTaken - taken))
           <= 2 * (MaxFails + MaxTaken + o)
  BY <1>5 DEF ClimbInv, Climbed, Obstacles, Room
<1> DEFINE climbed == candidate'[s] - FirstCandidate(cursor[s])
<1> SUFFICES /\ calls'[s] > 0
             /\ climbed >= 0
             /\ climbed + 2 * (b' + r' + (MaxFails - fails') + (MaxTaken - taken'))
                  <= 2 * (MaxFails + MaxTaken + o)
  BY <1>1 DEF Climbed, FirstCandidate, Obstacles, Room, Others
<1>7. calls'[s] > 0
  <2>1. ASSUME NEW t \in Sessions, GetSomePort(t)
        PROVE  calls'[s] \in {calls[s], calls[s] + 1}
    BY <2>1 DEF TypeInv, TypeOK, GetSomePort, Enter, ProbeSucceeds, ProbeCloses, ProbeFails,
       SocketFails, Return
  <2>2. ASSUME NEW p \in Foreign, Occupy(p) \/ Release(p)
        PROVE  calls' = calls
    BY <2>2 DEF Occupy, Release
  <2>3. calls'[s] \in {calls[s], calls[s] + 1}
    BY <2>1, <2>2 DEF Next, vars
  <2> QED
    BY <1>5, <1>6, <2>3
<1>8. ASSUME NEW up \in Nat, candidate'[s] = candidate[s] + 2 * up,
             b' \in Nat, fails' \in Nat, taken' \in Nat,
             b' + r' - fails' - taken' + up <= b + r - fails - taken
      PROVE  /\ climbed >= 0
             /\ climbed + 2 * (b' + r' + (MaxFails - fails') + (MaxTaken - taken'))
                  <= 2 * (MaxFails + MaxTaken + o)
  <2>1. climbed = Climbed(s) + 2 * up
    BY <1>5, <1>8 DEF Climbed
  <2>2. MaxFails + MaxTaken + o \in Nat
    BY <1>3, <1>5
  <2> DEFINE before == b + r + (MaxFails - fails) + (MaxTaken - taken)
             after  == b' + r' + (MaxFails - fails') + (MaxTaken - taken')
             room   == MaxFails + MaxTaken + o
  <2> HIDE DEF climbed, b, r, o
  <2>3. after + up <= before /\ after \in Int /\ before \in Int
    <3>1. b \in Nat /\ r \in Nat
      BY <1>3
    <3>2. r' \in Nat
      BY <1>4
    <3>3. b' \in Nat /\ fails' \in Nat /\ taken' \in Nat /\ up \in Nat
      BY <1>8
    <3>4. b' + r' - fails' - taken' + up <= b + r - fails - taken
      BY <1>8
    <3> DEFINE x == b + r - fails - taken
               y == b' + r' - fails' - taken'
               limits == MaxFails + MaxTaken
    <3>5. before = x + limits /\ x \in Int /\ limits \in Int
      BY <1>5, <3>1
    <3>6. after = y + limits /\ y \in Int
      BY <1>5, <3>2, <3>3
    <3>7. y + up <= x
      BY <3>4
    <3> HIDE DEF x, y, limits, before, after
    <3> QED
      BY <3>3, <3>5, <3>6, <3>7
  <2>4. Climbed(s) + 2 * before <= 2 * room
    BY <1>6
  <2> HIDE DEF before, after, room
  <2>5. climbed >= 0 /\ climbed + 2 * after <= 2 * room
    BY <1>6, <1>8, <2>1, <2>2, <2>3, <2>4 DEF room
  <2> QED
    BY <2>5 DEF after, room
<1>9. ASSUME busy' \subseteq busy
       PROVE  b' \in Nat /\ b' <= b
  <2>1. (busy \cap Ahead(s))' \in SUBSET (busy \cap Ahead(s))
    BY <1>1, <1>9
  <2> QED
    BY <1>3, <2>1, FS_Subset, FS_CardinalityType
<1>10. ASSUME NEW p \in Foreign, Occupy(p)
       PROVE  b' \in Nat /\ b' <= b + 1
  <2>1. (busy \cap Ahead(s))' \in SUBSET ((busy \cap Ahead(s)) \cup {p})
    BY <1>1, <1>10 DEF Occupy
  <2>2. /\ IsFiniteSet((busy \cap Ahead(s)) \cup {p})
        /\ Cardinality((busy \cap Ahead(s)) \cup {p}) \in {b, b + 1}
    BY <1>3, FS_AddElement
  <2> QED
    BY <1>3, <2>1, <2>2, FS_Subset, FS_CardinalityType
<1>11. CASE candidate'[s] = candidate[s] + 2 /\ SocketFails(s)
  <2>1. fails' = fails + 1 /\ taken' = taken /\ busy' = busy
    BY <1>11 DEF SocketFails
  <2> HIDE DEF b, r, climbed, o
  <2>2. /\ b' \in Nat /\ fails' \in Nat /\ taken' \in Nat
        /\ b' + r' - fails' - taken' + 1 <= b + r - fails - taken
    BY <1>3, <1>4, <1>5, <1>9, <2>1
  <2> QED
    BY <1>5, <1>7, <1>8, <1>11, <2>2
<1>12. CASE candidate'[s] = candidate[s] + 2 /\ ProbeFails(s)
  <2> DEFINE p == candidate[s] % PortSpace
             end == FirstCandidate(cursor[s]) + PORT_BASE - 1
  <2>1. /\ fails' = fails /\ taken' = taken /\ busy' = busy /\ pc' = pc /\ calls' = calls
        /\ p \in busy \cup Probed(s)
        /\ \A t \in Sessions \ {s} : candidate'[t] = candidate[t]
    BY <1>12 DEF ProbeFails, Bindable, TypeInv, TypeOK
  <2>2. candidate[s] \in candidate[s] .. end
    <3>1. 2 * (MaxFails + MaxTaken + o) + 2 < PORT_BASE
      BY RoomLeft DEF Room
    <3>2. Climbed(s) < PORT_BASE
      <4> HIDE DEF b, r, o
      <4> QED
        BY <1>3, <1>5, <1>6, <3>1, PortAssumption
    <3> QED
      BY <1>5, <3>2, PortAssumption DEF Climbed
  <2>3. FirstCandidate(cursor[s])' = FirstCandidate(cursor[s])
    BY <1>1 DEF FirstCandidate
  <2>4. /\ Ahead(s) = {c % PortSpace : c \in candidate[s] .. end}
        /\ Ahead(s)' = {c % PortSpace : c \in candidate'[s] .. end}
    BY <2>3 DEF Ahead
  <2>5. p \in Ahead(s)
    BY <2>2, <2>4
  <2>6. p \notin Ahead(s)'
    <3> SUFFICES ASSUME NEW c \in candidate'[s] .. end, p = c % PortSpace
                 PROVE  FALSE
      BY <2>4
    <3>1. /\ c \in Nat /\ candidate[s] < c /\ c < candidate[s] + PortSpace
      BY <1>5, <1>6, <1>12, PortAssumption DEF Climbed
    <3> QED
      BY <1>5, <3>1, ResiduesDiffer
  <2> HIDE DEF p, end
  <2>7. CASE p \in busy
    <3>1. (busy \cap Ahead(s))' \subseteq busy \cap Ahead(s)
      BY <1>1, <2>1
    <3>2. p \in busy \cap Ahead(s) /\ p \notin (busy \cap Ahead(s))'
      BY <2>5, <2>6, <2>7
    <3>3. b' + 1 <= b
      BY <1>3, <3>1, <3>2, CardLess
    <3> HIDE DEF b, r, climbed, o
    <3>4. /\ b' \in Nat /\ fails' \in Nat /\ taken' \in Nat
         /\ b' + r' - fails' - taken' + 1 <= b + r - fails - taken
      BY <1>3, <1>4, <1>5, <1>9, <2>1, <3>3
    <3> QED
      BY <1>5, <1>7, <1>8, <1>12, <3>4
  <2>8. CASE p \in Probed(s)
    <3>1. PICK t \in Sessions \ {s} : pc[t] = "bound" /\ p = candidate[t] % PortSpace
      BY <2>8 DEF Probed
    <3>2. calls[t] > 0 /\ calls[t] \in 1 .. MaxCalls
      BY <3>1, BoundAssumption DEF ClimbInv, TypeInv, TypeOK
    <3> DEFINE i == calls[t]
    <3>3. <<t, i>> \in Rivals(s)
      BY <2>5, <3>1, <3>2 DEF Rivals, Others
    <3>4. <<t, i>> \notin Rivals(s)'
      <4>1. calls'[t] = i /\ pc'[t] = "bound" /\ candidate'[t] % PortSpace = p
        BY <2>1, <3>1
      <4>2. ~(i > i)
        BY <3>2
      <4> HIDE DEF i
      <4> QED
        BY <2>6, <4>1, <4>2 DEF Rivals
    <3>5. r' + 1 <= r
      BY <1>2, <1>3, <3>3, <3>4, CardLess
    <3> HIDE DEF b, r, climbed, o
    <3>6. /\ b' \in Nat /\ fails' \in Nat /\ taken' \in Nat
         /\ b' + r' - fails' - taken' + 1 <= b + r - fails - taken
      BY <1>3, <1>4, <1>5, <1>9, <2>1, <3>5
    <3> QED
      BY <1>5, <1>7, <1>8, <1>12, <3>6
  <2> QED
    BY <2>1, <2>7, <2>8
<1>13. CASE candidate'[s] = candidate[s]
  <2>1. ASSUME NEW t \in Sessions, GetSomePort(t)
        PROVE  busy' = busy /\ taken' = taken /\ fails' \in {fails, fails + 1}
    BY <2>1 DEF GetSomePort, Enter, ProbeSucceeds, ProbeCloses, ProbeFails, SocketFails, Return
  <2>2. ASSUME NEW q \in Foreign, Release(q)
        PROVE  busy' \subseteq busy /\ taken' = taken /\ fails' = fails
    BY <2>2 DEF Release
  <2>3. CASE busy' \subseteq busy /\ taken' = taken /\ fails' \in {fails, fails + 1}
    <3> HIDE DEF b, r, climbed, o
    <3>1. /\ b' \in Nat /\ fails' \in Nat /\ taken' \in Nat
          /\ b' + r' - fails' - taken' + 0 <= b + r - fails - taken
      BY <1>3, <1>4, <1>5, <1>9, <2>3
    <3> QED
      BY <1>5, <1>7, <1>8, <1>13, <3>1
  <2>4. ASSUME NEW q \in Foreign, Occupy(q)
        PROVE  /\ climbed >= 0
               /\ climbed + 2 * (b' + r' + (MaxFails - fails') + (MaxTaken - taken'))
                    <= 2 * (MaxFails + MaxTaken + o)
    <3>1. taken' = taken + 1 /\ fails' = fails
      BY <2>4 DEF Occupy
    <3> HIDE DEF b, r, climbed, o
    <3>2. /\ b' \in Nat /\ fails' \in Nat /\ taken' \in Nat
          /\ b' + r' - fails' - taken' + 0 <= b + r - fails - taken
      BY <1>3, <1>4, <1>5, <1>10, <2>4, <3>1
    <3> QED
      BY <1>5, <1>8, <1>13, <3>2
  <2>5. CASE UNCHANGED vars
    BY <2>3, <2>5 DEF vars
  <2> QED
    BY <1>7, <2>1, <2>2, <2>3, <2>4, <2>5 DEF Next
<1> QED
  BY <1>1, <1>11, <1>12, <1>13

LEMMA ClimbNext == TypeInv /\ ClimbInv /\ [Next]_vars => ClimbInv'
<1> SUFFICES ASSUME TypeInv, ClimbInv, [Next]_vars
             PROVE  ClimbInv'
  OBVIOUS
<1>1. IsFiniteSet(busy') /\ Cardinality(busy') <= taken'
  <2>1. IsFiniteSet(busy) /\ Cardinality(busy) <= taken /\ taken \in Nat
    BY DEF ClimbInv, TypeInv, TypeOK
  <2>2. Cardinality(busy) \in Nat
    BY <2>1, FS_CardinalityType
  <2>3. ASSUME NEW t \in Sessions, GetSomePort(t)
        PROVE  busy' = busy /\ taken' = taken
    BY <2>3 DEF GetSomePort, Enter, ProbeSucceeds, ProbeCloses, ProbeFails, SocketFails, Return
  <2>4. ASSUME NEW p \in Foreign, Occupy(p)
        PROVE  IsFiniteSet(busy') /\ Cardinality(busy') <= taken'
    <3>1. busy' = busy \cup {p} /\ taken' = taken + 1
      BY <2>4 DEF Occupy
    <3>2. IsFiniteSet(busy \cup {p}) /\ Cardinality(busy \cup {p}) <= Cardinality(busy) + 1
      BY <2>1, <2>2, FS_AddElement
    <3> QED
      BY <2>1, <2>2, <3>1, <3>2, FS_CardinalityType
  <2>5. ASSUME NEW p \in Foreign, Release(p)
        PROVE  IsFiniteSet(busy') /\ Cardinality(busy') <= taken'
    <3>1. busy' \in SUBSET busy /\ taken' = taken
      BY <2>5 DEF Release
    <3>2. IsFiniteSet(busy') /\ Cardinality(busy') <= Cardinality(busy)
      BY <2>1, <3>1, FS_Subset
    <3> QED
      BY <2>1, <2>2, <3>1, <3>2, FS_CardinalityType
  <2> QED
    BY <2>1, <2>3, <2>4, <2>5 DEF Next, vars
<1>2. ASSUME NEW s \in Sessions, pc'[s] # "out", pc[s] = "out"
      PROVE  Enter(s)
  <2>1. ASSUME NEW t \in Sessions, GetSomePort(t)
        PROVE  Enter(s)
    BY <1>2, <2>1 DEF TypeInv, TypeOK, GetSomePort, Enter, ProbeSucceeds, ProbeCloses,
       ProbeFails, SocketFails, Return
  <2>2. ASSUME NEW p \in Foreign, Occupy(p) \/ Release(p)
        PROVE  pc' = pc
    BY <2>2 DEF Occupy, Release
  <2> QED
    BY <1>2, <2>1, <2>2 DEF Next, vars
<1>3. ASSUME NEW s \in Sessions, pc'[s] # "out"
      PROVE  (/\ calls[s] > 0
              /\ Climbed(s) >= 0
              /\ Climbed(s) + 2 * Obstacles(s) <= 2 * Room(s))'
  <2>1. CASE pc[s] = "out"
    BY <1>2, <1>3, <2>1, ClimbStarts
  <2>2. CASE pc[s] # "out"
    BY <1>3, <2>2, ClimbKept
  <2> QED
    BY <2>1, <2>2
<1> QED
  BY <1>1, <1>3 DEF ClimbInv

\* A candidate less than a turn above the one that follows c is not c.
LEMMA NotRound ==
  ASSUME NEW c \in Nat, NEW d \in Nat, d + 2 < PORT_BASE
  PROVE  FirstCandidate(c) + d # c
<1> DEFINE q == (c + 2) \div PORT_BASE
           r == (c + 2) % PORT_BASE
           m == PORT_BASE * q
<1>1. /\ PORT_BASE \in Nat /\ PORT_BASE > 0
      /\ q \in Nat /\ r \in Nat /\ c + 2 = m + r /\ m \in Nat
  BY PortAssumption, SMT
<1>2. FirstCandidate(c) = PORT_BASE + r
  BY DEF FirstCandidate
<1> SUFFICES ASSUME PORT_BASE + r + d = c
             PROVE  FALSE
  BY <1>2
<1>3. \/ q = 0 /\ m = 0
      \/ q = 1 /\ m = PORT_BASE
      \/ q >= 2 /\ m >= 2 * PORT_BASE
  <2>1. CASE q = 0
    BY <1>1, <2>1
  <2>2. CASE q = 1
    BY <1>1, <2>2
  <2>3. CASE q >= 2
    <3>1. PORT_BASE * q >= PORT_BASE * 2
      BY <1>1, <2>3
    <3> QED
      BY <1>1, <2>3, <3>1
  <2> QED
    BY <1>1, <2>1, <2>2, <2>3
<1> HIDE DEF q, r, m
<1> QED
  BY <1>1, <1>3

\* What a call returns is not the cursor it read (GetSomePort).
LEMMA PortIsNew ==
  ASSUME TypeInv, ClimbInv, NEW s \in Sessions, pc[s] # "out"
  PROVE  candidate[s] # cursor[s]
<1>1. /\ taken \in Nat /\ fails \in Nat /\ MaxTaken \in Nat /\ MaxFails \in Nat
      /\ taken <= MaxTaken /\ fails <= MaxFails /\ candidate[s] \in Nat /\ cursor[s] \in Nat
  BY BoundAssumption DEF TypeInv, TypeOK, Candidates
<1>2. FirstCandidate(cursor[s]) \in Nat
  BY <1>1, PortAssumption, SMT DEF FirstCandidate
<1>3. /\ Cardinality(busy \cap Ahead(s)) \in Nat /\ Cardinality(Rivals(s)) \in Nat
  BY ObstaclesCounted DEF ClimbInv
<1>4. Obstacles(s) \in Nat
  BY <1>1, <1>3 DEF Obstacles
<1>5. Climbed(s) \in Nat /\ Climbed(s) + 2 * Obstacles(s) <= 2 * Room(s)
  BY <1>1, <1>2 DEF ClimbInv, Climbed
<1>6. Climbed(s) + 2 < PORT_BASE
  BY <1>4, <1>5, RoomLeft, PortAssumption
<1>7. FirstCandidate(cursor[s]) + Climbed(s) = candidate[s]
  BY <1>1, <1>2 DEF Climbed
<1> QED
  BY <1>1, <1>5, <1>6, <1>7, NotRound

\* A call that reads the cursor its session wrote last returns another port,
\* for every number of sessions, every range and port space, and all that may
\* be in the way of one call as long as the range has room for it (GetSomePort).
THEOREM NextPortIsAnother == Spec => NextPortDiffers
<1>1. Init => TypeInv /\ ClimbInv
  BY AllEvenInit, TypeInit, ClimbInit DEF TypeInv
<1>2. TypeInv /\ ClimbInv /\ [Next]_vars => (TypeInv /\ ClimbInv)'
  BY AllEvenNext, TypeNext, ClimbNext DEF TypeInv
<1>3. TypeInv /\ ClimbInv /\ [Next]_vars
        => [\A s \in Sessions :
              Return(s) /\ port[s] # 0 /\ cursor[s] = port[s] => port'[s] # port[s]]_vars
  <2> SUFFICES ASSUME TypeInv, ClimbInv, NEW s \in Sessions, Return(s), cursor[s] = port[s]
               PROVE  port'[s] # port[s]
    OBVIOUS
  <2>1. port'[s] = candidate[s] /\ pc[s] # "out"
    BY DEF Return, TypeInv, TypeOK
  <2> QED
    BY <2>1, PortIsNew
<1> QED
  BY <1>1, <1>2, <1>3, PTL DEF Spec, NextPortDiffers

-----------------------------------------------------------------------------
(* The inductive invariant                                                 *)

Shapes ==
  /\ DOMAIN table = Fds
  /\ ev \in [Sessions -> EvPlaces]
  /\ rx \in [Sessions -> RxPlaces]
  /\ fds \in [Sessions -> [Uses -> -1 .. MaxFd - 1]]
  /\ disturbed \subseteq Sessions
  /\ pc \in [Sessions -> {"out", "probing", "bound", "found"}]

\* What a session holds at each place of its two threads.
PlaceInv ==
  \A s \in Sessions :
    /\ ev[s] = "connect" => fds[s]["tcp"] = 0
    /\ ev[s] = "closed" => \A u \in Uses : fds[s][u] = -1
    /\ pc[s] # "out" => ev[s] \in {"video", "audio"}
    /\ fds[s]["probe"] # -1 => pc[s] \in {"probing", "bound"}
    /\ fds[s]["rtp"] # -1 => rx[s] \in {"rtcp", "file", "loop", "closertp"}
    /\ fds[s]["rtcp"] # -1 => rx[s] \in {"file", "loop", "closertp", "closertcp"}
    /\ fds[s]["file"] # -1 => rx[s] = "loop"
    /\ rx[s] # "none" => ev[s] \in {"up", "closed"}
    /\ ev[s] = "closed" => rx[s] \in {"none", "done"}

\* An entry of the table is known to the session it belongs to, unless its
\* receiver left its sockets behind.
EntryInv ==
  \A fd \in Fds, s \in Sessions :
    Owner(fd) = s =>
      \/ Use(fd) = "lost"
      \/ /\ Use(fd) \in Uses
         /\ \/ fds[s][Use(fd)] = fd
            \/ rx[s] = "gone" /\ Use(fd) \in {"rtp", "rtcp"}
         /\ Use(fd) = "tcp" => fd # 0

\* Between its two sockets an undisturbed receiver has no free descriptor
\* below the first one.
OrderInv ==
  \A s \in Sessions :
    rx[s] = "rtcp" /\ s \notin disturbed =>
      \A fd \in Fds : fd <= fds[s]["rtp"] => Use(fd) # "free"

MInv == Shapes /\ PlaceInv /\ EntryInv /\ OwnDescriptors /\ OrderInv /\ SelectSeesRtp

-----------------------------------------------------------------------------
(* The kernel gives out the lowest free descriptor                         *)

LEMMA Lowest ==
  ASSUME ~Full
  PROVE  /\ NewFd \in Fds
         /\ Use(NewFd) = "free"
         /\ \A fd \in Fds : Use(fd) = "free" => NewFd <= fd
<1>1. FreeFds \subseteq Nat /\ FreeFds # {}
  BY SocketsAssumption DEF Full, FreeFds, Fds
<1>2. PICK least \in FreeFds : \A fd \in FreeFds : ~(<<fd, least>> \in OpToRel(<, Nat))
  BY <1>1, NatLessThanWellFounded, WFMin
<1>3. \A fd \in FreeFds : least <= fd
  <2> SUFFICES ASSUME NEW fd \in FreeFds
               PROVE  least <= fd
    OBVIOUS
  <2>1. ~(fd < least)
    BY <1>1, <1>2 DEF OpToRel
  <2> QED
    BY <1>1, <2>1
<1>4. NewFd \in FreeFds /\ \A fd \in FreeFds : NewFd <= fd
  BY <1>3 DEF NewFd
<1> QED
  BY <1>4 DEF FreeFds

-----------------------------------------------------------------------------
(* The sessions call GetSomePort as PortAlloc describes                    *)

LEMMA PortsStep == [MediaNext]_mediaVars => [Next]_vars
<1> SUFFICES ASSUME [MediaNext]_mediaVars
             PROVE  [Next]_vars
  OBVIOUS
<1>1. ASSUME NEW s \in Sessions, GetSomePortStep(s)
      PROVE  [Next]_vars
  <2>1. GetSomePort(s) \/ UNCHANGED vars
    BY <1>1 DEF GetSomePortStep, EntersGetSomePort, ProbeOpens, ProbeBinds, ProbeRefused,
                ProbeShuts, NoDescriptor, SetupAnswered, GetSomePort
  <2> QED
    BY <2>1 DEF Next
<1>2. ASSUME NEW s \in Sessions, EvStep(s), ~GetSomePortStep(s)
      PROVE  [Next]_vars
  BY <1>2 DEF EvStep, TcpConnect, ConnectOpens, ConnectLeaks, NoSocket, Connected,
              ConnectRefused, SkipsSetup, ExchangeFails, RtspPlayCommand, closeRtspClient
<1>3. ASSUME NEW s \in Sessions, RxStep(s)
      PROVE  [Next]_vars
  BY <1>3 DEF RxStep, CreateRtpServer, CreateRtcpServer, OpensServer, OpenFile,
              OpenFileFails, RtspHandleUdpConnectQuits,
       ClosesFile, ClosesRtp, ClosesRtcp, CloseAndGoOn, AsksForTeardown
<1>4. ASSUME NEW p \in Foreign, OccupyUdp(p)
      PROVE  [Next]_vars
  BY <1>4 DEF OccupyUdp
<1>5. CASE UNCHANGED mediaVars
  BY <1>5 DEF mediaVars
<1> QED
  BY <1>1, <1>2, <1>3, <1>4, <1>5 DEF MediaNext

\* Whatever the sessions do with connections, sockets and files, their calls of
\* GetSomePort are those of PortAlloc (RtspSendSetupCommand and its caller).
THEOREM SocketsImplementPorts == MediaSpec => Spec
<1>1. MediaInit => Init
  BY DEF MediaInit
<1> QED
  BY <1>1, PortsStep, PTL DEF MediaSpec, Spec

-----------------------------------------------------------------------------
(* What a step does to the table                                           *)

LEMMA MInvInit == MediaInit => MInv
<1> SUFFICES ASSUME MediaInit
             PROVE  MInv
  OBVIOUS
<1> USE SocketsAssumption DEF MediaInit, Init
<1>1. Shapes
  BY DEF Shapes, EvPlaces, RxPlaces, Uses, Fds
<1>2. PlaceInv
  BY DEF PlaceInv, Uses
<1>3. EntryInv
  BY DEF EntryInv, Owner, Free, Stdio, Entry
<1>4. OwnDescriptors
  BY DEF OwnDescriptors, Uses
<1>5. OrderInv /\ SelectSeesRtp
  BY DEF OrderInv, SelectSeesRtp
<1> QED
  BY <1>1, <1>2, <1>3, <1>4, <1>5 DEF MInv


\* Both say who the descriptors belong to, from either side.
TableInv == EntryInv /\ OwnDescriptors

\* Receivers keep their sockets, and none leaves them behind.
GoneSame == \A t \in Sessions : rx[t] = "gone" => rx'[t] = "gone"

\* Nothing is opened or closed.
LEMMA KeptTable ==
  ASSUME MInv, GoneSame, UNCHANGED <<table, fds>>
  PROVE  TableInv'
BY SMT DEF MInv, GoneSame, TableInv, EntryInv, OwnDescriptors, Owner, Use

\* A session opens a descriptor and knows its number.
LEMMA OpenedTable ==
  ASSUME MInv, GoneSame, ~Full, NEW s \in Sessions, NEW u \in Uses, NEW p,
         Opens(s, u, p), Holds(s, u, NewFd),
         fds[s][u] = -1 \/ (u = "tcp" /\ fds[s][u] = 0), u = "tcp" => NewFd > 0
  PROVE  TableInv' /\ (DOMAIN table)' = Fds /\ fds' \in [Sessions -> [Uses -> -1 .. MaxFd - 1]]
<1> USE Lowest, SocketsAssumption DEF MInv, Opens, Holds
<1>1. (DOMAIN table)' = Fds
  BY DEF Shapes
<1>2. /\ fds' \in [Sessions -> [Uses -> -1 .. MaxFd - 1]]
      /\ fds'[s][u] = NewFd
      /\ \A t \in Sessions, v \in Uses : t # s \/ v # u => fds'[t][v] = fds[t][v]
  BY SMT DEF Shapes, Fds
<1>3. /\ NewFd \in Fds
      /\ table'[NewFd].owner = s /\ table'[NewFd].use = u
      /\ \A fd \in Fds : fd # NewFd => table'[fd] = table[fd]
  BY DEF Shapes, Entry
<1> HIDE DEF Opens, Holds
<1>4. OwnDescriptors'
  <2> SUFFICES ASSUME NEW t \in Sessions, NEW v \in Uses, fds'[t][v] > 0
               PROVE  table'[fds'[t][v]].owner = t /\ table'[fds'[t][v]].use = v
    BY DEF OwnDescriptors, Owner, Use
  <2>1. CASE t = s /\ v = u
    BY <1>2, <1>3, <2>1
  <2>2. CASE t # s \/ v # u
    <3>1. fds[t][v] \in Fds /\ fds[t][v] > 0 /\ fds'[t][v] = fds[t][v]
      BY <1>2, <2>2, SMT DEF Shapes, Fds
    <3>2. Owner(fds[t][v]) = t /\ Use(fds[t][v]) = v
      BY <3>1 DEF OwnDescriptors
    <3>3. fds[t][v] # NewFd
      BY <3>2 DEF Uses
    <3> QED
      BY <1>3, <3>1, <3>2, <3>3 DEF Owner, Use
  <2> QED
    BY <2>1, <2>2
<1>5. EntryInv'
  <2> SUFFICES ASSUME NEW fd \in Fds, NEW t \in Sessions, table'[fd].owner = t
               PROVE  \/ table'[fd].use = "lost"
                      \/ /\ table'[fd].use \in Uses
                         /\ \/ fds'[t][table'[fd].use] = fd
                            \/ rx'[t] = "gone" /\ table'[fd].use \in {"rtp", "rtcp"}
                         /\ table'[fd].use = "tcp" => fd # 0
    BY DEF EntryInv, Owner, Use
  <2>1. CASE fd = NewFd
    BY <1>2, <1>3, <2>1, SMT DEF Fds
  <2>2. CASE fd # NewFd
    <3>1. Owner(fd) = t /\ table'[fd].use = Use(fd)
      BY <1>3, <2>2 DEF Owner, Use
    <3> DEFINE left == rx[t] = "gone" /\ Use(fd) \in {"rtp", "rtcp"}
    <3>2. CASE t = s /\ Use(fd) = u /\ ~left
      <4>1. fds[s][u] = fd /\ (u = "tcp" => fd # 0)
        BY <3>1, <3>2 DEF EntryInv, Uses
      <4> QED
        BY <4>1, SMT DEF Fds
    <3>3. CASE t # s \/ Use(fd) # u \/ left
      BY <1>2, <3>1, <3>3 DEF EntryInv, GoneSame
    <3> QED
      BY <3>2, <3>3
  <2> QED
    BY <2>1, <2>2
<1> QED
  BY <1>1, <1>2, <1>4, <1>5 DEF TableInv

\* A session opens a descriptor and loses its number.
LEMMA LostTable ==
  ASSUME MInv, GoneSame, ~Full, NEW s \in Sessions, Opens(s, "lost", 0), UNCHANGED fds
  PROVE  TableInv' /\ (DOMAIN table)' = Fds
<1> USE Lowest DEF MInv
<1>1. /\ (DOMAIN table)' = Fds /\ NewFd \in Fds
      /\ table'[NewFd].owner = s /\ table'[NewFd].use = "lost"
      /\ \A fd \in Fds : fd # NewFd => table'[fd] = table[fd]
  BY DEF Shapes, Opens, Entry
<1>2. OwnDescriptors'
  <2> SUFFICES ASSUME NEW t \in Sessions, NEW v \in Uses, fds[t][v] > 0
               PROVE  table'[fds[t][v]].owner = t /\ table'[fds[t][v]].use = v
    BY DEF OwnDescriptors, Owner, Use
  <2>1. fds[t][v] \in Fds /\ Owner(fds[t][v]) = t /\ Use(fds[t][v]) = v
    BY SMT, SocketsAssumption DEF OwnDescriptors, Shapes, Fds
  <2>2. fds[t][v] # NewFd
    BY <2>1 DEF Uses
  <2> QED
    BY <1>1, <2>1, <2>2 DEF Owner, Use
<1>3. EntryInv'
  BY <1>1 DEF EntryInv, GoneSame, Owner, Use
<1> QED
  BY <1>1, <1>2, <1>3 DEF TableInv

\* A session closes descriptors it knows and forgets their numbers.
LEMMA FreedTable ==
  ASSUME MInv, GoneSame, NEW s \in Sessions, NEW U \in SUBSET Uses,
         Frees({fds[s][u] : u \in U}),
         fds' \in [Sessions -> [Uses -> -1 .. MaxFd - 1]],
         \A t \in Sessions \ {s} : fds'[t] = fds[t],
         \A u \in U : fds'[s][u] <= 0,
         \A u \in Uses \ U : fds'[s][u] = fds[s][u] \/ (fds[s][u] = -1 /\ fds'[s][u] = -1)
  PROVE  TableInv' /\ (DOMAIN table)' = Fds
<1> USE SocketsAssumption DEF MInv
<1>1. /\ (DOMAIN table)' = Fds
      /\ \A fd \in Fds :
           \/ fd \in {fds[s][u] : u \in U} /\ table'[fd].owner = "nobody"
           \/ fd \notin {fds[s][u] : u \in U} /\ table'[fd] = table[fd]
  BY DEF Frees, Free, Entry
<1>2. OwnDescriptors'
  <2> SUFFICES ASSUME NEW t \in Sessions, NEW v \in Uses, fds'[t][v] > 0
               PROVE  table'[fds'[t][v]].owner = t /\ table'[fds'[t][v]].use = v
    BY DEF OwnDescriptors, Owner, Use
  <2>1. fds'[t][v] = fds[t][v] /\ ~(t = s /\ v \in U)
    BY SMT DEF Shapes
  <2>2. fds[t][v] \in Fds /\ Owner(fds[t][v]) = t /\ Use(fds[t][v]) = v
    BY <2>1, SMT DEF OwnDescriptors, Shapes, Fds
  <2>3. ASSUME NEW u \in U, fds[s][u] = fds[t][v]
        PROVE  FALSE
    <3>1. Owner(fds[s][u]) = s /\ Use(fds[s][u]) = u
      BY <2>1, <2>3 DEF OwnDescriptors
    <3> QED
      BY <2>1, <2>2, <2>3, <3>1
  <2> QED
    BY <1>1, <2>1, <2>2, <2>3 DEF Owner, Use
<1>3. EntryInv'
  <2> SUFFICES ASSUME NEW fd \in Fds, NEW t \in Sessions, table'[fd].owner = t
               PROVE  \/ table'[fd].use = "lost"
                      \/ /\ table'[fd].use \in Uses
                         /\ \/ fds'[t][table'[fd].use] = fd
                            \/ rx'[t] = "gone" /\ table'[fd].use \in {"rtp", "rtcp"}
                         /\ table'[fd].use = "tcp" => fd # 0
    BY DEF EntryInv, Owner, Use
  <2>1. /\ Owner(fd) = t /\ table'[fd].use = Use(fd)
        /\ fd \notin {fds[s][u] : u \in U}
    BY <1>1 DEF Owner, Use
  <2> DEFINE left == rx[t] = "gone" /\ Use(fd) \in {"rtp", "rtcp"}
  <2>2. CASE Use(fd) = "lost" \/ left
    BY <2>1, <2>2 DEF EntryInv, GoneSame
  <2>3. CASE ~(Use(fd) = "lost" \/ left)
    <3>1. /\ Use(fd) \in Uses /\ fds[t][Use(fd)] = fd
          /\ Use(fd) = "tcp" => fd # 0
      BY <2>1, <2>3 DEF EntryInv
    <3>2. t = s => Use(fd) \in Uses \ U
      BY <2>1, <3>1
    <3> QED
      BY <2>1, <3>1, <3>2
  <2> QED
    BY <2>2, <2>3
<1> QED
  BY <1>1, <1>2, <1>3 DEF TableInv

-----------------------------------------------------------------------------
(* Each step keeps the invariant                                           *)

LEMMA NoSocketKeeps ==
  ASSUME MInv, NEW s \in Sessions, NoSocket(s)
  PROVE  MInv'
<1> USE DEF MInv, NoSocket, Moves, vars
<1>1. Shapes'
  BY SMT DEF Shapes, EvPlaces, RxPlaces
<1>2. PlaceInv'
  BY SMT DEF Shapes, PlaceInv, Uses
<1>3. TableInv'
  <2>1. GoneSame
    BY DEF GoneSame, Shapes, PlaceInv
  <2> QED
    BY <2>1, KeptTable
<1>4. OrderInv' /\ SelectSeesRtp'
  BY SMT DEF Shapes, PlaceInv, OrderInv, SelectSeesRtp, Use
<1> QED
  BY <1>1, <1>2, <1>3, <1>4 DEF TableInv

LEMMA ConnectedKeeps ==
  ASSUME MInv, NEW s \in Sessions, Connected(s)
  PROVE  MInv'
<1> USE DEF MInv, Connected, Moves, vars
<1>1. Shapes'
  BY SMT DEF Shapes, EvPlaces, RxPlaces
<1>2. PlaceInv'
  BY SMT DEF Shapes, PlaceInv, Uses
<1>3. TableInv'
  <2>1. GoneSame
    BY DEF GoneSame, Shapes, PlaceInv
  <2> QED
    BY <2>1, KeptTable
<1>4. OrderInv' /\ SelectSeesRtp'
  BY SMT DEF Shapes, PlaceInv, OrderInv, SelectSeesRtp, Use
<1> QED
  BY <1>1, <1>2, <1>3, <1>4 DEF TableInv

LEMMA EntersGetSomePortKeeps ==
  ASSUME MInv, NEW s \in Sessions, EntersGetSomePort(s)
  PROVE  MInv'
<1> USE DEF MInv, EntersGetSomePort, Enter, Moves
<1>1. Shapes'
  <2>1. pc' \in [Sessions -> {"out", "probing", "bound", "found"}]
    BY DEF Shapes
  <2>2. ev' \in [Sessions -> EvPlaces]
    BY DEF Shapes, EvPlaces
  <2> QED
    BY <2>1, <2>2 DEF Shapes
<1>2. PlaceInv'
  BY SMT DEF Shapes, PlaceInv, Uses
<1>3. TableInv'
  <2>1. GoneSame
    BY DEF GoneSame, Shapes, PlaceInv
  <2> QED
    BY <2>1, KeptTable
<1>4. OrderInv' /\ SelectSeesRtp'
  BY SMT DEF Shapes, PlaceInv, OrderInv, SelectSeesRtp, Use
<1> QED
  BY <1>1, <1>2, <1>3, <1>4 DEF TableInv

LEMMA SkipsSetupKeeps ==
  ASSUME MInv, NEW s \in Sessions, SkipsSetup(s)
  PROVE  MInv'
<1> USE DEF MInv, SkipsSetup, Moves, vars
<1>1. Shapes'
  BY SMT DEF Shapes, EvPlaces, RxPlaces
<1>2. PlaceInv'
  BY SMT DEF Shapes, PlaceInv, Uses
<1>3. TableInv'
  <2>1. GoneSame
    BY DEF GoneSame, Shapes, PlaceInv
  <2> QED
    BY <2>1, KeptTable
<1>4. OrderInv' /\ SelectSeesRtp'
  BY SMT DEF Shapes, PlaceInv, OrderInv, SelectSeesRtp, Use
<1> QED
  BY <1>1, <1>2, <1>3, <1>4 DEF TableInv

LEMMA ProbeBindsKeeps ==
  ASSUME MInv, NEW s \in Sessions, ProbeBinds(s)
  PROVE  MInv'
<1> USE DEF MInv, ProbeBinds, ProbeSucceeds, Moves, sockVars
<1>1. Shapes'
  BY SMT DEF Shapes, EvPlaces, RxPlaces
<1>2. PlaceInv'
  BY SMT DEF Shapes, PlaceInv, Uses
<1>3. TableInv'
  <2>1. GoneSame
    BY DEF GoneSame, Shapes, PlaceInv
  <2> QED
    BY <2>1, KeptTable
<1>4. OrderInv' /\ SelectSeesRtp'
  BY SMT DEF Shapes, PlaceInv, OrderInv, SelectSeesRtp, Use
<1> QED
  BY <1>1, <1>2, <1>3, <1>4 DEF TableInv

LEMMA NoDescriptorKeeps ==
  ASSUME MInv, NEW s \in Sessions, NoDescriptor(s)
  PROVE  MInv'
<1> USE DEF MInv, NoDescriptor, SocketFails, Moves
<1>1. Shapes'
  BY SMT DEF Shapes, EvPlaces, RxPlaces
<1>2. PlaceInv'
  BY SMT DEF Shapes, PlaceInv, Uses
<1>3. TableInv'
  <2>1. GoneSame
    BY DEF GoneSame, Shapes, PlaceInv
  <2> QED
    BY <2>1, KeptTable
<1>4. OrderInv' /\ SelectSeesRtp'
  BY SMT DEF Shapes, PlaceInv, OrderInv, SelectSeesRtp, Use
<1> QED
  BY <1>1, <1>2, <1>3, <1>4 DEF TableInv

LEMMA SetupAnsweredKeeps ==
  ASSUME MInv, NEW s \in Sessions, SetupAnswered(s)
  PROVE  MInv'
<1> USE DEF MInv, SetupAnswered, Return, Moves
<1>1. Shapes'
  BY SMT DEF Shapes, EvPlaces, RxPlaces
<1>2. PlaceInv'
  BY SMT DEF Shapes, PlaceInv, Uses
<1>3. TableInv'
  <2>1. GoneSame
    BY DEF GoneSame, Shapes, PlaceInv
  <2> QED
    BY <2>1, KeptTable
<1>4. OrderInv' /\ SelectSeesRtp'
  BY SMT DEF Shapes, PlaceInv, OrderInv, SelectSeesRtp, Use
<1> QED
  BY <1>1, <1>2, <1>3, <1>4 DEF TableInv

LEMMA ExchangeFailsKeeps ==
  ASSUME MInv, NEW s \in Sessions, ExchangeFails(s)
  PROVE  MInv'
<1> USE DEF MInv, ExchangeFails, Moves, vars
<1>1. Shapes'
  BY SMT DEF Shapes, EvPlaces, RxPlaces
<1>2. PlaceInv'
  BY SMT DEF Shapes, PlaceInv, Uses
<1>3. TableInv'
  <2>1. GoneSame
    BY DEF GoneSame, Shapes, PlaceInv
  <2> QED
    BY <2>1, KeptTable
<1>4. OrderInv' /\ SelectSeesRtp'
  BY SMT DEF Shapes, PlaceInv, OrderInv, SelectSeesRtp, Use
<1> QED
  BY <1>1, <1>2, <1>3, <1>4 DEF TableInv

LEMMA RtspPlayCommandKeeps ==
  ASSUME MInv, NEW s \in Sessions, RtspPlayCommand(s)
  PROVE  MInv'
<1> USE DEF MInv, RtspPlayCommand, Moves, vars
<1>1. Shapes'
  BY SMT DEF Shapes, EvPlaces, RxPlaces
<1>2. PlaceInv'
  BY SMT DEF Shapes, PlaceInv, Uses
<1>3. TableInv'
  <2>1. GoneSame
    BY DEF GoneSame, Shapes, PlaceInv
  <2> QED
    BY <2>1, KeptTable
<1>4. OrderInv' /\ SelectSeesRtp'
  BY SMT DEF Shapes, PlaceInv, OrderInv, SelectSeesRtp, Use
<1> QED
  BY <1>1, <1>2, <1>3, <1>4 DEF TableInv

LEMMA ConnectOpensKeeps ==
  ASSUME MInv, NEW s \in Sessions, ConnectOpens(s)
  PROVE  MInv'
<1> USE SocketsAssumption DEF MInv, ConnectOpens, Moves, vars
<1>1. TableInv' /\ (DOMAIN table)' = Fds /\ fds' \in [Sessions -> [Uses -> -1 .. MaxFd - 1]]
  <2>1. GoneSame
    BY DEF GoneSame, Shapes
  <2>2. "tcp" \in Uses /\ (fds[s]["tcp"] = -1 \/ ("tcp" = "tcp" /\ fds[s]["tcp"] = 0))
    BY SMT DEF PlaceInv, Uses
  <2> QED
    BY <2>1, <2>2, OpenedTable
<1>2. Shapes'
  <2>1. ev' \in [Sessions -> EvPlaces] /\ rx' \in [Sessions -> RxPlaces]
    BY DEF Shapes, EvPlaces, RxPlaces
  <2> QED
    BY <1>1, <2>1 DEF Shapes
<1>3. PlaceInv'
  BY SMT DEF Shapes, PlaceInv, Uses, Holds
<1>4. OrderInv' /\ SelectSeesRtp'
  BY Lowest, SMT DEF Shapes, PlaceInv, OrderInv, SelectSeesRtp, Use, Uses, Opens, Holds, Entry
<1> QED
  BY <1>1, <1>2, <1>3, <1>4 DEF TableInv

LEMMA ProbeOpensKeeps ==
  ASSUME MInv, NEW s \in Sessions, ProbeOpens(s)
  PROVE  MInv'
<1> USE SocketsAssumption DEF MInv, ProbeOpens, Moves, vars
<1>1. TableInv' /\ (DOMAIN table)' = Fds /\ fds' \in [Sessions -> [Uses -> -1 .. MaxFd - 1]]
  <2>1. GoneSame
    BY DEF GoneSame, Shapes
  <2>2. "probe" \in Uses /\ (fds[s]["probe"] = -1 \/ ("probe" = "tcp" /\ fds[s]["probe"] = 0))
    BY SMT DEF PlaceInv, Uses
  <2> QED
    BY <2>1, <2>2, OpenedTable
<1>2. Shapes'
  <2>1. ev' \in [Sessions -> EvPlaces] /\ rx' \in [Sessions -> RxPlaces]
    BY DEF Shapes, EvPlaces, RxPlaces
  <2> QED
    BY <1>1, <2>1 DEF Shapes
<1>3. PlaceInv'
  BY SMT DEF Shapes, PlaceInv, Uses, Holds
<1>4. OrderInv' /\ SelectSeesRtp'
  BY Lowest, SMT DEF Shapes, PlaceInv, OrderInv, SelectSeesRtp, Use, Uses, Opens, Holds, Entry
<1> QED
  BY <1>1, <1>2, <1>3, <1>4 DEF TableInv

LEMMA OpenFileKeeps ==
  ASSUME MInv, NEW s \in Sessions, OpenFile(s)
  PROVE  MInv'
<1> USE SocketsAssumption DEF MInv, OpenFile, Moves, vars
<1>1. TableInv' /\ (DOMAIN table)' = Fds /\ fds' \in [Sessions -> [Uses -> -1 .. MaxFd - 1]]
  <2>1. GoneSame
    BY DEF GoneSame, Shapes
  <2>2. "file" \in Uses /\ (fds[s]["file"] = -1 \/ ("file" = "tcp" /\ fds[s]["file"] = 0))
    BY SMT DEF PlaceInv, Uses
  <2> QED
    BY <2>1, <2>2, OpenedTable
<1>2. Shapes'
  <2>1. ev' \in [Sessions -> EvPlaces] /\ rx' \in [Sessions -> RxPlaces]
    BY DEF Shapes, EvPlaces, RxPlaces
  <2> QED
    BY <1>1, <2>1 DEF Shapes
<1>3. PlaceInv'
  BY SMT DEF Shapes, PlaceInv, Uses, Holds
<1>4. OrderInv' /\ SelectSeesRtp'
  BY Lowest, SMT DEF Shapes, PlaceInv, OrderInv, SelectSeesRtp, Use, Uses, Opens, Holds, Entry
<1> QED
  BY <1>1, <1>2, <1>3, <1>4 DEF TableInv

LEMMA ConnectLeaksKeeps ==
  ASSUME MInv, NEW s \in Sessions, ConnectLeaks(s)
  PROVE  MInv'
<1> USE DEF MInv, ConnectLeaks, Moves, vars
<1>1. TableInv' /\ (DOMAIN table)' = Fds
  <2>1. GoneSame
    BY DEF GoneSame
  <2> QED
    BY <2>1, LostTable
<1>2. Shapes'
  BY <1>1, SMT DEF Shapes, EvPlaces
<1>3. PlaceInv'
  BY SMT DEF Shapes, PlaceInv
<1>4. OrderInv' /\ SelectSeesRtp'
  BY Lowest, SMT DEF Shapes, OrderInv, SelectSeesRtp, Use, Opens, Entry
<1> QED
  BY <1>1, <1>2, <1>3, <1>4 DEF TableInv

LEMMA ConnectRefusedKeeps ==
  ASSUME MInv, NEW s \in Sessions, ConnectRefused(s)
  PROVE  MInv'
<1> USE SocketsAssumption DEF MInv, ConnectRefused, vars, Moves, Closes, Disturbed, Holds
<1> DEFINE closed == {"tcp"}
<1>1. /\ fds' \in [Sessions -> [Uses -> -1 .. MaxFd - 1]]
      /\ \A t \in Sessions \ {s} : fds'[t] = fds[t]
      /\ \A u \in closed : fds'[s][u] <= 0
      /\ \A u \in Uses \ closed :
           fds'[s][u] = fds[s][u] \/ (fds[s][u] = -1 /\ fds'[s][u] = -1)
  BY SMT DEF Shapes, PlaceInv, Uses
<1>2. TableInv' /\ (DOMAIN table)' = Fds
  <2>1. GoneSame
    BY DEF GoneSame, Shapes
  <2>2. closed \in SUBSET Uses /\ Frees({fds[s][u] : u \in closed})
    BY DEF Uses, Frees
  <2> HIDE DEF closed, MInv, ConnectRefused
  <2> QED
    BY <1>1, <2>1, <2>2, FreedTable
<1>3. Shapes'
  BY <1>1, <1>2, SMT DEF Shapes, EvPlaces, RxPlaces
<1>4. PlaceInv'
  BY SMT DEF Shapes, PlaceInv, Uses
<1>5. OrderInv' /\ SelectSeesRtp'
  BY SMT DEF Shapes, PlaceInv, OrderInv, SelectSeesRtp, Uses
<1> QED
  BY <1>2, <1>3, <1>4, <1>5 DEF TableInv

LEMMA ProbeRefusedKeeps ==
  ASSUME MInv, NEW s \in Sessions, ProbeRefused(s)
  PROVE  MInv'
<1> USE SocketsAssumption DEF MInv, ProbeRefused, ProbeFails, Moves, Closes, Disturbed, Holds
<1> DEFINE closed == {"probe"}
<1>1. /\ fds' \in [Sessions -> [Uses -> -1 .. MaxFd - 1]]
      /\ \A t \in Sessions \ {s} : fds'[t] = fds[t]
      /\ \A u \in closed : fds'[s][u] <= 0
      /\ \A u \in Uses \ closed :
           fds'[s][u] = fds[s][u] \/ (fds[s][u] = -1 /\ fds'[s][u] = -1)
  BY SMT DEF Shapes, PlaceInv, Uses
<1>2. TableInv' /\ (DOMAIN table)' = Fds
  <2>1. GoneSame
    BY DEF GoneSame, Shapes
  <2>2. closed \in SUBSET Uses /\ Frees({fds[s][u] : u \in closed})
    BY DEF Uses, Frees
  <2> HIDE DEF closed, MInv, ProbeRefused
  <2> QED
    BY <1>1, <2>1, <2>2, FreedTable
<1>3. Shapes'
  BY <1>1, <1>2, SMT DEF Shapes, EvPlaces, RxPlaces
<1>4. PlaceInv'
  BY SMT DEF Shapes, PlaceInv, Uses
<1>5. OrderInv' /\ SelectSeesRtp'
  BY SMT DEF Shapes, PlaceInv, OrderInv, SelectSeesRtp, Uses
<1> QED
  BY <1>2, <1>3, <1>4, <1>5 DEF TableInv

LEMMA ProbeShutsKeeps ==
  ASSUME MInv, NEW s \in Sessions, ProbeShuts(s)
  PROVE  MInv'
<1> USE SocketsAssumption DEF MInv, ProbeShuts, ProbeCloses, Moves, Closes, Disturbed, Holds
<1> DEFINE closed == {"probe"}
<1>1. /\ fds' \in [Sessions -> [Uses -> -1 .. MaxFd - 1]]
      /\ \A t \in Sessions \ {s} : fds'[t] = fds[t]
      /\ \A u \in closed : fds'[s][u] <= 0
      /\ \A u \in Uses \ closed :
           fds'[s][u] = fds[s][u] \/ (fds[s][u] = -1 /\ fds'[s][u] = -1)
  BY SMT DEF Shapes, PlaceInv, Uses
<1>2. TableInv' /\ (DOMAIN table)' = Fds
  <2>1. GoneSame
    BY DEF GoneSame, Shapes
  <2>2. closed \in SUBSET Uses /\ Frees({fds[s][u] : u \in closed})
    BY DEF Uses, Frees
  <2> HIDE DEF closed, MInv, ProbeShuts
  <2> QED
    BY <1>1, <2>1, <2>2, FreedTable
<1>3. Shapes'
  BY <1>1, <1>2, SMT DEF Shapes, EvPlaces, RxPlaces
<1>4. PlaceInv'
  BY SMT DEF Shapes, PlaceInv, Uses
<1>5. OrderInv' /\ SelectSeesRtp'
  BY SMT DEF Shapes, PlaceInv, OrderInv, SelectSeesRtp, Uses
<1> QED
  BY <1>2, <1>3, <1>4, <1>5 DEF TableInv

LEMMA closeRtspClientKeeps ==
  ASSUME MInv, NEW s \in Sessions, closeRtspClient(s)
  PROVE  MInv'
<1> USE SocketsAssumption DEF MInv, closeRtspClient, vars, Moves, Closes, Disturbed
<1> DEFINE closed == {"tcp"}
<1>1. /\ fds' \in [Sessions -> [Uses -> -1 .. MaxFd - 1]]
      /\ \A t \in Sessions \ {s} : fds'[t] = fds[t]
      /\ \A u \in closed : fds'[s][u] <= 0
      /\ \A u \in Uses \ closed :
           fds'[s][u] = fds[s][u] \/ (fds[s][u] = -1 /\ fds'[s][u] = -1)
  BY SMT DEF Shapes, PlaceInv, Uses
<1>2. TableInv' /\ (DOMAIN table)' = Fds
  <2>1. GoneSame
    BY DEF GoneSame, Shapes
  <2>2. closed \in SUBSET Uses /\ Frees({fds[s][u] : u \in closed})
    BY DEF Uses, Frees
  <2> HIDE DEF closed, MInv, closeRtspClient
  <2> QED
    BY <1>1, <2>1, <2>2, FreedTable
<1>3. Shapes'
  BY <1>1, <1>2, SMT DEF Shapes, EvPlaces, RxPlaces
<1>4. PlaceInv'
  BY SMT DEF Shapes, PlaceInv, Uses
<1>5. OrderInv' /\ SelectSeesRtp'
  BY SMT DEF Shapes, PlaceInv, OrderInv, SelectSeesRtp, Uses
<1> QED
  BY <1>2, <1>3, <1>4, <1>5 DEF TableInv

\* The receiver closes its descriptors one after the other.
LEMMA CloseAndGoOnKeeps ==
  ASSUME MInv, NEW s \in Sessions, NEW place, NEW use, NEW next,
         CloseAndGoOn(s, place, use, next),
         \/ place = "loop" /\ use = "file" /\ next = "closertp"
         \/ place = "closertp" /\ use = "rtp" /\ next = "closertcp"
         \/ place = "closertcp" /\ use = "rtcp" /\ next = "teardown"
  PROVE  MInv'
<1> USE SocketsAssumption DEF MInv
<1>0. /\ rx[s] = place /\ rx' = [rx EXCEPT ![s] = next]
      /\ Frees({fds[s][use]}) /\ fds' = [fds EXCEPT ![s][use] = -1]
      /\ disturbed' = (disturbed \cup {t \in Sessions : rx[t] = "rtcp"}) \ {s}
      /\ UNCHANGED <<pc, ev>>
      /\ use \in Uses /\ next \in RxPlaces
  BY DEF CloseAndGoOn, Disturbed, Holds, Moves, vars, Uses, RxPlaces
<1> DEFINE closed == {use}
<1>1. /\ fds' \in [Sessions -> [Uses -> -1 .. MaxFd - 1]]
      /\ \A t \in Sessions \ {s} : fds'[t] = fds[t]
      /\ \A u \in closed : fds'[s][u] <= 0
      /\ \A u \in Uses \ closed :
           fds'[s][u] = fds[s][u] \/ (fds[s][u] = -1 /\ fds'[s][u] = -1)
  BY <1>0, SMT DEF Shapes
<1>2. TableInv' /\ (DOMAIN table)' = Fds
  <2>1. GoneSame
    BY <1>0 DEF GoneSame, Shapes
  <2>2. closed \in SUBSET Uses /\ Frees({fds[s][u] : u \in closed})
    BY <1>0 DEF Frees
  <2> HIDE DEF closed, MInv
  <2> QED
    BY <1>1, <2>1, <2>2, FreedTable
<1>3. Shapes'
  BY <1>0, <1>1, <1>2, SMT DEF Shapes
<1>4. PlaceInv'
  <2>1. ASSUME NEW t \in Sessions, t # s
        PROVE  fds'[t] = fds[t] /\ rx'[t] = rx[t]
    BY <1>0, <1>1, <2>1 DEF Shapes
  <2>2. rx'[s] = next /\ \A u \in Uses : fds'[s][u] = IF u = use THEN -1 ELSE fds[s][u]
    BY <1>0, SMT DEF Shapes
  <2>3. rx[s] = place /\ rx[s] # "none" /\ rx[s] # "done"
    BY <1>0
  <2> QED
    BY <1>0, <2>1, <2>2, <2>3 DEF PlaceInv, Uses
<1>5. OrderInv' /\ SelectSeesRtp'
  BY <1>0, SMT DEF Shapes, PlaceInv, OrderInv, SelectSeesRtp, Uses
<1> QED
  BY <1>2, <1>3, <1>4, <1>5 DEF TableInv

LEMMA AsksForTeardownKeeps ==
  ASSUME MInv, NEW s \in Sessions, AsksForTeardown(s)
  PROVE  MInv'
<1> USE DEF MInv
<1>1. /\ rx[s] = "teardown" /\ rx' = [rx EXCEPT ![s] = "done"]
      /\ UNCHANGED <<pc, table, ev, fds, disturbed>>
  BY DEF AsksForTeardown, Moves, vars
<1>2. Shapes'
  BY <1>1 DEF Shapes, RxPlaces
<1>3. PlaceInv'
  BY <1>1, SMT DEF Shapes, PlaceInv
<1>4. TableInv'
  <2>1. GoneSame
    BY <1>1 DEF GoneSame, Shapes
  <2> QED
    BY <1>1, <2>1, KeptTable
<1>5. OrderInv' /\ SelectSeesRtp'
  BY <1>1, SMT DEF Shapes, OrderInv, SelectSeesRtp, Use
<1> QED
  BY <1>2, <1>3, <1>4, <1>5 DEF TableInv

LEMMA RtspHandleUdpConnectQuitsKeeps ==
  ASSUME MInv, NEW s \in Sessions, RtspHandleUdpConnectQuits(s)
  PROVE  MInv'
<1>1. CASE ClosesFile(s)
  BY <1>1, CloseAndGoOnKeeps DEF ClosesFile
<1>2. CASE ClosesRtp(s)
  BY <1>2, CloseAndGoOnKeeps DEF ClosesRtp
<1>3. CASE ClosesRtcp(s)
  BY <1>3, CloseAndGoOnKeeps DEF ClosesRtcp
<1> QED
  BY <1>1, <1>2, <1>3, AsksForTeardownKeeps DEF RtspHandleUdpConnectQuits

LEMMA OpenFileFailsKeeps ==
  ASSUME MInv, NEW s \in Sessions, OpenFileFails(s)
  PROVE  MInv'
<1> USE SocketsAssumption DEF MInv, OpenFileFails, Moves, vars, ForgetsMedia
<1>1. Shapes'
  BY SMT DEF Shapes, RxPlaces, Uses
<1>2. PlaceInv'
  BY SMT DEF Shapes, PlaceInv, Uses
<1>3. OwnDescriptors'
  BY SMT DEF Shapes, OwnDescriptors, Owner, Use, Uses
<1>4. EntryInv'
  <2> SUFFICES ASSUME NEW fd \in Fds, NEW t \in Sessions, Owner(fd) = t, Use(fd) # "lost"
               PROVE  /\ Use(fd) \in Uses
                      /\ \/ fds'[t][Use(fd)] = fd
                         \/ rx'[t] = "gone" /\ Use(fd) \in {"rtp", "rtcp"}
                      /\ Use(fd) = "tcp" => fd # 0
    BY DEF EntryInv, Owner, Use
  <2>1. /\ Use(fd) \in Uses
        /\ \/ fds[t][Use(fd)] = fd
           \/ rx[t] = "gone" /\ Use(fd) \in {"rtp", "rtcp"}
        /\ Use(fd) = "tcp" => fd # 0
    BY DEF EntryInv
  <2>2. CASE t # s
    BY <2>1, <2>2, SMT DEF Shapes
  <2>3. CASE t = s
    <3>1. fds[s]["probe"] = -1 /\ fds[s]["file"] = -1
      BY DEF PlaceInv
    <3>2. rx'[s] = "gone" /\ fds'[s]["tcp"] = fds[s]["tcp"]
      BY SMT DEF Shapes, Uses
    <3>3. fd # -1
      BY SMT DEF Fds
    <3> QED
      BY <2>1, <2>3, <3>1, <3>2, <3>3 DEF Uses
  <2> QED
    BY <2>2, <2>3
<1>5. OrderInv' /\ SelectSeesRtp'
  BY SMT DEF Shapes, OrderInv, SelectSeesRtp, Use, Uses
<1> QED
  BY <1>1, <1>2, <1>3, <1>4, <1>5

\* The first socket of a receiver.
LEMMA CreateRtpServerKeeps ==
  ASSUME MInv, NEW s \in Sessions, CreateRtpServer(s)
  PROVE  MInv'
<1> USE SocketsAssumption DEF MInv
<1>1. /\ rx[s] = "rtp" /\ rx' = [rx EXCEPT ![s] = "rtcp"]
      /\ CreateUdpServer(s, "rtp", cport[s].from)
      /\ UNCHANGED <<vars, ev, disturbed>>
  BY DEF CreateRtpServer, OpensServer, SocketOrder, Moves
<1>2. GoneSame /\ fds[s]["rtp"] = -1 /\ fds[s]["rtcp"] = -1 /\ "rtp" \in Uses
  BY <1>1, SMT DEF GoneSame, Shapes, PlaceInv, Uses
<1>3. CASE Binds(s, "rtp", cport[s].from)
  <2>1. PICK q : ~Full /\ Opens(s, "rtp", q) /\ Holds(s, "rtp", NewFd)
    BY <1>3 DEF Binds
  <2>2. TableInv' /\ (DOMAIN table)' = Fds /\ fds' \in [Sessions -> [Uses -> -1 .. MaxFd - 1]]
    BY <1>2, <2>1, OpenedTable
  <2>3. Shapes'
    <3>1. rx' \in [Sessions -> RxPlaces]
      BY <1>1 DEF Shapes, RxPlaces
    <3> QED
      BY <1>1, <2>2, <3>1 DEF Shapes, vars
  <2>4. PlaceInv'
    BY <1>1, <2>1, SMT DEF Shapes, PlaceInv, Uses, Holds, vars
  <2>5. OrderInv'
    BY <1>1, <2>1, Lowest, SMT DEF Shapes, OrderInv, Use, Uses, Fds, Opens, Holds, Entry
  <2>6. SelectSeesRtp'
    BY <1>1, <2>1, SMT DEF Shapes, SelectSeesRtp, Uses, Holds
  <2> QED
    BY <2>2, <2>3, <2>4, <2>5, <2>6 DEF TableInv
<1>4. CASE BindFails(s, cport[s].from)
  <2>1. ~Full /\ Opens(s, "lost", 0) /\ UNCHANGED fds
    BY <1>4 DEF BindFails
  <2>2. TableInv' /\ (DOMAIN table)' = Fds
    BY <1>2, <2>1, LostTable
  <2>3. Shapes'
    BY <1>1, <2>1, <2>2, SMT DEF Shapes, RxPlaces, vars
  <2>4. PlaceInv'
    BY <1>1, <2>1, SMT DEF Shapes, PlaceInv, vars
  <2>5. OrderInv' /\ SelectSeesRtp'
    BY <1>1, <1>2, <2>1, Lowest, SMT
       DEF Shapes, OrderInv, SelectSeesRtp, Use, Fds, Opens, Entry
  <2> QED
    BY <2>2, <2>3, <2>4, <2>5 DEF TableInv
<1>5. CASE NoServer
  <2>1. UNCHANGED <<table, fds>>
    BY <1>5 DEF NoServer
  <2>2. TableInv'
    BY <1>2, <2>1, KeptTable
  <2>3. Shapes' /\ PlaceInv'
    BY <1>1, <2>1, SMT DEF Shapes, PlaceInv, RxPlaces, vars
  <2>4. OrderInv' /\ SelectSeesRtp'
    BY <1>1, <1>2, <2>1, SMT DEF Shapes, OrderInv, SelectSeesRtp, Use, Fds
  <2> QED
    BY <2>2, <2>3, <2>4 DEF TableInv
<1> QED
  BY <1>1, <1>3, <1>4, <1>5 DEF CreateUdpServer

\* The second socket gets the higher descriptor.
LEMMA CreateRtcpServerKeeps ==
  ASSUME MInv, NEW s \in Sessions, CreateRtcpServer(s)
  PROVE  MInv'
<1> USE SocketsAssumption DEF MInv
<1>1. /\ rx[s] = "rtcp" /\ rx' = [rx EXCEPT ![s] = "file"]
      /\ CreateUdpServer(s, "rtcp", cport[s].to)
      /\ UNCHANGED <<vars, ev, disturbed>>
  BY DEF CreateRtcpServer, OpensServer, SocketOrder, Moves
<1>2. GoneSame /\ fds[s]["rtcp"] = -1 /\ "rtcp" \in Uses /\ "rtp" \in Uses
  BY <1>1, SMT DEF GoneSame, Shapes, PlaceInv, Uses
<1>3. CASE Binds(s, "rtcp", cport[s].to)
  <2>1. PICK q : ~Full /\ Opens(s, "rtcp", q) /\ Holds(s, "rtcp", NewFd)
    BY <1>3 DEF Binds
  <2>2. TableInv' /\ (DOMAIN table)' = Fds /\ fds' \in [Sessions -> [Uses -> -1 .. MaxFd - 1]]
    BY <1>2, <2>1, OpenedTable
  <2>3. Shapes'
    <3>1. rx' \in [Sessions -> RxPlaces]
      BY <1>1 DEF Shapes, RxPlaces
    <3> QED
      BY <1>1, <2>2, <3>1 DEF Shapes, vars
  <2>4. PlaceInv'
    BY <1>1, <2>1, SMT DEF Shapes, PlaceInv, Uses, Holds, vars
  <2>5. OrderInv'
    BY <1>1, <2>1, Lowest, SMT DEF Shapes, OrderInv, Use, Uses, Opens, Holds, Entry
  <2>6. SelectSeesRtp'
    <3>1. s \notin disturbed => fds[s]["rtp"] < NewFd
      BY <1>1, <1>2, <2>1, Lowest, SMT DEF Shapes, OrderInv, Fds
    <3>2. /\ fds'[s]["rtp"] = fds[s]["rtp"] /\ fds'[s]["rtcp"] = NewFd
          /\ \A t \in Sessions \ {s} : fds'[t] = fds[t] /\ rx'[t] = rx[t]
      BY <1>1, <1>2, <2>1 DEF Shapes, Holds
    <3> QED
      BY <1>1, <3>1, <3>2 DEF SelectSeesRtp
  <2> QED
    BY <2>2, <2>3, <2>4, <2>5, <2>6 DEF TableInv
<1>4. CASE BindFails(s, cport[s].to)
  <2>1. ~Full /\ Opens(s, "lost", 0) /\ UNCHANGED fds
    BY <1>4 DEF BindFails
  <2>2. TableInv' /\ (DOMAIN table)' = Fds
    BY <1>2, <2>1, LostTable
  <2>3. Shapes'
    BY <1>1, <2>1, <2>2, SMT DEF Shapes, RxPlaces, vars
  <2>4. PlaceInv'
    BY <1>1, <2>1, SMT DEF Shapes, PlaceInv, vars
  <2>5. OrderInv' /\ SelectSeesRtp'
    BY <1>1, <1>2, <2>1, Lowest, SMT
       DEF Shapes, OrderInv, SelectSeesRtp, Use, Fds, Opens, Entry
  <2> QED
    BY <2>2, <2>3, <2>4, <2>5 DEF TableInv
<1>5. CASE NoServer
  <2>1. UNCHANGED <<table, fds>>
    BY <1>5 DEF NoServer
  <2>2. TableInv'
    BY <1>2, <2>1, KeptTable
  <2>3. Shapes' /\ PlaceInv'
    BY <1>1, <2>1, SMT DEF Shapes, PlaceInv, RxPlaces, vars
  <2>4. OrderInv' /\ SelectSeesRtp'
    BY <1>1, <1>2, <2>1, SMT DEF Shapes, OrderInv, SelectSeesRtp, Use, Fds
  <2> QED
    BY <2>2, <2>3, <2>4 DEF TableInv
<1> QED
  BY <1>1, <1>3, <1>4, <1>5 DEF CreateUdpServer

LEMMA MInvStep == MInv /\ [MediaNext]_mediaVars => MInv'
<1> SUFFICES ASSUME MInv, [MediaNext]_mediaVars
             PROVE  MInv'
  OBVIOUS
<1>1. ASSUME NEW s \in Sessions, TcpConnect(s)
      PROVE  MInv'
  BY <1>1, ConnectOpensKeeps, ConnectLeaksKeeps, NoSocketKeeps, ConnectedKeeps,
     ConnectRefusedKeeps DEF TcpConnect
<1>2. ASSUME NEW s \in Sessions, GetSomePortStep(s)
      PROVE  MInv'
  BY <1>2, EntersGetSomePortKeeps, ProbeOpensKeeps, ProbeBindsKeeps, ProbeRefusedKeeps,
     ProbeShutsKeeps, NoDescriptorKeeps, SetupAnsweredKeeps DEF GetSomePortStep
<1>3. ASSUME NEW s \in Sessions, EvStep(s), ~TcpConnect(s), ~GetSomePortStep(s)
      PROVE  MInv'
  BY <1>3, SkipsSetupKeeps, ExchangeFailsKeeps, RtspPlayCommandKeeps, closeRtspClientKeeps
     DEF EvStep
<1>4. ASSUME NEW s \in Sessions, RxStep(s)
      PROVE  MInv'
  BY <1>4, CreateRtpServerKeeps, CreateRtcpServerKeeps, OpenFileKeeps, OpenFileFailsKeeps,
     RtspHandleUdpConnectQuitsKeeps DEF RxStep
<1>5. ASSUME UNCHANGED <<pc, table, ev, rx, fds, disturbed>>
      PROVE  MInv'
  BY <1>5 DEF MInv, Shapes, PlaceInv, EntryInv, OwnDescriptors, OrderInv, SelectSeesRtp,
              Owner, Use
<1>6. CASE \E p \in Foreign : OccupyUdp(p)
  BY <1>5, <1>6 DEF OccupyUdp, vars
<1>7. CASE UNCHANGED mediaVars
  BY <1>5, <1>7 DEF mediaVars, sockVars, vars
<1> QED
  BY <1>1, <1>2, <1>3, <1>4, <1>6, <1>7 DEF MediaNext

LEMMA AlwaysMInv == MediaSpec => []MInv
BY MInvInit, MInvStep, PTL DEF MediaSpec

-----------------------------------------------------------------------------
(* How many descriptors a session takes                                    *)

\* The entries of a session that are not its probe or its file: the connection,
\* the sockets and what was lost of them.
Kept(s) == {fd \in Fds : Owner(fd) = s /\ Use(fd) \notin {"probe", "file"}}

\* TcpConnect opens one, each call of CreateUdpServer another.
Limit(s) ==
  (IF ev[s] = "connect" THEN 0 ELSE 1)
    + (IF rx[s] \in {"none", "rtp"} THEN 0 ELSE IF rx[s] = "rtcp" THEN 1 ELSE 2)

CountInv == \A s \in Sessions : Cardinality(Kept(s)) <= Limit(s)

LEMMA FdsFinite == IsFiniteSet(Fds)
BY SocketsAssumption, FS_Interval DEF Fds

LEMMA KeptFinite ==
  ASSUME NEW S \in SUBSET Fds
  PROVE  IsFiniteSet(S) /\ Cardinality(S) \in Nat
BY FdsFinite, FS_Subset, FS_CardinalityType

\* A set with at most one element more.
LEMMA OneMore ==
  ASSUME NEW S \in SUBSET Fds, NEW x \in Fds, NEW T \in SUBSET (S \cup {x})
  PROVE  Cardinality(T) <= Cardinality(S) + 1
<1>1. IsFiniteSet(S) /\ Cardinality(S) \in Nat
  BY KeptFinite
<1>2. /\ IsFiniteSet(S \cup {x})
      /\ Cardinality(S \cup {x}) = IF x \in S THEN Cardinality(S) ELSE Cardinality(S) + 1
  BY <1>1, FS_AddElement
<1>3. Cardinality(T) <= Cardinality(S \cup {x}) /\ Cardinality(T) \in Nat
  BY <1>2, FS_Subset, FS_CardinalityType
<1> QED
  BY <1>1, <1>2, <1>3

LEMMA LimitType ==
  ASSUME NEW s \in Sessions
  PROVE  Limit(s) \in Nat /\ Limit(s)' \in Nat
BY DEF Limit

\* A step that takes nothing and does not go back.
LEMMA CountKept ==
  ASSUME CountInv, \A t \in Sessions : Kept(t)' \subseteq Kept(t) /\ Limit(t) <= Limit(t)'
  PROVE  CountInv'
<1> SUFFICES ASSUME NEW t \in Sessions
             PROVE  Cardinality(Kept(t)') <= Limit(t)'
  BY DEF CountInv
<1>1. Kept(t) \in SUBSET Fds /\ Kept(t)' \in SUBSET Kept(t)
  BY DEF Kept
<1>2. IsFiniteSet(Kept(t)) /\ Cardinality(Kept(t)) \in Nat
  BY <1>1, KeptFinite
<1>3. Cardinality(Kept(t)') <= Cardinality(Kept(t)) /\ Cardinality(Kept(t)') \in Nat
  BY <1>1, <1>2, FS_Subset, FS_CardinalityType
<1> QED
  BY <1>2, <1>3, LimitType DEF CountInv

\* A step that takes one descriptor for s and is allowed one more.
LEMMA CountOneMore ==
  ASSUME MInv, CountInv, ~Full, NEW s \in Sessions, NEW u, NEW p, Opens(s, u, p),
         Limit(s) + 1 <= Limit(s)', \A t \in Sessions \ {s} : Limit(t) <= Limit(t)'
  PROVE  CountInv'
<1>1. /\ NewFd \in Fds /\ table'[NewFd].owner = s
      /\ \A fd \in Fds : fd # NewFd => table'[fd] = table[fd]
  BY Lowest DEF MInv, Shapes, Opens, Entry
<1> SUFFICES ASSUME NEW t \in Sessions
             PROVE  Cardinality(Kept(t)') <= Limit(t)'
  BY DEF CountInv
<1>2. Kept(t) \in SUBSET Fds /\ Kept(t)' \in SUBSET Fds
  BY DEF Kept
<1>3. Kept(t)' \in SUBSET (Kept(t) \cup {NewFd}) /\ (t # s => Kept(t)' \in SUBSET Kept(t))
  BY <1>1 DEF Kept, Owner, Use
<1>4. Cardinality(Kept(t)) \in Nat /\ Cardinality(Kept(t)') \in Nat
  BY <1>2, KeptFinite
<1>5. CASE t = s
  <2>1. Cardinality(Kept(t)') <= Cardinality(Kept(t)) + 1
    BY <1>1, <1>2, <1>3, OneMore
  <2> QED
    BY <1>4, <1>5, <2>1, LimitType DEF CountInv
<1>6. CASE t # s
  <2>1. Cardinality(Kept(t)') <= Cardinality(Kept(t))
    BY <1>2, <1>3, <1>6, KeptFinite, FS_Subset
  <2> QED
    BY <1>4, <1>6, <2>1, LimitType DEF CountInv
<1> QED
  BY <1>5, <1>6

\* What opens or frees nothing of what is counted.
LEMMA KeptShrinks ==
  ASSUME MInv,
         \/ UNCHANGED table
         \/ \E numbers : Frees(numbers)
         \/ ~Full /\ \E s \in Sessions, u \in {"probe", "file"} : Opens(s, u, 0)
  PROVE  \A t \in Sessions : Kept(t)' \subseteq Kept(t)
<1> USE DEF Kept, Owner, Use
<1>1. CASE UNCHANGED table
  BY <1>1
<1>2. ASSUME NEW numbers, Frees(numbers)
      PROVE  \A t \in Sessions : Kept(t)' \subseteq Kept(t)
  BY <1>2, SocketsAssumption DEF Frees, Free, Entry
<1>3. ASSUME ~Full, NEW s \in Sessions, NEW u \in {"probe", "file"}, Opens(s, u, 0)
      PROVE  \A t \in Sessions : Kept(t)' \subseteq Kept(t)
  BY <1>3, Lowest DEF Opens, Entry, MInv, Shapes
<1> QED
  BY <1>1, <1>2, <1>3

\* Neither thread of a session goes back.
Forward == \A t \in Sessions : Limit(t) <= Limit(t)'

LEMMA CountStep == MInv /\ CountInv /\ [MediaNext]_mediaVars => CountInv'
<1> SUFFICES ASSUME MInv, CountInv, [MediaNext]_mediaVars
             PROVE  CountInv'
  OBVIOUS
<1> USE DEF Moves
<1>0. ASSUME NEW s \in Sessions,
             \/ UNCHANGED rx /\ \E to : to # "connect" /\ ev' = [ev EXCEPT ![s] = to]
             \/ UNCHANGED ev /\ rx[s] \notin {"none", "rtp", "rtcp"}
                 /\ \E to \in RxPlaces \ {"none", "rtp", "rtcp"} : rx' = [rx EXCEPT ![s] = to]
             \/ UNCHANGED <<ev, rx>>
      PROVE  Forward
  BY <1>0 DEF Forward, Limit, MInv, Shapes, RxPlaces
<1>1. ASSUME NEW s \in Sessions, ConnectOpens(s) \/ ConnectLeaks(s)
      PROVE  CountInv'
  <2>1. /\ ~Full /\ UNCHANGED rx /\ ev[s] = "connect"
        /\ \E u : Opens(s, u, 0)
        /\ \E to \in {"connecting", "ended"} : ev' = [ev EXCEPT ![s] = to]
    BY <1>1 DEF ConnectOpens, ConnectLeaks
  <2>2. Limit(s) + 1 <= Limit(s)' /\ \A t \in Sessions \ {s} : Limit(t) <= Limit(t)'
    BY <2>1 DEF Limit, MInv, Shapes
  <2> QED
    BY <2>1, <2>2, CountOneMore
<1>2. ASSUME NEW s \in Sessions, NoSocket(s) \/ Connected(s) \/ ConnectRefused(s)
      PROVE  CountInv'
  <2>1. UNCHANGED table \/ \E numbers : Frees(numbers)
    BY <1>2 DEF NoSocket, Connected, ConnectRefused, Closes
  <2>2. Forward
    BY <1>0, <1>2 DEF NoSocket, Connected, ConnectRefused
  <2> QED
    BY <2>1, <2>2, KeptShrinks, CountKept DEF Forward
<1>3. ASSUME NEW s \in Sessions, GetSomePortStep(s)
      PROVE  CountInv'
  <2>1. \/ UNCHANGED table
        \/ \E numbers : Frees(numbers)
        \/ ~Full /\ Opens(s, "probe", 0)
    BY <1>3 DEF GetSomePortStep, EntersGetSomePort, ProbeOpens, ProbeBinds, ProbeRefused,
                ProbeShuts, NoDescriptor, SetupAnswered, Closes, sockVars
  <2>2. Forward
    BY <1>0, <1>3 DEF GetSomePortStep, EntersGetSomePort, ProbeOpens, ProbeBinds, ProbeRefused,
                ProbeShuts, NoDescriptor, SetupAnswered, sockVars
  <2> QED
    BY <2>1, <2>2, KeptShrinks, CountKept DEF Forward
<1>4. ASSUME NEW s \in Sessions, SkipsSetup(s) \/ ExchangeFails(s) \/ closeRtspClient(s)
      PROVE  CountInv'
  <2>1. UNCHANGED table \/ \E numbers : Frees(numbers)
    BY <1>4 DEF SkipsSetup, ExchangeFails, closeRtspClient, Closes
  <2>2. Forward
    BY <1>0, <1>4 DEF SkipsSetup, ExchangeFails, closeRtspClient
  <2> QED
    BY <2>1, <2>2, KeptShrinks, CountKept DEF Forward
<1>5. ASSUME NEW s \in Sessions, RtspPlayCommand(s)
      PROVE  CountInv'
  <2>1. UNCHANGED table
    BY <1>5 DEF RtspPlayCommand
  <2>2. rx[s] = "none"
    BY <1>5 DEF RtspPlayCommand, MInv, PlaceInv
  <2>3. Forward
    BY <1>5, <2>2 DEF RtspPlayCommand, Forward, Limit, MInv, Shapes
  <2> QED
    BY <2>1, <2>3, KeptShrinks, CountKept DEF Forward
<1>6. ASSUME NEW s \in Sessions, NEW place \in {"rtp", "rtcp"}, NEW next,
             place = "rtp" => next = "rtcp", place = "rtcp" => next = "file",
             OpensServer(s, place, next)
      PROVE  CountInv'
  <2>1. /\ rx[s] = place /\ rx' = [rx EXCEPT ![s] = next] /\ UNCHANGED ev
        /\ \/ ~Full /\ \E u, p : Opens(s, u, p)
           \/ UNCHANGED table
    BY <1>6 DEF OpensServer, CreateUdpServer, Binds, BindFails, NoServer
  <2>2. Limit(s) + 1 <= Limit(s)' /\ \A t \in Sessions \ {s} : Limit(t) <= Limit(t)'
    BY <1>6, <2>1 DEF Limit, MInv, Shapes
  <2>3. CASE ~Full /\ \E u, p : Opens(s, u, p)
    BY <2>2, <2>3, CountOneMore
  <2>4. CASE UNCHANGED table
    <3>1. Forward
      BY <2>2, LimitType DEF Forward
    <3> QED
      BY <2>4, <3>1, KeptShrinks, CountKept DEF Forward
  <2> QED
    BY <2>1, <2>3, <2>4
<1>7. ASSUME NEW s \in Sessions,
             OpenFile(s) \/ OpenFileFails(s) \/ RtspHandleUdpConnectQuits(s)
      PROVE  CountInv'
  <2>1. \/ UNCHANGED table
        \/ \E numbers : Frees(numbers)
        \/ ~Full /\ Opens(s, "file", 0)
    BY <1>7 DEF OpenFile, OpenFileFails, RtspHandleUdpConnectQuits,
       ClosesFile, ClosesRtp, ClosesRtcp, CloseAndGoOn, AsksForTeardown
  <2>2. Forward
    <3>1. /\ UNCHANGED ev /\ rx[s] \notin {"none", "rtp", "rtcp"}
          /\ \E to \in RxPlaces \ {"none", "rtp", "rtcp"} : rx' = [rx EXCEPT ![s] = to]
      <4>1. {"loop", "gone", "closertp", "closertcp", "teardown", "done"}
              \subseteq RxPlaces \ {"none", "rtp", "rtcp"}
        BY DEF RxPlaces
      <4>2. CASE OpenFile(s) \/ OpenFileFails(s) \/ AsksForTeardown(s)
        BY <4>1, <4>2 DEF OpenFile, OpenFileFails, AsksForTeardown
      <4>3. CASE ClosesFile(s) \/ ClosesRtp(s) \/ ClosesRtcp(s)
        BY <4>1, <4>3 DEF ClosesFile, ClosesRtp, ClosesRtcp, CloseAndGoOn
      <4> QED
        BY <1>7, <4>2, <4>3 DEF RtspHandleUdpConnectQuits
    <3> QED
      BY <1>0, <3>1
  <2> QED
    BY <2>1, <2>2, KeptShrinks, CountKept DEF Forward
<1>8. CASE (\E p \in Foreign : OccupyUdp(p)) \/ UNCHANGED mediaVars
  <2>1. UNCHANGED <<table, ev, rx>>
    BY <1>8 DEF OccupyUdp, mediaVars, sockVars
  <2>2. Forward
    BY <2>1 DEF Forward, Limit
  <2> QED
    BY <2>1, <2>2, KeptShrinks, CountKept DEF Forward
<1>9. ASSUME NEW s \in Sessions, EvStep(s)
      PROVE  CountInv'
  BY <1>1, <1>2, <1>3, <1>4, <1>5, <1>9 DEF EvStep, TcpConnect
<1>10. ASSUME NEW s \in Sessions, RxStep(s)
       PROVE  CountInv'
  <2>1. CASE CreateRtpServer(s) \/ CreateRtcpServer(s)
    BY <1>6, <2>1 DEF CreateRtpServer, CreateRtcpServer
  <2> QED
    BY <1>7, <1>10, <2>1 DEF RxStep
<1> QED
  BY <1>8, <1>9, <1>10 DEF MediaNext

LEMMA CountInit == MediaInit => CountInv
<1> SUFFICES ASSUME MediaInit, NEW s \in Sessions
             PROVE  Cardinality(Kept(s)) <= Limit(s)
  BY DEF CountInv
<1>1. Kept(s) = {}
  BY SocketsAssumption DEF MediaInit, Kept, Owner, Free, Stdio, Entry
<1> QED
  BY <1>1, FS_EmptySet DEF MediaInit, Limit

\* A session never has its probe and its file open at once, and no more than
\* one of either.
LEMMA WithinBudget == MInv /\ CountInv => DescriptorBudget
<1> SUFFICES ASSUME MInv, CountInv, NEW s \in Sessions
             PROVE  Cardinality(OwnedBy(s)) <= 4
  BY DEF DescriptorBudget
<1>1. Kept(s) \in SUBSET Fds /\ OwnedBy(s) \in SUBSET Fds
  BY DEF Kept, OwnedBy
<1>2. Cardinality(Kept(s)) \in Nat /\ Cardinality(OwnedBy(s)) \in Nat
  BY <1>1, KeptFinite
<1>3. Cardinality(Kept(s)) <= 3
  BY <1>2 DEF CountInv, Limit
<1> DEFINE x == IF rx[s] = "none" THEN fds[s]["probe"] ELSE fds[s]["file"]
<1>4. ASSUME NEW fd \in OwnedBy(s), fd \notin Kept(s)
      PROVE  fd = x
  <2>1. fd \in Fds /\ Owner(fd) = s /\ Use(fd) \in {"probe", "file"}
    BY <1>4 DEF Kept, OwnedBy
  <2>2. fds[s][Use(fd)] = fd
    BY <2>1 DEF MInv, EntryInv
  <2>3. fd # -1
    BY <2>1, SMT DEF Fds
  <2>4. CASE Use(fd) = "probe"
    BY <2>2, <2>3, <2>4 DEF MInv, PlaceInv
  <2>5. CASE Use(fd) = "file"
    BY <2>2, <2>3, <2>5 DEF MInv, PlaceInv
  <2> QED
    BY <2>1, <2>4, <2>5
<1>5. CASE OwnedBy(s) \subseteq Kept(s)
  BY <1>1, <1>2, <1>3, <1>5, KeptFinite, FS_Subset
<1>6. CASE ~(OwnedBy(s) \subseteq Kept(s))
  <2>1. x \in Fds
    BY <1>1, <1>4, <1>6
  <2>2. OwnedBy(s) \in SUBSET (Kept(s) \cup {x})
    BY <1>4
  <2> HIDE DEF x
  <2>3. Cardinality(OwnedBy(s)) <= Cardinality(Kept(s)) + 1
    BY <1>1, <2>1, <2>2, OneMore
  <2> QED
    BY <1>2, <1>3, <2>3
<1> QED
  BY <1>5, <1>6

-----------------------------------------------------------------------------
(* Ports found are ports bound                                             *)

\* The calls of GetSomePort a session made to the end.
Completed(s) == calls[s] - (IF pc[s] = "out" THEN 0 ELSE 1)
Returned == {call \in Sessions \X {1, 2} : call[2] <= Completed(call[1])}

\* One call for the video and one for the audio; no TCP port is taken here.
CallsInv ==
  /\ busy = {}
  /\ calls \in [Sessions -> Nat] /\ DOMAIN cport = Sessions
  /\ \A s \in Sessions :
       /\ ev[s] \in {"connect", "connecting", "setup1"} => calls[s] = 0
       /\ ev[s] \in {"video", "setup2"} => calls[s] <= 1
       /\ calls[s] <= 2
       /\ pc[s] # "out" => calls[s] >= 1

\* As long as no two calls overlapped and none failed, the cursor counts them.
CursorInv ==
  quiet =>
    /\ \A s, t \in Sessions : pc[s] # "out" /\ pc[t] # "out" => s = t
    /\ \A s \in Sessions : pc[s] # "out" => candidate[s] = FirstCandidate(portTmp)
    /\ portTmp = IF Returned = {} THEN 0 ELSE PORT_BASE + 2 * Cardinality(Returned)

Default(s) == cport[s] = InterleavedDefault

\* The pairs the servers repeated lie behind the cursor, one for each session.
ClientInv ==
  quiet =>
    /\ \A s \in Sessions :
         \/ Default(s)
         \/ /\ cport[s] = ClientPorts(cport[s].from)
            /\ cport[s].from \in PORT_BASE .. portTmp /\ Even(cport[s].from)
    /\ \A s, t \in Sessions :
         ~Default(s) /\ ~Default(t) /\ cport[s].from = cport[t].from => s = t

Calm == quiet /\ udpBusy = {}

\* A port that is bound is the one its owner asked for.
BoundInv ==
  Calm =>
    \A fd \in Fds : Bound(fd) # 0 =>
      /\ Owner(fd) \in Sessions
      /\ \/ Use(fd) = "rtp" /\ Bound(fd) = cport[Owner(fd)].from
         \/ Use(fd) = "rtcp" /\ Bound(fd) = cport[Owner(fd)].to

QuietInv == CallsInv /\ CursorInv /\ ClientInv /\ BoundInv /\ QuietBind

\* Steps outside GetSomePort.
OtherStep(s) ==
  \/ TcpConnect(s) \/ SkipsSetup(s) \/ ExchangeFails(s) \/ RtspPlayCommand(s)
  \/ closeRtspClient(s) \/ RxStep(s)

LEMMA Steps ==
  ASSUME [MediaNext]_mediaVars
  PROVE  \/ \E s \in Sessions : GetSomePortStep(s) \/ OtherStep(s)
         \/ \E p \in Foreign : OccupyUdp(p)
         \/ UNCHANGED mediaVars
BY DEF MediaNext, EvStep, OtherStep

LEMMA OthersKeepPorts ==
  ASSUME NEW s \in Sessions, OtherStep(s)
  PROVE  UNCHANGED vars
BY DEF OtherStep, TcpConnect, ConnectOpens, ConnectLeaks, NoSocket, Connected, ConnectRefused,
       SkipsSetup, ExchangeFails, RtspPlayCommand, closeRtspClient, RxStep, CreateRtpServer,
       CreateRtcpServer, OpensServer, OpenFile, OpenFileFails, RtspHandleUdpConnectQuits,
       ClosesFile, ClosesRtp, ClosesRtcp, CloseAndGoOn, AsksForTeardown

\* Once something came between, it did.
LEMMA CalmBefore ==
  ASSUME [MediaNext]_mediaVars
  PROVE  (quiet' => quiet) /\ (Calm' => Calm)
<1>1. ASSUME NEW s \in Sessions, GetSomePortStep(s)
      PROVE  (quiet' => quiet) /\ (Calm' => Calm)
  <2>1. UNCHANGED udpBusy
    BY <1>1 DEF GetSomePortStep, EntersGetSomePort, ProbeOpens, ProbeBinds, ProbeRefused,
                ProbeShuts, NoDescriptor, SetupAnswered, sockVars
  <2>2. \/ UNCHANGED quiet
        \/ quiet' = FALSE
        \/ quiet' = (quiet /\ \A t \in Sessions : pc[t] = "out")
    BY <1>1 DEF GetSomePortStep, EntersGetSomePort, ProbeOpens, ProbeBinds, ProbeRefused,
                ProbeShuts, NoDescriptor, SetupAnswered, sockVars
  <2>3. quiet' => quiet
    BY <2>2, Zenon
  <2> QED
    BY <2>1, <2>3 DEF Calm
<1>2. ASSUME NEW s \in Sessions, OtherStep(s)
      PROVE  (quiet' => quiet) /\ (Calm' => Calm)
  <2>1. UNCHANGED udpBusy
    BY <1>2 DEF OtherStep, TcpConnect, ConnectOpens, ConnectLeaks, NoSocket, Connected,
       ConnectRefused, SkipsSetup, ExchangeFails, RtspPlayCommand, closeRtspClient, RxStep,
       CreateRtpServer, CreateRtcpServer, OpensServer, OpenFile, OpenFileFails,
       RtspHandleUdpConnectQuits,
       ClosesFile, ClosesRtp, ClosesRtcp, CloseAndGoOn, AsksForTeardown
  <2>2. \/ UNCHANGED quiet
        \/ \E p : quiet' = (quiet /\ ~Full /\ p % PortSpace # 0)
    BY <1>2 DEF OtherStep, TcpConnect, ConnectOpens, ConnectLeaks, NoSocket, Connected,
       ConnectRefused, SkipsSetup, ExchangeFails, RtspPlayCommand, closeRtspClient, RxStep,
       CreateRtpServer, CreateRtcpServer, OpensServer, OpenFile, OpenFileFails,
       RtspHandleUdpConnectQuits,
       ClosesFile, ClosesRtp, ClosesRtcp, CloseAndGoOn, AsksForTeardown
  <2>3. quiet' => quiet
    BY <2>2, Zenon
  <2> QED
    BY <2>1, <2>3 DEF Calm
<1>3. CASE (\E p \in Foreign : OccupyUdp(p)) \/ UNCHANGED mediaVars
  BY <1>3 DEF OccupyUdp, mediaVars, sockVars, Calm
<1> QED
  BY <1>1, <1>2, <1>3, Steps

\* Every session has client ports.
LEMMA ClientDomain ==
  ASSUME DOMAIN cport = Sessions, [MediaNext]_mediaVars
  PROVE  (DOMAIN cport)' = Sessions
<1>1. ASSUME NEW s \in Sessions, GetSomePortStep(s)
      PROVE  DOMAIN cport' = DOMAIN cport
  BY <1>1 DEF GetSomePortStep, EntersGetSomePort, ProbeOpens, ProbeBinds, ProbeRefused,
              ProbeShuts, NoDescriptor, SetupAnswered, sockVars
<1>2. ASSUME NEW s \in Sessions, OtherStep(s)
      PROVE  DOMAIN cport' = DOMAIN cport
  BY <1>2 DEF OtherStep, TcpConnect, ConnectOpens, ConnectLeaks, NoSocket, Connected,
     ConnectRefused, SkipsSetup, ExchangeFails, RtspPlayCommand, closeRtspClient, RxStep,
     CreateRtpServer, CreateRtcpServer, OpensServer, OpenFile, OpenFileFails,
     RtspHandleUdpConnectQuits,
       ClosesFile, ClosesRtp, ClosesRtcp, CloseAndGoOn, AsksForTeardown
<1>3. CASE (\E p \in Foreign : OccupyUdp(p)) \/ UNCHANGED mediaVars
  BY <1>3 DEF OccupyUdp, mediaVars, sockVars
<1> QED
  BY <1>1, <1>2, <1>3, Steps

LEMMA CallsInit == MediaInit => CallsInv
BY DEF MediaInit, Init, CallsInv

LEMMA CallsStep == MInv /\ CallsInv /\ [MediaNext]_mediaVars => CallsInv'
<1> SUFFICES ASSUME MInv, CallsInv, [MediaNext]_mediaVars
             PROVE  CallsInv'
  OBVIOUS
<1>0. (DOMAIN cport)' = Sessions
  BY ClientDomain DEF CallsInv
<1>1. ASSUME NEW s \in Sessions, EntersGetSomePort(s)
      PROVE  CallsInv'
  <2>1. /\ busy' = busy /\ calls' = [calls EXCEPT ![s] = calls[s] + 1]
        /\ pc[s] = "out" /\ pc' = [pc EXCEPT ![s] = "probing"]
        /\ \/ ev[s] = "setup1" /\ ev' = [ev EXCEPT ![s] = "video"]
           \/ ev[s] = "setup2" /\ ev' = [ev EXCEPT ![s] = "audio"]
    BY <1>1 DEF EntersGetSomePort, Enter, Moves
  <2> QED
    BY <1>0, <2>1 DEF CallsInv, MInv, Shapes
<1>2. ASSUME NEW s \in Sessions, SetupAnswered(s)
      PROVE  CallsInv'
  <2>1. /\ UNCHANGED <<busy, calls>> /\ pc' = [pc EXCEPT ![s] = "out"]
        /\ ev' = [ev EXCEPT ![s] = IF ev[s] = "video" THEN "setup2" ELSE "play"]
    BY <1>2 DEF SetupAnswered, Return, Moves
  <2> QED
    BY <1>0, <2>1 DEF CallsInv, MInv, Shapes
<1>3. ASSUME NEW s \in Sessions, GetSomePortStep(s), ~EntersGetSomePort(s), ~SetupAnswered(s)
      PROVE  CallsInv'
  <2>1. /\ UNCHANGED <<busy, calls, ev>> /\ (pc[s] # "out" \/ UNCHANGED pc)
        /\ \/ UNCHANGED pc
           \/ \E place \in {"bound", "found"} : pc' = [pc EXCEPT ![s] = place]
    BY <1>3 DEF GetSomePortStep, ProbeOpens, ProbeBinds, ProbeSucceeds, ProbeRefused, ProbeFails,
                ProbeShuts, ProbeCloses, NoDescriptor, SocketFails, sockVars, vars
  <2> QED
    BY <1>0, <2>1 DEF CallsInv, MInv, Shapes
<1>4. ASSUME NEW s \in Sessions, OtherStep(s)
      PROVE  CallsInv'
  <2>1. UNCHANGED <<busy, calls, pc>>
    BY <1>4, OthersKeepPorts DEF vars
  <2>2. \/ UNCHANGED ev
        \/ ev[s] = "setup1" /\ ev' = [ev EXCEPT ![s] = "setup2"]
        \/ ev[s] \in {"connect", "connecting"}
             /\ \E to \in {"connecting", "setup1", "ended"} : ev' = [ev EXCEPT ![s] = to]
        \/ \E to \in {"play", "up", "ended", "closed"} : ev' = [ev EXCEPT ![s] = to]
    BY <1>4 DEF OtherStep, TcpConnect, ConnectOpens, ConnectLeaks, NoSocket, Connected,
       ConnectRefused, SkipsSetup, ExchangeFails, RtspPlayCommand, closeRtspClient, RxStep,
       CreateRtpServer, CreateRtcpServer, OpensServer, OpenFile, OpenFileFails,
       RtspHandleUdpConnectQuits,
       ClosesFile, ClosesRtp, ClosesRtcp, CloseAndGoOn, AsksForTeardown, Moves
  <2> QED
    BY <1>0, <2>1, <2>2 DEF CallsInv, MInv, Shapes
<1>5. CASE (\E p \in Foreign : OccupyUdp(p)) \/ UNCHANGED mediaVars
  BY <1>5 DEF OccupyUdp, mediaVars, sockVars, vars, CallsInv
<1> QED
  BY <1>1, <1>2, <1>3, <1>4, <1>5, Steps

LEMMA ReturnedBound ==
  /\ IsFiniteSet(Sessions \X {1, 2}) /\ IsFiniteSet(Sessions) /\ Cardinality(Sessions) \in Nat
  /\ Cardinality(Sessions \X {1, 2}) = 2 * Cardinality(Sessions)
  /\ IsFiniteSet(Returned) /\ Cardinality(Returned) \in Nat
  /\ Cardinality(Returned) <= 2 * Cardinality(Sessions)
<1>1. IsFiniteSet(Sessions) /\ Cardinality(Sessions) \in Nat
  BY RangeAssumption, FS_CardinalityType
<1>2. IsFiniteSet({1, 2}) /\ Cardinality({1, 2}) = 2
  <2>1. {1, 2} = {1} \cup {2} /\ 2 \notin {1}
    OBVIOUS
  <2>2. IsFiniteSet({1}) /\ Cardinality({1}) = 1
    BY FS_Singleton
  <2> QED
    BY <2>1, <2>2, FS_AddElement
<1>3. /\ IsFiniteSet(Sessions \X {1, 2})
      /\ Cardinality(Sessions \X {1, 2}) = Cardinality(Sessions) * 2
  BY <1>1, <1>2, FS_Product
<1>4. Returned \in SUBSET (Sessions \X {1, 2})
  BY DEF Returned
<1>5. /\ IsFiniteSet(Returned) /\ Cardinality(Returned) \in Nat
      /\ Cardinality(Returned) <= Cardinality(Sessions \X {1, 2})
  BY <1>3, <1>4, FS_Subset, FS_CardinalityType
<1> QED
  BY <1>1, <1>3, <1>5

\* One turn of the range.
LEMMA Turn ==
  ASSUME NEW n \in Nat, n < PORT_BASE
  PROVE  n % PORT_BASE = n /\ (PORT_BASE + n) % PORT_BASE = n
<1>1. PORT_BASE \in Nat /\ PORT_BASE > 0
  BY PortAssumption
<1>2. n % PORT_BASE = n
  BY <1>1
<1>3. (PORT_BASE + n) % PORT_BASE = n
  BY <1>1
<1> QED
  BY <1>2, <1>3

\* While a call is on its way there is room for its port behind the cursor.
LEMMA CandidateAbove ==
  ASSUME MInv, CallsInv, CursorInv, quiet, NEW s \in Sessions, pc[s] # "out"
  PROVE  LET k == Cardinality(Returned) + 1
             call == <<s, calls[s]>>
         IN  /\ candidate[s] = PORT_BASE + 2 * k /\ k \in Nat
             /\ candidate[s] > portTmp /\ candidate[s] < 2 * PORT_BASE
             /\ call \in Sessions \X {1, 2} /\ call \notin Returned
             /\ Cardinality(Returned \cup {call}) = k
<1> DEFINE n == Cardinality(Returned)
           call == <<s, calls[s]>>
<1>1. call \in Sessions \X {1, 2} /\ call \notin Returned
  BY DEF CallsInv, Returned, Completed
<1>2. n \in Nat /\ IsFiniteSet(Returned) /\ Cardinality(Sessions) \in Nat
  BY ReturnedBound
<1>3. Cardinality(Returned \cup {call}) = n + 1
  BY <1>1, <1>2, FS_AddElement
<1>4. n + 1 <= 2 * Cardinality(Sessions)
  <2>1. Returned \cup {call} \in SUBSET (Sessions \X {1, 2})
    BY <1>1 DEF Returned
  <2>2. Cardinality(Returned \cup {call}) <= Cardinality(Sessions \X {1, 2})
    BY <2>1, ReturnedBound, FS_Subset
  <2> QED
    BY <1>3, <2>2, ReturnedBound
<1>5. 2 * n + 2 < PORT_BASE /\ PORT_BASE \in Nat
  BY <1>2, <1>4, RangeAssumption, PortAssumption
<1>6. portTmp = IF Returned = {} THEN 0 ELSE PORT_BASE + 2 * n
  BY DEF CursorInv
<1>7. Returned = {} => n = 0
  BY FS_EmptySet
<1>8. candidate[s] = PORT_BASE + ((portTmp + 2) % PORT_BASE)
  BY DEF CursorInv, FirstCandidate
<1> HIDE DEF n
<1>9. (portTmp + 2) % PORT_BASE = 2 * n + 2
  <2>1. CASE Returned = {}
    <3>1. portTmp + 2 = 2 * n + 2
      BY <1>6, <1>7, <2>1
    <3> QED
      BY <1>2, <1>5, <3>1, Turn
  <2>2. CASE Returned # {}
    <3>1. portTmp + 2 = PORT_BASE + (2 * n + 2)
      BY <1>2, <1>5, <1>6, <2>2
    <3>2. 2 * n + 2 \in Nat
      BY <1>2
    <3> QED
      BY <1>5, <3>1, <3>2, Turn
  <2> QED
    BY <2>1, <2>2
<1>10. candidate[s] = PORT_BASE + 2 * (n + 1)
  BY <1>2, <1>5, <1>8, <1>9
<1>11. candidate[s] > portTmp /\ candidate[s] < 2 * PORT_BASE
  BY <1>2, <1>5, <1>6, <1>10
<1> QED
  BY <1>1, <1>2, <1>3, <1>10, <1>11 DEF n

LEMMA CursorInit == MediaInit => CursorInv
<1> SUFFICES ASSUME MediaInit
             PROVE  CursorInv
  OBVIOUS
<1>1. Returned = {}
  BY DEF MediaInit, Init, Returned, Completed
<1> QED
  BY <1>1 DEF MediaInit, Init, CursorInv

LEMMA CursorStep == AllEven /\ MInv /\ CallsInv /\ CursorInv /\ [MediaNext]_mediaVars => CursorInv'
<1> SUFFICES ASSUME AllEven, MInv, CallsInv, CursorInv, [MediaNext]_mediaVars, quiet'
             PROVE  CursorInv'
  BY DEF CursorInv
<1>1. quiet
  BY CalmBefore
<1>2. ASSUME UNCHANGED vars
      PROVE  CursorInv'
  <2>1. UNCHANGED Returned
    BY <1>2 DEF Returned, Completed, vars
  <2> QED
    BY <1>1, <1>2, <2>1 DEF CursorInv, vars
<1>3. ASSUME NEW s \in Sessions, EntersGetSomePort(s)
      PROVE  CursorInv'
  <2>1. /\ \A t \in Sessions : pc[t] = "out"
        /\ pc' = [pc EXCEPT ![s] = "probing"] /\ calls' = [calls EXCEPT ![s] = calls[s] + 1]
        /\ candidate' = [candidate EXCEPT ![s] = FirstCandidate(portTmp)]
        /\ portTmp' = portTmp
    BY <1>3 DEF EntersGetSomePort, Enter
  <2>2. \A t \in Sessions : Completed(t)' = Completed(t)
    BY <2>1 DEF Completed, CallsInv, MInv, Shapes
  <2>3. Returned' = Returned
    BY <2>2 DEF Returned
  <2>4. DOMAIN candidate = Sessions
    BY DEF AllEven
  <2> QED
    BY <1>1, <2>1, <2>3, <2>4 DEF CursorInv, MInv, Shapes
<1>4. ASSUME NEW s \in Sessions, ProbeBinds(s) \/ ProbeShuts(s)
      PROVE  CursorInv'
  <2>1. /\ pc[s] # "out" /\ \E place \in {"bound", "found"} : pc' = [pc EXCEPT ![s] = place]
        /\ UNCHANGED <<calls, candidate, portTmp>>
    BY <1>4 DEF ProbeBinds, ProbeShuts, ProbeSucceeds, ProbeCloses
  <2>2. \A t \in Sessions : Completed(t)' = Completed(t)
    BY <2>1 DEF Completed, MInv, Shapes
  <2>3. Returned' = Returned
    BY <2>2 DEF Returned
  <2> QED
    BY <1>1, <2>1, <2>3 DEF CursorInv, MInv, Shapes
<1>5. ASSUME NEW s \in Sessions, ProbeRefused(s)
      PROVE  FALSE
  <2>1. pc[s] = "probing" /\ ~Bindable(s)
    BY <1>5 DEF ProbeRefused, ProbeFails
  <2>2. Probed(s) = {}
    BY <1>1, <2>1 DEF Probed, CursorInv
  <2> QED
    BY <2>1, <2>2 DEF Bindable, CallsInv
<1>6. ASSUME NEW s \in Sessions, NoDescriptor(s)
      PROVE  FALSE
  BY <1>6 DEF NoDescriptor
<1>7. ASSUME NEW s \in Sessions, SetupAnswered(s)
      PROVE  CursorInv'
  <2> DEFINE call == <<s, calls[s]>>
  <2>1. /\ pc[s] = "found" /\ pc' = [pc EXCEPT ![s] = "out"] /\ calls' = calls
        /\ portTmp' = candidate[s]
    BY <1>7 DEF SetupAnswered, Return
  <2>2. /\ candidate[s] = PORT_BASE + 2 * (Cardinality(Returned) + 1)
        /\ call \in Sessions \X {1, 2}
        /\ Cardinality(Returned \cup {call}) = Cardinality(Returned) + 1
    BY <1>1, <2>1, CandidateAbove
  <2>3. /\ \A t \in Sessions \ {s} : Completed(t)' = Completed(t)
        /\ Completed(s) = calls[s] - 1 /\ Completed(s)' = calls[s]
        /\ calls[s] \in Nat
    BY <2>1 DEF Completed, CallsInv, MInv, Shapes
  <2>4. Returned' = Returned \cup {call}
    BY <2>2, <2>3 DEF Returned
  <2>5. Returned' # {}
    BY <2>4
  <2>6. \A t \in Sessions : pc'[t] = "out"
    BY <1>1, <2>1 DEF CursorInv, MInv, Shapes
  <2> QED
    BY <2>1, <2>2, <2>4, <2>5, <2>6 DEF CursorInv
<1>8. ASSUME NEW s \in Sessions, ProbeOpens(s)
      PROVE  CursorInv'
  BY <1>2, <1>8 DEF ProbeOpens
<1>9. ASSUME NEW s \in Sessions, OtherStep(s)
      PROVE  CursorInv'
  BY <1>2, <1>9, OthersKeepPorts
<1>10. CASE (\E p \in Foreign : OccupyUdp(p)) \/ UNCHANGED mediaVars
  BY <1>2, <1>10 DEF OccupyUdp, mediaVars
<1> QED
  BY <1>3, <1>4, <1>5, <1>6, <1>7, <1>8, <1>9, <1>10, Steps DEF GetSomePortStep

LEMMA ClientInit == MediaInit => ClientInv
BY DEF MediaInit, ClientInv, Default

LEMMA ClientStep ==
  AllEven /\ MInv /\ CallsInv /\ CursorInv /\ ClientInv /\ [MediaNext]_mediaVars => ClientInv'
<1> SUFFICES ASSUME AllEven, MInv, CallsInv, CursorInv, ClientInv, [MediaNext]_mediaVars, quiet'
             PROVE  ClientInv'
  BY DEF ClientInv
<1>1. quiet
  BY CalmBefore
<1>2. ASSUME UNCHANGED <<cport, portTmp>>
      PROVE  ClientInv'
  BY <1>1, <1>2 DEF ClientInv, Default
<1>3. ASSUME NEW s \in Sessions, SetupAnswered(s)
      PROVE  ClientInv'
  <2> DEFINE c == candidate[s]
  <2>1. /\ portTmp' = c
        /\ cport' \in {cport, [cport EXCEPT ![s] = ClientPorts(c)]}
    BY <1>3 DEF SetupAnswered, Return
  <2>2. c \in Nat /\ Even(c) /\ portTmp \in Nat
    BY DEF AllEven
  <2>3. c > portTmp /\ c >= PORT_BASE /\ PORT_BASE \in Nat
    <3>1. pc[s] # "out"
      BY <1>3 DEF SetupAnswered, Return
    <3>2. PICK k \in Nat : c = PORT_BASE + 2 * k /\ c > portTmp
      BY <1>1, <3>1, CandidateAbove
    <3> HIDE DEF c
    <3> QED
      BY <3>2, PortAssumption
  <2> HIDE DEF c
  <2>4. \A t \in Sessions : ~Default(t) =>
          /\ cport[t] = ClientPorts(cport[t].from)
          /\ cport[t].from \in PORT_BASE .. portTmp /\ Even(cport[t].from)
          /\ cport[t].from \in PORT_BASE .. c /\ cport[t].from # c
    BY <1>1, <2>2, <2>3 DEF ClientInv
  <2>5. CASE cport' = cport
    BY <1>1, <2>1, <2>4, <2>5 DEF ClientInv, Default
  <2>6. CASE cport' = [cport EXCEPT ![s] = ClientPorts(c)]
    <3>1. /\ cport'[s] = ClientPorts(c) /\ cport'[s].from = c
          /\ \A t \in Sessions : t # s => cport'[t] = cport[t]
      BY <2>6 DEF CallsInv, ClientPorts
    <3>2. ASSUME NEW t \in Sessions, ~Default(t)'
          PROVE  /\ cport'[t] = ClientPorts(cport'[t].from)
                 /\ cport'[t].from \in PORT_BASE .. c /\ Even(cport'[t].from)
                 /\ t = s \/ (~Default(t) /\ cport'[t].from # c)
      <4>1. CASE t = s
        BY <2>2, <2>3, <3>1, <4>1
      <4>2. CASE t # s
        BY <2>4, <3>1, <3>2, <4>2 DEF Default
      <4> QED
        BY <4>1, <4>2
    <3>3. ASSUME NEW t \in Sessions, NEW r \in Sessions, ~Default(t)', ~Default(r)',
                 cport'[t].from = cport'[r].from
          PROVE  t = r
      BY <1>1, <3>1, <3>2, <3>3 DEF ClientInv
    <3> QED
      BY <2>1, <3>2, <3>3 DEF ClientInv
  <2> QED
    BY <2>1, <2>5, <2>6
<1>4. ASSUME NEW s \in Sessions, closeRtspClient(s)
      PROVE  ClientInv'
  <2>1. cport' = [cport EXCEPT ![s] = InterleavedDefault] /\ portTmp' = portTmp
    BY <1>4 DEF closeRtspClient, vars
  <2>2. \A t \in Sessions : Default(t)' \/ cport'[t] = cport[t]
    BY <2>1 DEF Default, CallsInv
  <2> QED
    BY <1>1, <2>1, <2>2 DEF ClientInv, Default
<1>5. ASSUME NEW s \in Sessions, GetSomePortStep(s), ~SetupAnswered(s)
      PROVE  ClientInv'
  <2>1. UNCHANGED <<cport, portTmp>>
    BY <1>5 DEF GetSomePortStep, EntersGetSomePort, Enter, ProbeOpens, ProbeBinds, ProbeSucceeds,
                ProbeRefused, ProbeFails, ProbeShuts, ProbeCloses, NoDescriptor, SocketFails,
                sockVars, vars
  <2> QED
    BY <1>2, <2>1
<1>6. ASSUME NEW s \in Sessions, OtherStep(s), ~closeRtspClient(s)
      PROVE  ClientInv'
  <2>1. UNCHANGED portTmp
    BY <1>6, OthersKeepPorts DEF vars
  <2>2. UNCHANGED cport
    BY <1>6 DEF OtherStep, TcpConnect, ConnectOpens, ConnectLeaks, NoSocket, Connected,
       ConnectRefused, SkipsSetup, ExchangeFails, RtspPlayCommand, RxStep, CreateRtpServer,
       CreateRtcpServer, OpensServer, OpenFile, OpenFileFails, RtspHandleUdpConnectQuits,
       ClosesFile, ClosesRtp, ClosesRtcp, CloseAndGoOn, AsksForTeardown
  <2> QED
    BY <1>2, <2>1, <2>2
<1>7. CASE (\E p \in Foreign : OccupyUdp(p)) \/ UNCHANGED mediaVars
  BY <1>2, <1>7 DEF OccupyUdp, mediaVars, sockVars, vars
<1> QED
  BY <1>3, <1>4, <1>5, <1>6, <1>7, Steps

\* The pair of a session is in the range and is not the port of the union.
LEMMA PairInRange ==
  ASSUME CursorInv, ClientInv, quiet, NEW s \in Sessions, ~Default(s)
  PROVE  LET c == cport[s].from
         IN  /\ c \in Nat /\ Even(c) /\ PORT_BASE <= c /\ cport[s].to = c + 1
             /\ c + 1 < PortSpace /\ c # InterleavedPort /\ c + 1 # InterleavedPort
             /\ c # 0 /\ c % PortSpace = c /\ (c + 1) % PortSpace = c + 1
<1> DEFINE c == cport[s].from
           n == Cardinality(Returned)
           m == Cardinality(Sessions)
<1>1. /\ cport[s] = ClientPorts(c) /\ c \in PORT_BASE .. portTmp /\ Even(c)
  BY DEF ClientInv
<1>2. cport[s].to = c + 1
  BY <1>1 DEF ClientPorts
<1>3. n \in Nat /\ n <= 2 * m /\ m \in Nat /\ 4 * m < PORT_BASE
  BY ReturnedBound, RangeAssumption
<1>4. /\ PORT_BASE \in Nat /\ PORT_BASE > 0 /\ PORT_BASE % 2 = 0
      /\ PortSpace \in Nat /\ 2 * PORT_BASE <= PortSpace
      /\ InterleavedPort \in Nat /\ InterleavedPort < PORT_BASE
  BY PortAssumption, RangeAssumption, SocketsAssumption
<1>5. portTmp = 0 \/ portTmp = PORT_BASE + 2 * n
  BY DEF CursorInv
<1> HIDE DEF c, n, m
<1>6. c \in Nat /\ PORT_BASE <= c /\ c < 2 * PORT_BASE
  BY <1>1, <1>3, <1>4, <1>5
<1>7. c + 1 < 2 * PORT_BASE
  BY <1>1, <1>4, <1>6 DEF Even
<1>8. c % PortSpace = c /\ (c + 1) % PortSpace = c + 1
  <2>1. \A k \in Nat, w \in Nat : k < w => k % w = k
    OBVIOUS
  <2> QED
    BY <1>4, <1>6, <1>7, <2>1
<1> QED
  BY <1>1, <1>2, <1>4, <1>6, <1>7, <1>8 DEF c

\* Nobody has bound the ports the receiver asks for next.
LEMMA PortFree ==
  ASSUME MInv, CursorInv, ClientInv, BoundInv, Calm, NEW s \in Sessions, ~Default(s)
  PROVE  /\ rx[s] = "rtp" => cport[s].from \notin UdpTaken
         /\ rx[s] = "rtcp" => cport[s].to \notin UdpTaken
<1> DEFINE c == cport[s].from
<1>0. quiet
  BY DEF Calm
<1>1. c \in Nat /\ Even(c) /\ PORT_BASE <= c /\ c # 0 /\ cport[s].to = c + 1
  BY <1>0, PairInRange
<1>2. PORT_BASE \in Nat /\ PORT_BASE > 0 /\ InterleavedPort < PORT_BASE /\ InterleavedPort \in Nat
  BY PortAssumption, RangeAssumption, SocketsAssumption
<1>3. ASSUME NEW fd \in Fds, Bound(fd) # 0
      PROVE  /\ rx[s] = "rtp" => Bound(fd) # c
             /\ rx[s] = "rtcp" => Bound(fd) # c + 1
  <2> DEFINE t == Owner(fd)
  <2>1. /\ t \in Sessions
        /\ \/ Use(fd) = "rtp" /\ Bound(fd) = cport[t].from
           \/ Use(fd) = "rtcp" /\ Bound(fd) = cport[t].to
    BY <1>3 DEF BoundInv
  <2>2. CASE t = s
    <3>1. rx[s] # "gone" => fds[s][Use(fd)] = fd
      BY <2>1, <2>2 DEF MInv, EntryInv
    <3>2. fd # -1
      BY SMT DEF Fds
    <3>3. rx[s] = "rtp" => Use(fd) # "rtp" /\ Use(fd) # "rtcp"
      BY <3>1, <3>2 DEF MInv, PlaceInv
    <3>4. rx[s] = "rtcp" => Use(fd) # "rtcp"
      BY <3>1, <3>2 DEF MInv, PlaceInv
    <3> QED
      BY <1>1, <2>1, <2>2, <3>3, <3>4
  <2>3. CASE t # s /\ Default(t)
    <3>1. cport[t].from = InterleavedPort /\ cport[t].to = 0
      BY <2>3 DEF Default, InterleavedDefault
    <3> QED
      BY <1>1, <1>2, <2>1, <3>1
  <2>4. CASE t # s /\ ~Default(t)
    <3>1. /\ cport[t].from \in Nat /\ Even(cport[t].from) /\ cport[t].to = cport[t].from + 1
      BY <1>0, <2>1, <2>4, PairInRange
    <3>2. cport[t].from # c
      BY <1>0, <2>1, <2>4 DEF ClientInv
    <3> QED
      BY <1>1, <2>1, <3>1, <3>2 DEF Even
  <2> QED
    BY <2>2, <2>3, <2>4
<1>4. udpBusy = {}
  BY DEF Calm
<1> QED
  BY <1>1, <1>3, <1>4 DEF UdpTaken

\* A session whose receiver did not start, or ended, has no sockets.
LEMMA NoMedia ==
  ASSUME MInv, NEW s \in Sessions, rx[s] \in {"none", "done"}, NEW fd \in Fds, Owner(fd) = s
  PROVE  Use(fd) # "rtp" /\ Use(fd) # "rtcp"
<1>1. fd # -1
  BY SMT DEF Fds
<1> QED
  BY <1>1 DEF MInv, EntryInv, PlaceInv

\* What the receiver binds when nothing came between is the port it asks for.
LEMMA BindsAsked ==
  ASSUME MInv, CursorInv, ClientInv, BoundInv, Calm, Calm', NEW s \in Sessions,
         NEW place \in {"rtp", "rtcp"}, NEW next, OpensServer(s, place, next)
  PROVE  LET p == IF place = "rtp" THEN cport[s].from ELSE cport[s].to
         IN  /\ p # 0 /\ ~Full
             /\ \/ Opens(s, place, p) /\ Holds(s, place, NewFd)
                \/ Default(s) /\ Opens(s, "lost", 0) /\ UNCHANGED fds
<1> DEFINE p == IF place = "rtp" THEN cport[s].from ELSE cport[s].to
<1>1. SocketOrder[place] = place
  BY DEF SocketOrder
<1>2. /\ rx[s] = place /\ CreateUdpServer(s, place, p)
      /\ quiet' = (quiet /\ ~Full /\ p % PortSpace # 0)
  BY <1>1 DEF OpensServer
<1>3. ~Full /\ p % PortSpace # 0
  BY <1>2, Zenon DEF Calm
<1>4. p \in Nat /\ p % PortSpace = p /\ (~Default(s) => p # InterleavedPort)
  <2>1. CASE Default(s)
    <3>1. p = InterleavedPort \/ p = 0
      BY <2>1 DEF Default, InterleavedDefault
    <3>2. \A k \in Nat, w \in Nat : k < w => k % w = k
      OBVIOUS
    <3> HIDE DEF p
    <3> QED
      BY <2>1, <3>1, <3>2, PortAssumption, RangeAssumption, SocketsAssumption
  <2>2. CASE ~Default(s)
    BY <2>2, PairInRange DEF Calm
  <2> QED
    BY <2>1, <2>2
<1>5. BoundTo(p) = {p} \ UdpTaken /\ p # 0
  BY <1>3, <1>4 DEF BoundTo
<1>6. ~Default(s) => p \notin UdpTaken
  BY <1>2, PortFree
<1> HIDE DEF p
<1>7. ~Default(s) => MustBind(p)
  BY <1>4, <1>5, <1>6 DEF MustBind
<1>8. \/ Opens(s, place, p) /\ Holds(s, place, NewFd)
      \/ Default(s) /\ Opens(s, "lost", 0) /\ UNCHANGED fds
  BY <1>2, <1>3, <1>5, <1>7 DEF CreateUdpServer, Binds, BindFails, NoServer
<1> QED
  BY <1>3, <1>5, <1>8 DEF p

\* What a session does to the table and to its media, unless it opens a server.
Effects(s) ==
  /\ \/ UNCHANGED table
     \/ ~Full /\ \E u : Opens(s, u, 0)
     \/ \E U \in SUBSET Uses :
          /\ Frees({fds[s][u] : u \in U})
          /\ ("rtp" \notin U /\ "rtcp" \notin U) \/ rx'[s] \notin {"rtcp", "file", "loop"}
  /\ \A t \in Sessions \ {s} :
       cport'[t] = cport[t] /\ rx'[t] = rx[t] /\ fds'[t] = fds[t]
  /\ cport'[s] = cport[s] \/ (rx[s] \in {"none", "done"} /\ rx'[s] = rx[s])
  /\ \/ rx'[s] \notin {"rtcp", "file", "loop"}
     \/ /\ \A u \in {"rtp", "rtcp"} : fds'[s][u] = fds[s][u]
        /\ rx'[s] = rx[s] \/ (rx[s] = "file" /\ rx'[s] = "loop")

\* The receiver starts after the calls of GetSomePort.
LEMMA NotStarted ==
  ASSUME MInv, NEW s \in Sessions, pc[s] # "out"
  PROVE  rx[s] = "none"
<1>1. ev[s] \in {"video", "audio"}
  BY DEF MInv, PlaceInv
<1>2. rx[s] # "none" => ev[s] \in {"up", "closed"}
  BY DEF MInv, PlaceInv
<1> QED
  BY <1>1, <1>2

LEMMA EffectsOfPorts ==
  ASSUME MInv, CallsInv, NEW s \in Sessions, GetSomePortStep(s)
  PROVE  Effects(s)
<1> USE DEF MInv, Shapes
<1>1. UNCHANGED rx
  BY DEF GetSomePortStep, EntersGetSomePort, ProbeOpens, ProbeBinds, ProbeRefused, ProbeShuts,
         NoDescriptor, SetupAnswered, sockVars
<1>2. CASE EntersGetSomePort(s) \/ ProbeBinds(s) \/ NoDescriptor(s)
  BY <1>1, <1>2 DEF Effects, EntersGetSomePort, ProbeBinds, NoDescriptor, sockVars
<1>3. CASE ProbeOpens(s)
  <2>1. ~Full /\ Opens(s, "probe", 0) /\ cport' = cport /\ Holds(s, "probe", NewFd)
    BY <1>3 DEF ProbeOpens
  <2>2. /\ \A t \in Sessions \ {s} : fds'[t] = fds[t]
        /\ \A u \in {"rtp", "rtcp"} : fds'[s][u] = fds[s][u]
    BY <2>1 DEF Holds
  <2> QED
    BY <1>1, <2>1, <2>2 DEF Effects
<1>4. CASE ProbeRefused(s) \/ ProbeShuts(s)
  <2>1. cport' = cport /\ Holds(s, "probe", -1) /\ Frees({fds[s]["probe"]})
    BY <1>4 DEF ProbeRefused, ProbeShuts, Closes
  <2>2. /\ \A t \in Sessions \ {s} : fds'[t] = fds[t]
        /\ \A u \in {"rtp", "rtcp"} : fds'[s][u] = fds[s][u]
    BY <2>1 DEF Holds
  <2>3. Frees({fds[s][u] : u \in {"probe"}}) /\ {"probe"} \in SUBSET Uses
    <3>1. {fds[s][u] : u \in {"probe"}} = {fds[s]["probe"]}
      OBVIOUS
    <3> QED
      BY <2>1, <3>1 DEF Uses
  <2> QED
    BY <1>1, <2>1, <2>2, <2>3 DEF Effects
<1>5. CASE SetupAnswered(s)
  <2>1. UNCHANGED <<table, fds>> /\ pc[s] = "found"
    BY <1>5 DEF SetupAnswered, Return
  <2>2. rx[s] = "none"
    BY <2>1, NotStarted
  <2>3. cport' = cport \/ cport' = [cport EXCEPT ![s] = ClientPorts(candidate[s])]
    BY <1>5 DEF SetupAnswered
  <2>4. \A t \in Sessions \ {s} : cport'[t] = cport[t]
    BY <2>3 DEF CallsInv
  <2> QED
    BY <1>1, <2>1, <2>2, <2>4 DEF Effects
<1> QED
  BY <1>2, <1>3, <1>4, <1>5 DEF GetSomePortStep

LEMMA EffectsOfConnect ==
  ASSUME MInv, CallsInv, NEW s \in Sessions, TcpConnect(s)
  PROVE  Effects(s)
<1> USE DEF MInv, Shapes
<1>1. UNCHANGED <<cport, rx>>
  BY DEF TcpConnect, ConnectOpens, ConnectLeaks, NoSocket, Connected, ConnectRefused
<1>2. CASE ConnectOpens(s)
  <2>1. ~Full /\ Opens(s, "tcp", 0) /\ Holds(s, "tcp", NewFd)
    BY <1>2 DEF ConnectOpens
  <2>2. /\ \A t \in Sessions \ {s} : fds'[t] = fds[t]
        /\ \A u \in {"rtp", "rtcp"} : fds'[s][u] = fds[s][u]
    BY <2>1 DEF Holds
  <2> QED
    BY <1>1, <2>1, <2>2 DEF Effects
<1>3. CASE ConnectLeaks(s)
  BY <1>1, <1>3 DEF Effects, ConnectLeaks
<1>4. CASE NoSocket(s) \/ Connected(s)
  BY <1>1, <1>4 DEF Effects, NoSocket, Connected
<1>5. CASE ConnectRefused(s)
  <2>1. Holds(s, "tcp", 0) /\ Frees({fds[s]["tcp"]})
    BY <1>5 DEF ConnectRefused, Closes
  <2>2. /\ \A t \in Sessions \ {s} : fds'[t] = fds[t]
        /\ \A u \in {"rtp", "rtcp"} : fds'[s][u] = fds[s][u]
    BY <2>1 DEF Holds
  <2>3. Frees({fds[s][u] : u \in {"tcp"}}) /\ {"tcp"} \in SUBSET Uses
    <3>1. {fds[s][u] : u \in {"tcp"}} = {fds[s]["tcp"]}
      OBVIOUS
    <3> QED
      BY <2>1, <3>1 DEF Uses
  <2> QED
    BY <1>1, <2>1, <2>2, <2>3 DEF Effects
<1> QED
  BY <1>2, <1>3, <1>4, <1>5 DEF TcpConnect

LEMMA EffectsOfEvents ==
  ASSUME MInv, CallsInv, NEW s \in Sessions,
         SkipsSetup(s) \/ ExchangeFails(s) \/ RtspPlayCommand(s) \/ closeRtspClient(s)
  PROVE  Effects(s)
<1> USE DEF MInv, Shapes
<1>1. CASE SkipsSetup(s) \/ ExchangeFails(s)
  BY <1>1 DEF Effects, SkipsSetup, ExchangeFails
<1>2. CASE RtspPlayCommand(s)
  <2>1. UNCHANGED <<table, cport, fds>> /\ \E place \in {"rtp", "none"} : Moves(rx, s, place)
    BY <1>2 DEF RtspPlayCommand
  <2> QED
    BY <2>1 DEF Effects, Moves
<1>3. CASE closeRtspClient(s)
  <2>1. /\ Frees({fds[s]["tcp"]}) /\ UNCHANGED rx
        /\ \A t \in Sessions \ {s} : cport'[t] = cport[t] /\ fds'[t] = fds[t]
        /\ ev[s] = "ended" \/ (ev[s] = "up" /\ rx[s] = "done")
    BY <1>3 DEF closeRtspClient, Closes, CallsInv
  <2>2. rx[s] \in {"none", "done"}
    BY <2>1 DEF PlaceInv
  <2>3. Frees({fds[s][u] : u \in {"tcp"}}) /\ {"tcp"} \in SUBSET Uses
    <3>1. {fds[s][u] : u \in {"tcp"}} = {fds[s]["tcp"]}
      OBVIOUS
    <3> QED
      BY <2>1, <3>1 DEF Uses
  <2> QED
    BY <2>1, <2>2, <2>3 DEF Effects
<1> QED
  BY <1>1, <1>2, <1>3

LEMMA EffectsOfClose ==
  ASSUME MInv, CallsInv, NEW s \in Sessions, NEW place, NEW use, NEW next,
         CloseAndGoOn(s, place, use, next),
         \/ place = "loop" /\ use = "file" /\ next = "closertp"
         \/ place = "closertp" /\ use = "rtp" /\ next = "closertcp"
         \/ place = "closertcp" /\ use = "rtcp" /\ next = "teardown"
  PROVE  Effects(s)
<1>1. next \notin {"rtcp", "file", "loop"} /\ use \in Uses
  BY DEF Uses
<1>2. /\ Frees({fds[s][use]}) /\ UNCHANGED cport
      /\ rx'[s] = next
      /\ \A t \in Sessions \ {s} : fds'[t] = fds[t] /\ rx'[t] = rx[t]
  BY DEF CloseAndGoOn, Holds, Moves, MInv, Shapes
<1>3. Frees({fds[s][u] : u \in {use}}) /\ {use} \in SUBSET Uses
  <2>1. {fds[s][u] : u \in {use}} = {fds[s][use]}
    OBVIOUS
  <2> QED
    BY <1>1, <1>2, <2>1
<1> QED
  BY <1>1, <1>2, <1>3 DEF Effects

LEMMA EffectsOfFile ==
  ASSUME MInv, CallsInv, NEW s \in Sessions,
         OpenFile(s) \/ OpenFileFails(s) \/ RtspHandleUdpConnectQuits(s)
  PROVE  Effects(s)
<1> USE DEF MInv, Shapes
<1>1. CASE OpenFile(s)
  <2>1. /\ ~Full /\ Opens(s, "file", 0) /\ Holds(s, "file", NewFd) /\ UNCHANGED cport
        /\ rx[s] = "file" /\ Moves(rx, s, "loop")
    BY <1>1 DEF OpenFile
  <2>2. /\ \A t \in Sessions \ {s} : fds'[t] = fds[t] /\ rx'[t] = rx[t]
        /\ \A u \in {"rtp", "rtcp"} : fds'[s][u] = fds[s][u]
        /\ rx'[s] = "loop"
    BY <2>1 DEF Holds, Moves
  <2> QED
    BY <2>1, <2>2 DEF Effects
<1>2. CASE OpenFileFails(s)
  <2>1. /\ UNCHANGED <<table, cport>> /\ rx'[s] = "gone"
        /\ \A t \in Sessions \ {s} : fds'[t] = fds[t] /\ rx'[t] = rx[t]
    BY <1>2 DEF OpenFileFails, ForgetsMedia, Moves
  <2> QED
    BY <2>1 DEF Effects
<1>4. CASE ClosesFile(s) \/ ClosesRtp(s) \/ ClosesRtcp(s)
  BY <1>4, EffectsOfClose DEF ClosesFile, ClosesRtp, ClosesRtcp
<1>5. CASE AsksForTeardown(s)
  BY <1>5 DEF Effects, AsksForTeardown, Moves
<1> QED
  BY <1>1, <1>2, <1>4, <1>5 DEF RtspHandleUdpConnectQuits

\* The steps that leave the calm.
LEMMA CalmSteps ==
  ASSUME MInv, CallsInv, [MediaNext]_mediaVars, Calm'
  PROVE  \/ \E s \in Sessions : Effects(s)
         \/ \E s \in Sessions, place \in {"rtp", "rtcp"} :
              OpensServer(s, place, IF place = "rtp" THEN "rtcp" ELSE "file")
         \/ UNCHANGED <<table, cport, rx, fds>>
<1>1. ASSUME NEW s \in Sessions, GetSomePortStep(s)
      PROVE  Effects(s)
  BY <1>1, EffectsOfPorts
<1>2. ASSUME NEW s \in Sessions, OtherStep(s), ~CreateRtpServer(s), ~CreateRtcpServer(s)
      PROVE  Effects(s)
  BY <1>2, EffectsOfConnect, EffectsOfEvents, EffectsOfFile DEF OtherStep, RxStep
<1>3. CASE \E p \in Foreign : OccupyUdp(p)
  BY <1>3 DEF OccupyUdp, Calm
<1>4. CASE UNCHANGED mediaVars
  BY <1>4 DEF mediaVars, sockVars
<1>5. ASSUME NEW s \in Sessions, CreateRtpServer(s) \/ CreateRtcpServer(s)
      PROVE  \E place \in {"rtp", "rtcp"} :
               OpensServer(s, place, IF place = "rtp" THEN "rtcp" ELSE "file")
  BY <1>5 DEF CreateRtpServer, CreateRtcpServer
<1> QED
  BY <1>1, <1>2, <1>3, <1>4, <1>5, Steps

LEMMA BoundInit == MediaInit => BoundInv
BY DEF MediaInit, BoundInv, Bound, Free, Stdio, Entry

LEMMA BoundStep ==
  ASSUME MInv, CallsInv, CursorInv, ClientInv, BoundInv, [MediaNext]_mediaVars
  PROVE  BoundInv'
<1> SUFFICES ASSUME Calm', NEW fd \in Fds, table'[fd].port # 0
             PROVE  /\ table'[fd].owner \in Sessions
                    /\ \/ /\ table'[fd].use = "rtp"
                          /\ table'[fd].port = cport'[table'[fd].owner].from
                       \/ /\ table'[fd].use = "rtcp"
                          /\ table'[fd].port = cport'[table'[fd].owner].to
  BY DEF BoundInv, Bound, Owner, Use
<1>1. Calm
  BY CalmBefore
<1>2. ASSUME table'[fd] = table[fd]
      PROVE  /\ Owner(fd) \in Sessions /\ Use(fd) \in {"rtp", "rtcp"}
             /\ \/ Use(fd) = "rtp" /\ Bound(fd) = cport[Owner(fd)].from
                \/ Use(fd) = "rtcp" /\ Bound(fd) = cport[Owner(fd)].to
  BY <1>1, <1>2 DEF BoundInv, Bound
<1>3. ASSUME NEW s \in Sessions, Effects(s)
      PROVE  table'[fd] = table[fd]
  <2>1. CASE UNCHANGED table
    BY <2>1
  <2>2. CASE ~Full /\ \E u : Opens(s, u, 0)
    BY <2>2, Lowest DEF Opens, Entry, MInv, Shapes
  <2>3. CASE \E numbers : Frees(numbers)
    BY <2>3 DEF Frees, Free, Entry
  <2> QED
    BY <1>3, <2>1, <2>2, <2>3 DEF Effects
<1>4. ASSUME NEW s \in Sessions, Effects(s)
      PROVE  cport'[Owner(fd)] = cport[Owner(fd)]
  <2>1. table'[fd] = table[fd]
    BY <1>4, <1>3
  <2>2. Owner(fd) \in Sessions /\ Use(fd) \in {"rtp", "rtcp"}
    BY <2>1, <1>2
  <2>3. CASE Owner(fd) # s
    BY <1>4, <2>2, <2>3 DEF Effects
  <2>4. CASE Owner(fd) = s
    <3>1. rx[s] \notin {"none", "done"}
      BY <2>2, <2>4, NoMedia
    <3> QED
      BY <1>4, <2>4, <3>1 DEF Effects
  <2> QED
    BY <2>3, <2>4
<1>5. ASSUME NEW s \in Sessions, Effects(s)
      PROVE  /\ table'[fd].owner \in Sessions
             /\ \/ table'[fd].use = "rtp" /\ table'[fd].port = cport'[table'[fd].owner].from
                \/ table'[fd].use = "rtcp" /\ table'[fd].port = cport'[table'[fd].owner].to
  BY <1>2, <1>3, <1>4, <1>5 DEF Owner, Use, Bound
<1>6. ASSUME NEW s \in Sessions, NEW place \in {"rtp", "rtcp"}, NEW next,
             OpensServer(s, place, next)
      PROVE  /\ table'[fd].owner \in Sessions
             /\ \/ table'[fd].use = "rtp" /\ table'[fd].port = cport'[table'[fd].owner].from
                \/ table'[fd].use = "rtcp" /\ table'[fd].port = cport'[table'[fd].owner].to
  <2> DEFINE p == IF place = "rtp" THEN cport[s].from ELSE cport[s].to
  <2>1. \/ Opens(s, place, p)
        \/ Opens(s, "lost", 0)
    BY <1>1, <1>6, BindsAsked
  <2>2. cport' = cport
    BY <1>6 DEF OpensServer
  <2>3. CASE table'[fd] = table[fd]
    BY <1>2, <2>2, <2>3 DEF Owner, Use, Bound
  <2>4. CASE table'[fd] # table[fd]
    <3>1. table'[fd] = Entry(s, place, p)
      BY <2>1, <2>4 DEF Opens, Entry, MInv, Shapes
    <3> QED
      BY <2>2, <3>1 DEF Entry
  <2> QED
    BY <2>3, <2>4
<1>7. CASE UNCHANGED <<table, cport, rx, fds>>
  BY <1>2, <1>7 DEF Owner, Use, Bound
<1> QED
  BY <1>5, <1>6, <1>7, CalmSteps

\* What opens or closes elsewhere leaves the socket of a receiver alone.
LEMMA OpenedElsewhere ==
  ASSUME MInv, ~Full, NEW s, NEW u, NEW q, Opens(s, u, q),
         NEW t \in Sessions, NEW v \in Uses, fds[t][v] > 0
  PROVE  table'[fds[t][v]] = table[fds[t][v]]
<1>1. Use(fds[t][v]) = v
  BY DEF MInv, OwnDescriptors
<1>2. fds[t][v] # NewFd
  BY <1>1, Lowest DEF Uses
<1> QED
  BY <1>2 DEF Opens

LEMMA FreedElsewhere ==
  ASSUME MInv, NEW s \in Sessions, NEW U \in SUBSET Uses, Frees({fds[s][u] : u \in U}),
         NEW t \in Sessions, NEW v \in Uses, t # s \/ v \notin U, fds[t][v] > 0
  PROVE  table'[fds[t][v]] = table[fds[t][v]]
<1>1. Owner(fds[t][v]) = t /\ Use(fds[t][v]) = v
  BY DEF MInv, OwnDescriptors
<1>2. ASSUME NEW u \in U, fds[s][u] = fds[t][v]
      PROVE  FALSE
  <2>1. Owner(fds[s][u]) = s /\ Use(fds[s][u]) = u
    BY <1>2 DEF MInv, OwnDescriptors
  <2> QED
    BY <1>1, <1>2, <2>1
<1>3. fds[t][v] \in Fds
  BY SMT, SocketsAssumption DEF MInv, Shapes, Fds
<1> QED
  BY <1>2, <1>3 DEF Frees

\* A socket that is not touched stays as it was.
LEMMA GotKept ==
  ASSUME NEW s \in Sessions, NEW u \in Uses, NEW p, Got(s, u, p),
         fds'[s][u] = fds[s][u], fds[s][u] > 0 => table'[fds[s][u]] = table[fds[s][u]]
  PROVE  Got(s, u, p)'
BY DEF Got, Bound

\* A socket that was just opened is bound to the port asked for.
LEMMA GotNow ==
  ASSUME MInv, ~Full, NEW s \in Sessions, NEW u \in Uses, NEW p,
         Opens(s, u, p), Holds(s, u, NewFd)
  PROVE  Got(s, u, p)' /\ table'[fds'[s][u]].port = p
<1>1. NewFd \in Fds /\ NewFd >= 0
  BY Lowest, SMT DEF Fds
<1>2. fds'[s][u] = NewFd
  BY DEF Holds, MInv, Shapes
<1>3. table'[NewFd].port = p
  BY <1>1 DEF Opens, Entry, MInv, Shapes
<1> QED
  BY <1>1, <1>2, <1>3 DEF Got, Bound

LEMMA BindInit == MediaInit => QuietBind
BY DEF MediaInit, QuietBind

LEMMA BindStep ==
  ASSUME MInv, CallsInv, CursorInv, ClientInv, BoundInv, QuietBind, [MediaNext]_mediaVars
  PROVE  QuietBind'
<1> SUFFICES ASSUME Calm', NEW t \in Sessions, cport'[t] # InterleavedDefault
             PROVE  /\ rx'[t] \in {"rtcp", "file", "loop"} => Got(t, "rtp", cport[t].from)'
                    /\ rx'[t] \in {"file", "loop"} => Got(t, "rtcp", cport[t].to)'
  BY DEF QuietBind, Calm, InterleavedDefault
<1>1. Calm
  BY CalmBefore
<1>2. ~Default(t) =>
        /\ rx[t] \in {"rtcp", "file", "loop"} => Got(t, "rtp", cport[t].from)
        /\ rx[t] \in {"file", "loop"} => Got(t, "rtcp", cport[t].to)
  BY <1>1 DEF QuietBind, Calm, Default
<1>3. "rtp" \in Uses /\ "rtcp" \in Uses
  BY DEF Uses
<1>4. ASSUME NEW s \in Sessions, Effects(s),
             rx'[t] \in {"rtcp", "file", "loop"}
      PROVE  /\ cport'[t] = cport[t]
             /\ rx'[t] = rx[t] \/ (rx[t] = "file" /\ rx'[t] = "loop")
             /\ \A u \in {"rtp", "rtcp"} :
                  /\ fds'[t][u] = fds[t][u]
                  /\ fds[t][u] > 0 => table'[fds[t][u]] = table[fds[t][u]]
  <2>1. /\ cport'[t] = cport[t]
        /\ rx'[t] = rx[t] \/ (rx[t] = "file" /\ rx'[t] = "loop")
        /\ \A u \in {"rtp", "rtcp"} : fds'[t][u] = fds[t][u]
    <3>1. CASE t = s
      BY <1>4, <3>1 DEF Effects
    <3>2. CASE t # s
      BY <1>4, <3>2 DEF Effects
    <3> QED
      BY <3>1, <3>2
  <2>2. ASSUME NEW u \in {"rtp", "rtcp"}, fds[t][u] > 0
        PROVE  table'[fds[t][u]] = table[fds[t][u]]
    <3>1. CASE UNCHANGED table
      BY <3>1
    <3>2. CASE ~Full /\ \E v : Opens(s, v, 0)
      BY <1>3, <2>2, <3>2, OpenedElsewhere
    <3>3. ASSUME NEW U \in SUBSET Uses, Frees({fds[s][v] : v \in U}),
                 ("rtp" \notin U /\ "rtcp" \notin U) \/ rx'[s] \notin {"rtcp", "file", "loop"}
          PROVE  table'[fds[t][u]] = table[fds[t][u]]
      <4>1. t # s \/ u \notin U
        BY <1>4, <3>3
      <4> QED
        <5>1. u \in Uses /\ Frees({fds[s][v] : v \in U}) /\ fds[t][u] > 0
          BY <1>3, <2>2, <3>3
        <5> QED
          BY <4>1, <5>1, FreedElsewhere
    <3> QED
      BY <1>4, <3>1, <3>2, <3>3 DEF Effects
  <2> QED
    BY <2>1, <2>2
<1>5. ASSUME NEW s \in Sessions, Effects(s)
      PROVE  /\ rx'[t] \in {"rtcp", "file", "loop"} => Got(t, "rtp", cport[t].from)'
             /\ rx'[t] \in {"file", "loop"} => Got(t, "rtcp", cport[t].to)'
  <2> SUFFICES ASSUME rx'[t] \in {"rtcp", "file", "loop"}
               PROVE  /\ Got(t, "rtp", cport[t].from)'
                      /\ rx'[t] \in {"file", "loop"} => Got(t, "rtcp", cport[t].to)'
    OBVIOUS
  <2>1. /\ cport'[t] = cport[t] /\ ~Default(t)
        /\ rx'[t] = rx[t] \/ (rx[t] = "file" /\ rx'[t] = "loop")
        /\ \A u \in {"rtp", "rtcp"} :
             /\ fds'[t][u] = fds[t][u]
             /\ fds[t][u] > 0 => table'[fds[t][u]] = table[fds[t][u]]
    BY <1>4, <1>5 DEF Default
  <2>2. Got(t, "rtp", cport[t].from) /\ (rx'[t] \in {"file", "loop"} => Got(t, "rtcp", cport[t].to))
    BY <1>2, <2>1
  <2> QED
    BY <2>1, <2>2 DEF Got, Bound
<1>6. ASSUME NEW s \in Sessions, NEW place \in {"rtp", "rtcp"},
             OpensServer(s, place, IF place = "rtp" THEN "rtcp" ELSE "file")
      PROVE  /\ rx'[t] \in {"rtcp", "file", "loop"} => Got(t, "rtp", cport[t].from)'
             /\ rx'[t] \in {"file", "loop"} => Got(t, "rtcp", cport[t].to)'
  <2> DEFINE next == IF place = "rtp" THEN "rtcp" ELSE "file"
             p == IF place = "rtp" THEN cport[s].from ELSE cport[s].to
  <2>1. /\ ~Full
        /\ \/ Opens(s, place, p) /\ Holds(s, place, NewFd)
           \/ Default(s) /\ Opens(s, "lost", 0) /\ UNCHANGED fds
    BY <1>1, <1>6, BindsAsked
  <2>2. cport' = cport /\ rx[s] = place /\ rx' = [rx EXCEPT ![s] = next]
    BY <1>6 DEF OpensServer, Moves
  <2>3. ~Default(t)
    BY <2>2 DEF Default
  <2>4. PICK u, r : Opens(s, u, r)
    BY <2>1
  <2>5. \A v \in Uses : fds[t][v] > 0 => table'[fds[t][v]] = table[fds[t][v]]
    BY <2>1, <2>4, OpenedElsewhere
  <2>6. CASE t # s
    <3>1. rx'[t] = rx[t] /\ \A v \in Uses : fds'[t][v] = fds[t][v]
      BY <2>1, <2>2, <2>6 DEF Holds, MInv, Shapes
    <3> QED
      BY <1>2, <1>3, <2>2, <2>3, <2>5, <3>1 DEF Got, Bound
  <2>7. CASE t = s
    <3>1. Opens(s, place, p) /\ Holds(s, place, NewFd) /\ place \in Uses
      BY <1>3, <2>1, <2>3, <2>7
    <3>2. fds'[s][place] >= 0 /\ table'[fds'[s][place]].port = p
      <4>1. PICK q : q = p
        OBVIOUS
      <4> HIDE DEF p
      <4>2. Got(s, place, q)' /\ table'[fds'[s][place]].port = q
        BY <2>1, <3>1, <4>1, GotNow
      <4> QED
        BY <4>1, <4>2 DEF Got
    <3>3. rx'[s] = next
      BY <2>2 DEF MInv, Shapes
    <3>4. CASE place = "rtp"
      BY <2>2, <2>7, <3>2, <3>3, <3>4 DEF Got, Bound
    <3>5. CASE place = "rtcp"
      <4>1. Got(s, "rtp", cport[s].from)
        BY <1>2, <2>2, <2>3, <2>7, <3>5
      <4>2. fds'[s]["rtp"] = fds[s]["rtp"]
        BY <1>3, <3>1, <3>5 DEF Holds, MInv, Shapes
      <4>3. /\ fds'[s]["rtp"] >= 0
            /\ fds'[s]["rtp"] > 0 => table'[fds'[s]["rtp"]].port = cport'[s].from
        BY <1>3, <2>2, <2>5, <2>7, <4>1, <4>2 DEF Got, Bound
      <4> QED
        BY <2>2, <2>7, <3>2, <3>5, <4>3 DEF Got, Bound
    <3> QED
      BY <3>4, <3>5
  <2> QED
    BY <2>6, <2>7
<1>7. ASSUME UNCHANGED <<table, cport, rx, fds>>
      PROVE  /\ rx'[t] \in {"rtcp", "file", "loop"} => Got(t, "rtp", cport[t].from)'
             /\ rx'[t] \in {"file", "loop"} => Got(t, "rtcp", cport[t].to)'
  BY <1>2, <1>7 DEF Got, Bound, Default
<1> QED
  BY <1>5, <1>6, <1>7, CalmSteps

-----------------------------------------------------------------------------
(* The types                                                               *)

Entries == [owner : Sessions \cup {"nobody", "process"},
            use   : Uses \cup {"lost", "free", "stdio"},
            port  : 0 .. PortSpace - 1]

ClientPairs == {InterleavedDefault} \cup {ClientPorts(p) : p \in Candidates}

SocketTypes ==
  /\ table \in [Fds -> Entries]
  /\ cport \in [Sessions -> ClientPairs]
  /\ udpBusy \subseteq Foreign
  /\ quiet \in BOOLEAN

LEMMA NoPortEntry ==
  /\ 0 \in 0 .. PortSpace - 1
  /\ Free \in Entries /\ Stdio \in Entries
  /\ \A s \in Sessions, u \in Uses \cup {"lost"}, q \in 0 .. PortSpace - 1 :
       Entry(s, u, q) \in Entries
<1>1. 0 \in 0 .. PortSpace - 1
  BY PortAssumption
<1> QED
  BY <1>1 DEF Entries, Free, Stdio, Entry

\* The port a socket is bound to is one of sixteen bits.
LEMMA BoundToType ==
  ASSUME NEW p \in Nat
  PROVE  BoundTo(p) \subseteq 0 .. PortSpace - 1
<1>1. p % PortSpace \in 0 .. PortSpace - 1
  BY PortAssumption
<1>2. Foreign \subseteq 0 .. PortSpace - 1 /\ 0 \in 0 .. PortSpace - 1
  BY PortAssumption
<1> QED
  BY <1>1, <1>2 DEF BoundTo

LEMMA ClientPairType ==
  ASSUME SocketTypes, NEW s \in Sessions
  PROVE  cport[s].from \in Nat /\ cport[s].to \in Nat
<1>1. cport[s] \in ClientPairs
  BY DEF SocketTypes
<1>2. Candidates \subseteq Nat
  BY DEF Candidates
<1> QED
  BY <1>1, <1>2, SocketsAssumption DEF ClientPairs, InterleavedDefault, ClientPorts

LEMMA TableOpens ==
  ASSUME SocketTypes, ~Full, NEW s \in Sessions, NEW u \in Uses \cup {"lost"},
         NEW q \in 0 .. PortSpace - 1, Opens(s, u, q)
  PROVE  table' \in [Fds -> Entries]
BY Lowest, NoPortEntry DEF SocketTypes, Opens

LEMMA TableFrees ==
  ASSUME SocketTypes, NEW numbers, Frees(numbers)
  PROVE  table' \in [Fds -> Entries]
BY NoPortEntry DEF SocketTypes, Frees

LEMMA SocketTypesInit == MediaInit => SocketTypes
BY NoPortEntry DEF MediaInit, SocketTypes, ClientPairs

LEMMA SocketTypesStep ==
  ASSUME MInv, TypeOK, SocketTypes, [MediaNext]_mediaVars
  PROVE  SocketTypes'
<1>1. ASSUME NEW s \in Sessions, GetSomePortStep(s) \/ OtherStep(s)
      PROVE  table' \in [Fds -> Entries]
  <2>1. CASE UNCHANGED table
    BY <2>1 DEF SocketTypes
  <2>2. CASE \E numbers : Frees(numbers)
    BY <2>2, TableFrees
  <2>3. CASE ~Full /\ \E u \in Uses \cup {"lost"}, q \in 0 .. PortSpace - 1 : Opens(s, u, q)
    BY <2>3, TableOpens
  <2>4. CASE GetSomePortStep(s)
    <3>1. \/ UNCHANGED table
          \/ \E numbers : Frees(numbers)
          \/ ~Full /\ Opens(s, "probe", 0)
      BY <2>4 DEF GetSomePortStep, EntersGetSomePort, ProbeOpens, ProbeBinds, ProbeRefused,
         ProbeShuts, NoDescriptor, SetupAnswered, sockVars, Closes
    <3> QED
      BY <2>1, <2>2, <2>3, <3>1, NoPortEntry DEF Uses
  <2>5. CASE OtherStep(s) /\ ~CreateRtpServer(s) /\ ~CreateRtcpServer(s)
    <3>1. \/ UNCHANGED table
          \/ \E numbers : Frees(numbers)
          \/ ~Full /\ \E u \in {"tcp", "lost", "file"} : Opens(s, u, 0)
      BY <2>5 DEF OtherStep, TcpConnect, ConnectOpens, ConnectLeaks, NoSocket, Connected,
         ConnectRefused, SkipsSetup, ExchangeFails, RtspPlayCommand, closeRtspClient, RxStep,
         OpenFile, OpenFileFails, RtspHandleUdpConnectQuits,
       ClosesFile, ClosesRtp, ClosesRtcp, CloseAndGoOn, AsksForTeardown, Closes
    <3> QED
      BY <2>1, <2>2, <2>3, <3>1, NoPortEntry DEF Uses
  <2>6. CASE CreateRtpServer(s) \/ CreateRtcpServer(s)
    <3>1. PICK u \in {"rtp", "rtcp"}, p \in {cport[s].from, cport[s].to} :
            CreateUdpServer(s, u, p)
      BY <2>6 DEF CreateRtpServer, CreateRtcpServer, OpensServer, SocketOrder
    <3>2. \/ UNCHANGED table
          \/ ~Full /\ \E q \in BoundTo(p) : Opens(s, u, q)
          \/ ~Full /\ Opens(s, "lost", 0)
      BY <3>1 DEF CreateUdpServer, Binds, BindFails, NoServer
    <3>3. BoundTo(p) \subseteq 0 .. PortSpace - 1
      BY ClientPairType, BoundToType
    <3> QED
      BY <2>1, <2>3, <3>2, <3>3, NoPortEntry DEF Uses
  <2> QED
    BY <1>1, <2>4, <2>5, <2>6
<1>2. ASSUME NEW s \in Sessions, GetSomePortStep(s) \/ OtherStep(s)
      PROVE  cport' \in [Sessions -> ClientPairs]
  <2>1. CASE UNCHANGED cport
    BY <2>1 DEF SocketTypes
  <2>2. CASE SetupAnswered(s)
    <3>1. cport' = cport \/ cport' = [cport EXCEPT ![s] = ClientPorts(candidate[s])]
      BY <2>2 DEF SetupAnswered
    <3>2. ClientPorts(candidate[s]) \in ClientPairs
      BY DEF ClientPairs, TypeOK
    <3> QED
      BY <3>1, <3>2 DEF SocketTypes
  <2>3. CASE closeRtspClient(s)
    <3>1. cport' = [cport EXCEPT ![s] = InterleavedDefault]
      BY <2>3 DEF closeRtspClient
    <3> QED
      BY <3>1 DEF SocketTypes, ClientPairs
  <2>4. CASE GetSomePortStep(s) /\ ~SetupAnswered(s)
    <3>1. UNCHANGED cport
      BY <2>4 DEF GetSomePortStep, EntersGetSomePort, ProbeOpens, ProbeBinds, ProbeRefused,
         ProbeShuts, NoDescriptor, sockVars
    <3> QED
      BY <2>1, <3>1
  <2>5. CASE OtherStep(s) /\ ~closeRtspClient(s)
    <3>1. UNCHANGED cport
      BY <2>5 DEF OtherStep, TcpConnect, ConnectOpens, ConnectLeaks, NoSocket, Connected,
         ConnectRefused, SkipsSetup, ExchangeFails, RtspPlayCommand, RxStep, CreateRtpServer,
         CreateRtcpServer, OpensServer, OpenFile, OpenFileFails, RtspHandleUdpConnectQuits,
       ClosesFile, ClosesRtp, ClosesRtcp, CloseAndGoOn, AsksForTeardown
    <3> QED
      BY <2>1, <3>1
  <2> QED
    BY <1>2, <2>2, <2>3, <2>4, <2>5
<1>3. ASSUME NEW s \in Sessions, GetSomePortStep(s) \/ OtherStep(s)
      PROVE  udpBusy' \subseteq Foreign /\ quiet' \in BOOLEAN
  <2>1. UNCHANGED udpBusy
    BY <1>3 DEF GetSomePortStep, EntersGetSomePort, ProbeOpens, ProbeBinds, ProbeRefused,
       ProbeShuts, NoDescriptor, SetupAnswered, sockVars, OtherStep, TcpConnect, ConnectOpens,
       ConnectLeaks, NoSocket, Connected, ConnectRefused, SkipsSetup, ExchangeFails,
       RtspPlayCommand, closeRtspClient, RxStep, CreateRtpServer, CreateRtcpServer, OpensServer,
       OpenFile, OpenFileFails, RtspHandleUdpConnectQuits,
       ClosesFile, ClosesRtp, ClosesRtcp, CloseAndGoOn, AsksForTeardown
  <2>2. \/ UNCHANGED quiet
        \/ quiet' = FALSE
        \/ quiet' = (quiet /\ \A t \in Sessions : pc[t] = "out")
        \/ \E p : quiet' = (quiet /\ ~Full /\ p % PortSpace # 0)
    BY <1>3 DEF GetSomePortStep, EntersGetSomePort, ProbeOpens, ProbeBinds, ProbeRefused,
       ProbeShuts, NoDescriptor, SetupAnswered, sockVars, OtherStep, TcpConnect, ConnectOpens,
       ConnectLeaks, NoSocket, Connected, ConnectRefused, SkipsSetup, ExchangeFails,
       RtspPlayCommand, closeRtspClient, RxStep, CreateRtpServer, CreateRtcpServer, OpensServer,
       OpenFile, OpenFileFails, RtspHandleUdpConnectQuits,
       ClosesFile, ClosesRtp, ClosesRtcp, CloseAndGoOn, AsksForTeardown
  <2>3. quiet' \in BOOLEAN
    BY <2>2, Zenon DEF SocketTypes
  <2> QED
    BY <2>1, <2>3 DEF SocketTypes
<1>4. ASSUME NEW p \in Foreign, OccupyUdp(p)
      PROVE  SocketTypes'
  BY <1>4, Zenon DEF OccupyUdp, SocketTypes
<1>5. CASE UNCHANGED mediaVars
  BY <1>5, Zenon DEF mediaVars, sockVars, SocketTypes
<1> QED
  BY <1>1, <1>2, <1>3, <1>4, <1>5, Steps DEF SocketTypes

-----------------------------------------------------------------------------
(* The theorems                                                            *)

\* However the sessions race and fail, none works on, or closes, a descriptor
\* that belongs to another (TcpConnect, GetSomePort, CreateUdpServer,
\* RtspHandleUdpConnect, closeRtspClient).
THEOREM NobodysElseDescriptor == MediaSpec => []OwnDescriptors
<1>1. MInv => OwnDescriptors
  BY DEF MInv
<1> QED
  BY <1>1, AlwaysMInv, PTL

\* The RTP socket has the lower descriptor, and select() sees it, unless
\* another session freed a descriptor between the two sockets
\* (RtspHandleUdpConnect).
THEOREM RtpSocketIsExamined == MediaSpec => []SelectSeesRtp
<1>1. MInv => SelectSeesRtp
  BY DEF MInv
<1> QED
  BY <1>1, AlwaysMInv, PTL

\* A closed session left nothing in the descriptor table but sockets that
\* failed halfway (closeRtspClient).
THEOREM NothingHeldAfterClose == MediaSpec => []ClosedReleasesAll
<1>1. MInv => ClosedReleasesAll
  <2> SUFFICES ASSUME MInv, NEW s \in Sessions, ev[s] = "closed",
                      NEW fd \in OwnedBy(s), Use(fd) # "lost"
               PROVE  FALSE
    BY DEF ClosedReleasesAll
  <2>1. fds[s][Use(fd)] = -1 /\ rx[s] # "gone"
    BY DEF MInv, PlaceInv, EntryInv, OwnedBy
  <2>2. fds[s][Use(fd)] = fd /\ fd \in Fds
    BY <2>1 DEF MInv, EntryInv, OwnedBy
  <2> QED
    BY <2>1, <2>2, SMT, SocketsAssumption DEF Fds
<1> QED
  BY <1>1, AlwaysMInv, PTL

\* Whatever fails and whatever is lost on the way, a session takes at most four
\* descriptors of the process (GetSomePort, TcpConnect, CreateUdpServer,
\* RtspHandleUdpConnect).
THEOREM FourDescriptorsEach == MediaSpec => []DescriptorBudget
BY MInvInit, MInvStep, CountInit, CountStep, WithinBudget, PTL DEF MediaSpec

\* The ports GetSomePort found are still free when the receiver binds them, and
\* it keeps both, for any number of sessions whose calls fit the range
\* (GetSomePort, ParseUdpPort, CreateUdpServer, closeRtspClient).
THEOREM PortsFoundAreBound == MediaSpec => []QuietBind
<1> DEFINE Inv == AllEven /\ MInv /\ QuietInv
<1>1. MediaInit => Inv
  BY AllEvenInit, MInvInit, CallsInit, CursorInit, ClientInit, BoundInit, BindInit
     DEF MediaInit, QuietInv
<1>2. Inv /\ [MediaNext]_mediaVars => Inv'
  <2> SUFFICES ASSUME AllEven, MInv, QuietInv, [MediaNext]_mediaVars
               PROVE  Inv'
    OBVIOUS
  <2>1. AllEven'
    BY PortsStep, AllEvenNext
  <2>2. MInv'
    BY MInvStep
  <2>3. QuietInv'
    BY CallsStep, CursorStep, ClientStep, BoundStep, BindStep DEF QuietInv
  <2> QED
    BY <2>1, <2>2, <2>3
<1>3. Inv => QuietBind
  BY DEF QuietInv
<1> QED
  BY <1>1, <1>2, <1>3, PTL DEF MediaSpec

\* The descriptors, ports and places of every session stay what they are meant
\* to be: no port beyond sixteen bits, no descriptor beyond the table.
THEOREM SocketsTyped == MediaSpec => []SocketsTypeOK
<1> DEFINE Inv == MInv /\ TypeInv /\ SocketTypes
<1>1. MediaInit => Inv
  BY MInvInit, AllEvenInit, TypeInit, SocketTypesInit DEF MediaInit, TypeInv
<1>2. Inv /\ [MediaNext]_mediaVars => Inv'
  <2> SUFFICES ASSUME MInv, TypeInv, SocketTypes, [MediaNext]_mediaVars
               PROVE  Inv'
    OBVIOUS
  <2>1. MInv'
    BY MInvStep
  <2>2. TypeInv'
    BY PortsStep, AllEvenNext, TypeNext DEF TypeInv
  <2>3. SocketTypes'
    BY SocketTypesStep DEF TypeInv
  <2> QED
    BY <2>1, <2>2, <2>3
<1>3. Inv => SocketsTypeOK
  <2>1. ClientPairs \subseteq
          [from : Candidates, to : 0 .. PortSpace * (MaxFails + 1) + 1]
    <3> DEFINE most == PortSpace * (MaxFails + 1)
    <3>1. most \in Nat /\ PortSpace <= most
      BY PortAssumption, BoundAssumption
    <3>2. PORT_BASE \in Nat /\ PORT_BASE > 0 /\ PortSpace \in Nat /\ 2 * PORT_BASE <= PortSpace
      BY PortAssumption
    <3>3. InterleavedPort \in Nat /\ InterleavedPort < PORT_BASE
      BY SocketsAssumption, RangeAssumption
    <3> HIDE DEF most
    <3>4. InterleavedPort \in 0 .. most /\ 0 \in 0 .. most + 1
      BY <3>1, <3>2, <3>3
    <3>5. \A p \in 0 .. most : p + 1 \in 0 .. most + 1
      BY <3>1
    <3> QED
      BY <3>4, <3>5 DEF ClientPairs, ClientPorts, InterleavedDefault, Candidates, most
  <2> QED
    BY <2>1 DEF MInv, Shapes, TypeInv, SocketTypes, SocketsTypeOK, Entries
<1> QED
  BY <1>1, <1>2, <1>3, PTL DEF MediaSpec

\* The pairs of the sessions do not straddle, sockets and all (GetSomePort).
THEOREM SocketPairsAligned == MediaSpec => []PairsAligned
BY SocketsImplementPorts, AllPairsAligned, PTL
=============================================================================
