--------------------------- MODULE DeadPeerProofs ---------------------------
(***************************************************************************)
(* The clock and the deadlines for any number of slots, any timeouts and   *)
(* any width of millis(), as long as passes follow each other within       *)
(* MaxGap.                                                                 *)
(***************************************************************************)
EXTENDS DeadPeer, TLAPS

Timeout(i) == dpd_timeout(phase[i], heartbeat_ms[i])

Types ==
  /\ pc \in {"IDLE", "ACCEPT", "IO"}
  /\ phase \in [Slots -> {"FREE", "WAIT_PREINIT", "WAIT_INIT", "ACTIVE"}]
  /\ heartbeat_ms \in [Slots -> Nat]
  /\ deadline_ms \in [Slots -> Int]
  /\ heard \in [Slots -> Int]
  /\ unread \in [Slots -> SUBSET Int]
  /\ \A i \in Slots : ~Open(i) => unread[i] = {}

\* The counter has moved on from the value last read by the time since then,
\* which is less than one turn.
ClockInv ==
  /\ time \in Int /\ started \in Int /\ millis \in Int /\ millis_high_ \in Int /\ last_millis_ \in Int
  /\ started <= time /\ time <= started + MaxGap
  /\ now = started
  /\ millis_high_ + last_millis_ = started
  /\ 0 <= last_millis_ /\ last_millis_ < WRAP
  /\ millis = IF last_millis_ + (time - started) < WRAP THEN last_millis_ + (time - started)
              ELSE last_millis_ + (time - started) - WRAP

\* A byte is read in the pass in which it arrives or in the next one.
UnreadRecent(i) ==
  \A u \in unread[i] :
    /\ u <= time /\ u >= started - MaxGap
    /\ pc = "IDLE" \/ i \in visited => u >= started

\* A deadline is the timeout after the last byte, give or take a pass, and it
\* had not passed when tick() last looked.
DeadlineInv(i) ==
  /\ deadline_ms[i] >= heard[i] + Timeout(i) - MaxGap
  /\ deadline_ms[i] <= heard[i] + Timeout(i) + MaxGap
  /\ deadline_ms[i] > started - MaxGap
  /\ pc = "IDLE" => deadline_ms[i] > started

DeadPeerInv ==
  /\ Types
  /\ ClockInv
  /\ \A i \in Slots : Open(i) => UnreadRecent(i) /\ DeadlineInv(i)

\* A timeout is a number of milliseconds.
LEMMA TimeoutNat ==
  ASSUME NEW ph, NEW hb \in Nat
  PROVE  dpd_timeout(ph, hb) \in Nat
BY TimeAssumption DEF dpd_timeout

\* The invariant holds before the first pass of loop().
LEMMA DeadPeerInit == Init => DeadPeerInv
BY TimeAssumption DEF Init, DeadPeerInv, Types, ClockInv, Open

\* now_ms_ keeps the clock exact, also where millis() wraps.
LEMMA ClockStep == ClockInv /\ [Next]_vars => ClockInv'
<1> SUFFICES ASSUME ClockInv, [Next]_vars PROVE ClockInv'
  OBVIOUS
<1> USE TimeAssumption DEF ClockInv
<1>1. CASE Elapse
  BY <1>1, SMTT(90) DEF Elapse, clock
<1>2. CASE BeginPass
  BY <1>2, SMTT(90) DEF BeginPass, millis_high_after
<1>3. CASE UNCHANGED <<time, millis, clock>>
  BY <1>3 DEF clock
<1> QED
  BY <1>1, <1>2, <1>3 DEF Next, vars, AcceptDone, tick, Arrive, Accept, NothingToRead,
     Disconnected, OnData

\* now_ms_() is exact for every width of the counter, if a pass begins at least
\* once per turn.
THEOREM ClockCorrect == Spec => []ClockExact
<1>1. Init => ClockInv
  BY TimeAssumption DEF Init, ClockInv
<1>2. ClockInv => ClockExact
  BY DEF ClockInv, ClockExact
<1> QED
  BY <1>1, <1>2, ClockStep, PTL DEF Spec

\* Every step of the host, the peers and the server keeps the invariant.
LEMMA DeadPeerStep == DeadPeerInv /\ [Next]_vars => DeadPeerInv'
<1> SUFFICES ASSUME DeadPeerInv, [Next]_vars PROVE DeadPeerInv'
  OBVIOUS
<1>c. ClockInv /\ ClockInv'
  BY ClockStep DEF DeadPeerInv
<1>t. Types
  BY DEF DeadPeerInv
<1>s. \A i \in Slots : Open(i) => UnreadRecent(i) /\ DeadlineInv(i)
  BY DEF DeadPeerInv
<1>d. \A i \in Slots : Timeout(i) \in Nat
  BY <1>t, TimeoutNat DEF Types, Timeout
<1> SUFFICES Types' /\ \A i \in Slots : Open(i)' => UnreadRecent(i)' /\ DeadlineInv(i)'
  BY <1>c DEF DeadPeerInv
<1>1. CASE Elapse
  <2>1. Types'
    BY <1>1, <1>t DEF Open, Elapse, Types, session, stream
  <2>2. ASSUME NEW i \in Slots, Open(i)'
        PROVE  UnreadRecent(i)' /\ DeadlineInv(i)'
    BY <1>1, <1>c, <1>t, <1>s, <2>2, SMTT(90)
       DEF Elapse, Types, ClockInv, Open, UnreadRecent, DeadlineInv, Timeout, dpd_timeout, clock, session, stream
  <2> QED BY <2>1, <2>2
<1>2. CASE BeginPass
  <2>1. Types'
    BY <1>2, <1>t DEF Open, BeginPass, Types, session, stream
  <2>2. ASSUME NEW i \in Slots, Open(i)'
        PROVE  UnreadRecent(i)' /\ DeadlineInv(i)'
    <3>1. /\ UnreadRecent(i) /\ DeadlineInv(i) /\ pc = "IDLE" /\ pc' = "ACCEPT" /\ visited' = {}
          /\ started' = time /\ time' = time
          /\ unread'[i] = unread[i] /\ deadline_ms'[i] = deadline_ms[i] /\ heard'[i] = heard[i]
          /\ Timeout(i)' = Timeout(i)
      BY <1>2, <1>s, <2>2 DEF BeginPass, Open, Timeout, session, stream
    <3> QED
      BY <3>1, <1>c, <1>t, <1>d, TimeAssumption, SMTT(90)
         DEF Types, ClockInv, UnreadRecent, DeadlineInv
  <2> QED BY <2>1, <2>2
<1>3. CASE AcceptDone
  BY <1>3, <1>t, <1>s DEF AcceptDone, Types, Open, UnreadRecent, DeadlineInv, Timeout, clock, session, stream
<1>4. CASE tick
  <2>1. Types'
    BY <1>4, <1>t, SMTT(90) DEF Open, tick, Types, Reset
  <2>2. ASSUME NEW i \in Slots, Open(i)'
        PROVE  UnreadRecent(i)' /\ DeadlineInv(i)'
    <3>1. /\ Open(i) /\ ~expired(i) /\ i \in visited
          /\ time' = time /\ started' = started /\ now = started
          /\ unread'[i] = unread[i] /\ deadline_ms'[i] = deadline_ms[i] /\ heard'[i] = heard[i]
          /\ phase'[i] = phase[i] /\ heartbeat_ms'[i] = heartbeat_ms[i]
      BY <1>4, <2>2, <1>c DEF tick, Reset, Open, ClockInv, clock
    <3>2. UnreadRecent(i) /\ DeadlineInv(i)
      BY <1>s, <3>1
    <3>3. deadline_ms[i] > started
      BY <3>1, <1>c, <1>t DEF expired, ClockInv, Types
    <3> QED
      BY <3>1, <3>2, <3>3 DEF UnreadRecent, DeadlineInv, Timeout
  <2> QED BY <2>1, <2>2
<1>5. ASSUME NEW k \in Slots, Arrive(k)
      PROVE  Types' /\ \A i \in Slots : Open(i)' => UnreadRecent(i)' /\ DeadlineInv(i)'
  <2>1. Types'
    BY <1>5, <1>t, <1>c DEF Open, Arrive, Types, ClockInv, session
  <2>2. ASSUME NEW i \in Slots, Open(i)'
        PROVE  UnreadRecent(i)' /\ DeadlineInv(i)'
    <3>1. /\ Open(i) /\ pc' = pc /\ visited' = visited
          /\ time' = time /\ started' = started
          /\ unread'[i] \subseteq unread[i] \cup {time}
          /\ deadline_ms'[i] = deadline_ms[i] /\ heard'[i] = heard[i]
          /\ phase'[i] = phase[i] /\ heartbeat_ms'[i] = heartbeat_ms[i]
      BY <1>5, <1>t, <2>2 DEF Arrive, Open, Types, clock, session
    <3>2. UnreadRecent(i) /\ DeadlineInv(i)
      BY <1>s, <3>1
    <3>3. UnreadRecent(i)'
      BY <3>1, <3>2, <1>c, TimeAssumption, SMTT(90) DEF UnreadRecent, ClockInv
    <3> QED
      BY <3>1, <3>2, <3>3 DEF DeadlineInv, Timeout
  <2> QED BY <2>1, <2>2
<1>6. ASSUME NEW k \in Slots, Accept(k)
      PROVE  Types' /\ \A i \in Slots : Open(i)' => UnreadRecent(i)' /\ DeadlineInv(i)'
  <2>1. Types'
    BY <1>6, <1>t, <1>c, TimeAssumption DEF Open, Accept, Types, ClockInv
  <2>2. ASSUME NEW i \in Slots, Open(i)', i # k
        PROVE  UnreadRecent(i)' /\ DeadlineInv(i)'
    BY <1>6, <1>t, <1>s, <2>2
       DEF Accept, Types, Open, UnreadRecent, DeadlineInv, Timeout, clock
  <2>3. UnreadRecent(k)' /\ DeadlineInv(k)'
    BY <1>6, <1>t, <1>c, TimeAssumption, SMTT(90)
       DEF Accept, Open, Types, ClockInv, UnreadRecent, DeadlineInv, Timeout, dpd_timeout, clock
  <2> QED BY <2>1, <2>2, <2>3
<1>7. ASSUME NEW k \in Slots, NothingToRead(k)
      PROVE  Types' /\ \A i \in Slots : Open(i)' => UnreadRecent(i)' /\ DeadlineInv(i)'
  BY <1>7, <1>t, <1>s
     DEF NothingToRead, Types, Open, UnreadRecent, DeadlineInv, Timeout, clock, session, stream
<1>8. ASSUME NEW k \in Slots, Disconnected(k)
      PROVE  Types' /\ \A i \in Slots : Open(i)' => UnreadRecent(i)' /\ DeadlineInv(i)'
  BY <1>8, <1>t, <1>s, SMTT(90)
     DEF Disconnected, Reset, Types, Open, UnreadRecent, DeadlineInv, Timeout, clock
<1>9. ASSUME NEW k \in Slots, NEW u \in unread[k],
             NEW ph \in {"WAIT_PREINIT", "WAIT_INIT", "ACTIVE"}, NEW hb \in Heartbeats \cup {0},
             OnData(k, u, ph, hb)
      PROVE  Types' /\ \A i \in Slots : Open(i)' => UnreadRecent(i)' /\ DeadlineInv(i)'
  <2>0. hb \in Nat /\ dpd_timeout(ph, hb) \in Nat /\ u \in Int
    BY <1>t, TimeoutNat, TimeAssumption DEF Types
  <2>1. Types'
    BY <1>9, <2>0, <1>t, <1>c DEF Open, OnData, renewed_deadline, Types, ClockInv
  <2>2. ASSUME NEW i \in Slots, Open(i)', i # k
        PROVE  UnreadRecent(i)' /\ DeadlineInv(i)'
    BY <1>9, <1>t, <1>s, <2>2
       DEF OnData, Types, Open, UnreadRecent, DeadlineInv, Timeout, clock
  <2>3. UnreadRecent(k)' /\ DeadlineInv(k)'
    <3>1. /\ UnreadRecent(k) /\ k \notin visited /\ pc = "IO" /\ pc' = "IO" /\ visited' = visited
          /\ time' = time /\ started' = started /\ now = started
          /\ unread'[k] \subseteq unread[k]
          /\ heard'[k] = u /\ phase'[k] = ph /\ heartbeat_ms'[k] = hb
          /\ deadline_ms'[k] = started + dpd_timeout(ph, hb)
      BY <1>9, <1>t, <1>s, <1>c DEF OnData, renewed_deadline, Types, ClockInv, clock
    <3>2. UnreadRecent(k)'
      BY <3>1, <1>c, TimeAssumption DEF UnreadRecent, ClockInv
    <3>3. u <= started + MaxGap /\ u >= started - MaxGap
      BY <3>1, <2>0, <1>c, TimeAssumption DEF UnreadRecent, ClockInv
    <3>4. Timeout(k)' = dpd_timeout(ph, hb)
      BY <3>1 DEF Timeout
    <3> HIDE DEF Timeout
    <3>5. started \in Int /\ MaxGap \in Nat \ {0}
      BY <1>c, TimeAssumption DEF ClockInv
    <3> DEFINE T == dpd_timeout(ph, hb)
    <3>6. T \in Nat
      BY <2>0
    <3> HIDE DEF T
    <3>7. /\ started + T >= u + T - MaxGap
          /\ started + T <= u + T + MaxGap
          /\ started + T > started - MaxGap
      BY <3>3, <3>5, <3>6, <2>0, SMTT(90)
    <3>8. heard'[k] = u /\ deadline_ms'[k] = started + T /\ Timeout(k)' = T
      BY <3>1, <3>4 DEF T
    <3>9. DeadlineInv(k)'
      BY <3>1, <3>7, <3>8 DEF DeadlineInv
    <3> QED
      BY <3>2, <3>9
  <2> QED BY <2>1, <2>2, <2>3
<1>10. CASE UNCHANGED vars
  BY <1>10, <1>t, <1>s
     DEF vars, Types, Open, UnreadRecent, DeadlineInv, Timeout, clock, session, stream
<1> QED
  BY <1>1, <1>2, <1>3, <1>4, <1>5, <1>6, <1>7, <1>8, <1>9, <1>10 DEF Next

\* Deadlines, the clock and the passes of loop() stay in step: the inductive
\* invariant from which the two theorems on sessions follow.
THEOREM DeadPeerInvariant == Spec => []DeadPeerInv
BY DeadPeerInit, DeadPeerStep, PTL DEF Spec

\* A dead client does not keep its slot.
THEOREM SilentSessionsEnd == Spec => []SilentSessionEnds
<1>1. DeadPeerInv => SilentSessionEnds
  <2> SUFFICES ASSUME DeadPeerInv, NEW i \in Slots, Open(i)
               PROVE  time - heard[i] < Timeout(i) + 3 * MaxGap
    BY DEF SilentSessionEnds, Timeout
  <2>1. Timeout(i) \in Nat
    BY TimeoutNat DEF DeadPeerInv, Types, Timeout
  <2> QED
    BY <2>1, TimeAssumption, SMTT(90) DEF DeadPeerInv, Types, ClockInv, DeadlineInv
<1> QED
  BY <1>1, DeadPeerInvariant, PTL

\* No live client is evicted.
THEOREM LiveSessionsStay == Spec => EvictedOnlyAfterSilence
<1> DEFINE Stays ==
      tick => \A i \in Slots : Open(i) /\ phase'[i] = "FREE" =>
        /\ \A u \in unread[i] : u >= now
        /\ now - heard[i] >= dpd_timeout(phase[i], heartbeat_ms[i]) - MaxGap
<1>1. DeadPeerInv => Stays
  <2> SUFFICES ASSUME DeadPeerInv, tick, NEW i \in Slots, Open(i), phase'[i] = "FREE"
               PROVE  /\ \A u \in unread[i] : u >= now
                      /\ now - heard[i] >= Timeout(i) - MaxGap
    BY DEF Timeout
  <2>1. Timeout(i) \in Nat
    BY TimeoutNat DEF DeadPeerInv, Types, Timeout
  <2>2. expired(i) /\ i \in visited
    BY DEF tick, Reset, Open
  <2> QED
    BY <2>1, <2>2, TimeAssumption, SMTT(90)
       DEF DeadPeerInv, Types, ClockInv, UnreadRecent, DeadlineInv, expired
<1> HIDE DEF Stays
<1>2. Spec => [][Stays]_vars
  BY <1>1, DeadPeerInvariant, PTL DEF Spec
<1> QED
  BY <1>2 DEF Stays, EvictedOnlyAfterSilence
=============================================================================
