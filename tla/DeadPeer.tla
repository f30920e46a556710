------------------------------ MODULE DeadPeer ------------------------------
(***************************************************************************)
(* Dead peer detection and the clock it runs on: deadline_ms, tick() and   *)
(* reschedule_dpd() of the server, now_ms_() and the order of the steps of *)
(* loop() in the component.  A pass of the loop reads the clock once,      *)
(* accepts, reads each connection until nothing is left to read, and       *)
(* calls tick(); true time passes between and during these steps, and      *)
(* bytes arrive at any moment.                                             *)
(***************************************************************************)
EXTENDS Integers

CONSTANTS
  Slots,             \* the slots of the session table
  WRAP,              \* millis() counts modulo WRAP, which is 2^32
  PREACTIVE_TIMEOUT_MS,
  Heartbeats,        \* the heartbeat intervals that the server accepts
  MaxGap,            \* a pass begins at most this long after the one before
  MaxTime            \* bound on time

ASSUME TimeAssumption ==
  /\ WRAP \in Nat /\ MaxGap \in Nat \ {0} /\ MaxTime \in Nat
  /\ MaxGap < WRAP
  /\ PREACTIVE_TIMEOUT_MS \in Nat \ {0}
  /\ Heartbeats \subseteq Nat \ {0, 1}

VARIABLES
  time,          \* true time since boot
  millis,        \* the counter of the same name, of 32 bits
  last_millis_, millis_high_,
  started,       \* true time at which the current pass read the clock
  now,           \* what it read
  pc,            \* where the loop is
  visited,       \* slots whose connection has been read in this pass
  phase, heartbeat_ms, deadline_ms,    \* per session
  unread,        \* arrival times of the bytes that wait in a connection
  heard          \* arrival time of the last byte handed to the server, at first
                 \* the time of the accept

clock == <<last_millis_, millis_high_, started, now>>
session == <<phase, heartbeat_ms, deadline_ms>>
stream == <<unread, heard>>
vars == <<time, millis, clock, pc, visited, session, stream>>

Init ==
  /\ time = 0 /\ millis = 0
  /\ last_millis_ = 0 /\ millis_high_ = 0
  /\ started = 0 /\ now = 0
  /\ pc = "IDLE" /\ visited = {}
  /\ phase = [i \in Slots |-> "FREE"]
  /\ heartbeat_ms = [i \in Slots |-> 0]
  /\ deadline_ms = [i \in Slots |-> 0]
  /\ unread = [i \in Slots |-> {}]
  /\ heard = [i \in Slots |-> 0]

Open(i) == phase[i] # "FREE"

-----------------------------------------------------------------------------
(***************************************************************************)
(* Time and clients.                                                       *)
(***************************************************************************)
Elapse ==
  /\ time < MaxTime /\ time < started + MaxGap
  /\ time' = time + 1
  /\ millis' = IF millis + 1 = WRAP THEN 0 ELSE millis + 1
  /\ UNCHANGED <<clock, pc, visited, session, stream>>

Arrive(i) ==
  /\ Open(i)
  /\ unread' = [unread EXCEPT ![i] = @ \cup {time}]
  /\ UNCHANGED <<time, millis, clock, pc, visited, session, heard>>

-----------------------------------------------------------------------------
(***************************************************************************)
(* A pass of the loop.                                                     *)
(***************************************************************************)
\* now_ms_(): the high part moves on when millis() went back.  In the faulty
\* variant it does not.
millis_high_stays(ms) == millis_high_

millis_high_after(ms) == IF ms < last_millis_ THEN millis_high_ + WRAP ELSE millis_high_

BeginPass ==
  /\ pc = "IDLE"
  /\ millis_high_' = millis_high_after(millis)
  /\ last_millis_' = millis
  /\ now' = millis_high_' + last_millis_'
  /\ started' = time
  /\ pc' = "ACCEPT" /\ visited' = {}
  /\ UNCHANGED <<time, millis, session, stream>>

\* DPD_COEFFICIENT is 1.5, and the product is truncated.
dpd_timeout(ph, hb) == IF ph = "ACTIVE" THEN (3 * hb) \div 2 ELSE PREACTIVE_TIMEOUT_MS

\* on_connect
Accept(i) ==
  /\ pc = "ACCEPT" /\ ~Open(i)
  /\ phase' = [phase EXCEPT ![i] = "WAIT_PREINIT"]
  /\ deadline_ms' = [deadline_ms EXCEPT ![i] = now + PREACTIVE_TIMEOUT_MS]
  /\ heard' = [heard EXCEPT ![i] = time]
  /\ UNCHANGED <<time, millis, clock, pc, visited, heartbeat_ms, unread>>

AcceptDone ==
  /\ pc = "ACCEPT"
  /\ pc' = "IO"
  /\ UNCHANGED <<time, millis, clock, visited, session, stream>>

\* Phase and heartbeat after the frame that the bytes complete, if any: a
\* PREINIT, an INIT that is accepted or refused, a SET_OPTION.
AfterFrame(ph, hb) ==
  {<<ph, hb>>}
  \cup (IF ph = "WAIT_PREINIT" THEN {<<"WAIT_INIT", hb>>} ELSE {})
  \cup (IF ph = "WAIT_INIT" THEN {"WAIT_INIT", "ACTIVE"} \X Heartbeats ELSE {})
  \cup (IF ph = "ACTIVE" THEN {"ACTIVE"} \X Heartbeats ELSE {})

\* on_data renews the deadline, INIT and SET_OPTION renew it again with the new
\* phase and heartbeat.  Faulty variant: only the handshake renews it.
deadline_in_handshake(i, ph, hb) ==
  IF ph = "ACTIVE" /\ <<ph, hb>> = <<phase[i], heartbeat_ms[i]>> THEN deadline_ms[i]
  ELSE now + dpd_timeout(ph, hb)

renewed_deadline(i, ph, hb) == now + dpd_timeout(ph, hb)

OnData(i, u, ph, hb) ==
  /\ pc = "IO" /\ i \notin visited /\ Open(i)
  /\ u \in unread[i] /\ \A v \in unread[i] : u <= v
  /\ <<ph, hb>> \in AfterFrame(phase[i], heartbeat_ms[i])
  /\ phase' = [phase EXCEPT ![i] = ph]
  /\ heartbeat_ms' = [heartbeat_ms EXCEPT ![i] = hb]
  /\ deadline_ms' = [deadline_ms EXCEPT ![i] = renewed_deadline(i, ph, hb)]
  /\ unread' = [unread EXCEPT ![i] = @ \ {u}]
  /\ heard' = [heard EXCEPT ![i] = u]
  /\ UNCHANGED <<time, millis, clock, pc, visited>>

\* Session::reset() and the end of the connection.
Reset(S) ==
  /\ phase' = [i \in Slots |-> IF i \in S THEN "FREE" ELSE phase[i]]
  /\ heartbeat_ms' = [i \in Slots |-> IF i \in S THEN 0 ELSE heartbeat_ms[i]]
  /\ deadline_ms' = [i \in Slots |-> IF i \in S THEN 0 ELSE deadline_ms[i]]
  /\ unread' = [i \in Slots |-> IF i \in S THEN {} ELSE unread[i]]
  /\ heard' = [i \in Slots |-> IF i \in S THEN 0 ELSE heard[i]]

\* The read loop of a connection ends: nothing is left to read, or the peer
\* is gone or was sent away.
NothingToRead(i) ==
  /\ pc = "IO" /\ i \notin visited
  /\ unread[i] = {} \/ ~Open(i)
  /\ visited' = visited \cup {i}
  /\ UNCHANGED <<time, millis, clock, pc, session, stream>>

Disconnected(i) ==
  /\ pc = "IO" /\ i \notin visited /\ Open(i)
  /\ Reset({i})
  /\ visited' = visited \cup {i}
  /\ UNCHANGED <<time, millis, clock, pc>>

\* In the faulty variant a deadline expires one millisecond late.
expired_late(i) == Open(i) /\ now > deadline_ms[i]

expired(i) == Open(i) /\ now >= deadline_ms[i]

tick ==
  /\ pc = "IO" /\ visited = Slots
  /\ Reset({i \in Slots : expired(i)})
  /\ pc' = "IDLE"
  /\ UNCHANGED <<time, millis, clock, visited>>

Next ==
  \/ Elapse
  \/ BeginPass
  \/ AcceptDone
  \/ tick
  \/ \E i \in Slots :
       \/ Arrive(i)
       \/ Accept(i)
       \/ NothingToRead(i)
       \/ Disconnected(i)
       \/ \E u \in unread[i], ph \in {"WAIT_PREINIT", "WAIT_INIT", "ACTIVE"}, hb \in Heartbeats \cup {0} :
            OnData(i, u, ph, hb)

Spec == Init /\ [][Next]_vars

-----------------------------------------------------------------------------
(***************************************************************************)
(* Properties.                                                             *)
(***************************************************************************)

\* now_ms_() is true time, also after millis() has wrapped: no wrap is missed
\* and none is counted twice.
ClockExact == now = started

\* tick() ends a session only after its connection was silent: everything that
\* had arrived when the pass began has been read, and the last of it arrived
\* the timeout before, less the time by which the clock of the pass that read
\* it lagged behind.
EvictedOnlyAfterSilence ==
  [][tick => \A i \in Slots : Open(i) /\ phase'[i] = "FREE" =>
       /\ \A u \in unread[i] : u >= now
       /\ now - heard[i] >= dpd_timeout(phase[i], heartbeat_ms[i]) - MaxGap]_vars

\* A session whose connection is silent is ended: a dead client occupies its
\* slot for less than the timeout and three passes (tick, reschedule_dpd).
SilentSessionEnds ==
  \A i \in Slots : Open(i) /\ unread[i] = {} =>
    time - heard[i] < dpd_timeout(phase[i], heartbeat_ms[i]) + 3 * MaxGap
=============================================================================
