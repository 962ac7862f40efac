-------------------------- MODULE RemoteControlProofs --------------------------
(***************************************************************************)
(* Seats bound the open sessions, a revocation closes them and every       *)
(* session has an alarm: for any workstations, requests, seats and times.  *)
(***************************************************************************)
EXTENDS RemoteControl, TLAPS

RequestRow == [stage : Stage, client : Workstation, seats : 1..Seats, since : Time]

\* The row of a session is the one openRelaySession wrote for its request.
SessionsKnown ==
  \A w \in Workstation : session[w] # NoSession =>
    /\ request[session[w].token].client = w
    /\ request[session[w].token].stage \notin {"idle", "allowed"}
    /\ session[w].ends_at = request[session[w].token].since + Limit

\* A viewer joined with a request that has come to its end.
ViewersKnown ==
  \A s \in socket : s.side = "console" =>
    request[s.token].stage = "joined" /\ request[s.token].client = s.client

\* The request's viewer is in its session, or past the last check before.
Viewing(r) ==
  request[r].stage = "joining" \/ \E s \in socket : s.side = "console" /\ s.token = r

\* The session of a workstation is running and was granted a seat.
Running(w) == session[w] # NoSession /\ now < session[w].ends_at
Granted(w) == request[session[w].token].stage = "granted" \/ Viewing(session[w].token)

\* Its seat lasts as long as the session does.
Seated(w) == seat[w] # None /\ seat[w] >= session[w].ends_at

GrantedIsSeated ==
  \A w \in Workstation : Running(w) /\ Granted(w) => w \in unseated \cup revoking.left \/ Seated(w)

LeftIsClosing == revoking.stage # "closing" => revoking.left = {}

\* From the moment the seats are freed, what is still viewed is on the list.
ViewedIsListed ==
  ~ enabled /\ revoking.stage \in {"closing", "done"} =>
    \A w \in Workstation : Running(w) /\ Viewing(session[w].token) => w \in unseated \cup revoking.left

IInv ==
  /\ TypeOK /\ SessionsKnown /\ ViewersKnown
  /\ GrantedIsSeated /\ LeftIsClosing /\ ViewedIsListed

-----------------------------------------------------------------------------
(* Types.                                                                   *)

LEMMA SessionFacts ==
  ASSUME TypeOK
  PROVE  \A w \in Workstation :
           /\ session[w] # NoSession => /\ session[w].token \in Request /\ session[w].join_by \in Time
                                        /\ session[w].ends_at \in Time
           /\ session[w] = NoSession <=> session[w].token \notin Request
  BY RequestAssumption DEF TypeOK, Session, NoSession

LEMMA GoesTo ==
  ASSUME TypeOK, NEW r \in Request, NEW st \in Stage, Goes(r, st)
  PROVE  /\ request' \in [Request -> RequestRow]
         /\ \A q \in Request : /\ request'[q].client = request[q].client /\ request'[q].seats = request[q].seats
                               /\ request'[q].since = request[q].since
                               /\ q # r => request'[q] = request[q]
         /\ request'[r].stage = st
  BY DEF TypeOK, RequestRow, Goes

LEMMA OpensTo ==
  ASSUME TypeOK, NEW r \in Request, openRelaySession(r)
  PROVE  /\ request' \in [Request -> RequestRow]
         /\ \A q \in Request \ {r} : request'[q] = request[q]
         /\ request'[r].client = request[r].client /\ request'[r].stage = "opened" /\ request'[r].since = now
  <1> DEFINE row == [request[r] EXCEPT !.stage = "opened", !.since = now]
  <1>1. request[r] \in RequestRow /\ now \in Time
    BY Zenon DEF TypeOK, RequestRow, Time
  <1>2. row \in RequestRow /\ row.client = request[r].client /\ row.stage = "opened" /\ row.since = now
    BY Zenon, <1>1 DEF RequestRow, Stage
  <1>3. request' = [request EXCEPT ![r] = row]
    BY Zenon DEF openRelaySession, TypeOK
  <1> HIDE DEF row
  <1>4. QED
    BY Zenon, <1>2, <1>3 DEF TypeOK, RequestRow

LEMMA EndedKeeps ==
  ASSUME TypeOK, NEW w \in Workstation, ended(w)
  PROVE  /\ session' \in [Workstation -> Session] /\ notice' \in [Workstation -> Nat]
         /\ session'[w] = NoSession
         /\ \A x \in Workstation : x # w => session'[x] = session[x]
  BY DEF TypeOK, ended, Session

LEMMA SweptKeeps ==
  ASSUME TypeOK
  PROVE  Swept \in [Workstation -> 0 .. MaxTime + Limit \cup {None}]
  BY Zenon DEF TypeOK, Swept

LEMMA AcceptKeeps ==
  ASSUME TypeOK, NEW w \in Workstation, NEW side \in Side, NEW r \in Request,
         session[w].token = r, accept(w, side, r)
  PROVE  socket' \subseteq Socket /\ alarm' \in [Workstation -> Time \cup {None}]
  BY SessionFacts DEF TypeOK, accept, Socket

LEMMA TypeStep == TypeOK /\ [Next]_vars => TypeOK'
  <1> SUFFICES ASSUME TypeOK, [Next]_vars PROVE TypeOK'
    BY Zenon
  <1>t. Time = 0..MaxTime /\ MaxTime \in Nat /\ Limit \in Nat /\ Join \in Nat /\ Join < Limit
    BY Zenon, TimeAssumption DEF Time
  <1>1. CASE UNCHANGED vars
    BY Zenon, <1>1 DEF vars, TypeOK
  <1>2. ASSUME NEW s \in socket, departed(s) \/ webSocketMessage(s) PROVE TypeOK'
    <2>1. s.client \in Workstation
      BY Zenon DEF TypeOK, Socket
    <2>2. CASE ended(s.client)
      BY Zenon, <1>2, <2>1, <2>2, EndedKeeps DEF departed, webSocketMessage, TypeOK
    <2>3. CASE UNCHANGED <<session, notice>>
      BY Zenon, <1>2, <2>3 DEF departed, webSocketMessage, TypeOK
    <2>4. QED
      BY Zenon, <1>2, <2>2, <2>3 DEF departed, webSocketMessage
  <1>3. ASSUME NEW w \in Workstation, relayAlarm(w) PROVE TypeOK'
    <2>1. alarm' \in [Workstation -> Time \cup {None}]
      BY Zenon, <1>3, SessionFacts DEF relayAlarm, TypeOK
    <2>2. session' \in [Workstation -> Session] /\ notice' \in [Workstation -> Nat]
      BY Zenon, <1>3, EndedKeeps DEF relayAlarm, TypeOK
    <2>3. QED
      BY Zenon, <1>3, <2>1, <2>2 DEF relayAlarm, TypeOK
  <1>4. ASSUME NEW w \in Workstation, NEW refused \in BOOLEAN, closeRevoked(w, refused) PROVE TypeOK'
    <2>1. session' \in [Workstation -> Session] /\ notice' \in [Workstation -> Nat] /\ UNCHANGED <<socket, alarm>>
      BY Zenon, <1>4, EndedKeeps DEF closeRevoked, relayClose, relay, TypeOK
    <2>2. unseated' \subseteq Workstation
      BY <1>4 DEF closeRevoked, TypeOK
    <2>3. QED
      BY Zenon, <1>4, <2>1, <2>2 DEF closeRevoked, TypeOK
  <1>5. ASSUME NEW w \in Workstation, NEW lost \in BOOLEAN, remote_ended(w, lost) PROVE TypeOK'
    <2>1. seat' \in [Workstation -> 0 .. MaxTime + Limit \cup {None}]
      BY Zenon, <1>5 DEF remote_ended, TypeOK
    <2>2. notice' \in [Workstation -> Nat]
      BY <1>5 DEF remote_ended, TypeOK
    <2>3. unseated' \subseteq Workstation
      BY Zenon, <1>5 DEF remote_ended, TypeOK
    <2>4. QED
      BY Zenon, <1>5, <2>1, <2>2, <2>3 DEF remote_ended, relay, TypeOK
  <1>6. ASSUME NEW r \in Request, joinDevice(r) PROVE TypeOK'
    <2>1. request[r].client \in Workstation
      BY Zenon DEF TypeOK
    <2>2. socket' \subseteq Socket /\ alarm' \in [Workstation -> Time \cup {None}]
      BY Zenon, <1>6, <2>1, AcceptKeeps DEF joinDevice, joinRefusal, TypeOK, Side
    <2>3. QED
      BY Zenon, <1>6, <2>2 DEF joinDevice, TypeOK
  <1>7. ASSUME NEW w \in Workstation, NEW r \in Request, NEW seats \in 1..Seats, Ask(r, w, seats) PROVE TypeOK'
    <2>1. [stage |-> "allowed", client |-> w, seats |-> seats, since |-> 0] \in RequestRow
      BY <1>t DEF RequestRow, Stage
    <2>2. request' \in [Request -> RequestRow]
      BY Zenon, <1>7, <2>1 DEF Ask, TypeOK, RequestRow
    <2>3. QED
      BY Zenon, <1>7, <2>2 DEF Ask, relay, TypeOK, RequestRow
  <1>8. ASSUME NEW r \in Request, openRelaySession(r) PROVE TypeOK'
    <2>1. now + Join \in Time /\ now + Limit \in Time /\ now \in Time /\ request[r].client \in Workstation
      BY <1>8, <1>t DEF openRelaySession, TypeOK
    <2>2. request' \in [Request -> RequestRow]
      BY Zenon, <1>8, OpensTo
    <2>3. session' \in [Workstation -> Session] /\ alarm' \in [Workstation -> Time \cup {None}]
      BY Zenon, <1>8, <2>1 DEF openRelaySession, open, TypeOK, Session
    <2>4. QED
      BY Zenon, <1>8, <2>2, <2>3 DEF openRelaySession, TypeOK, RequestRow
  <1>9. ASSUME NEW r \in Request, closeRelaySession(r) PROVE TypeOK'
    <2>1. request[r].client \in Workstation /\ request' \in [Request -> RequestRow]
      BY Zenon, <1>9, GoesTo DEF closeRelaySession, TypeOK, Stage
    <2>2. session' \in [Workstation -> Session] /\ notice' \in [Workstation -> Nat]
      BY Zenon, <1>9, <2>1, EndedKeeps DEF closeRelaySession, relayClose
    <2>3. QED
      BY Zenon, <1>9, <2>1, <2>2 DEF closeRelaySession, relayClose, TypeOK, RequestRow
  <1>10. ASSUME NEW r \in Request, consoleAllowed(r) \/ RequestFails(r) PROVE TypeOK'
    <2>1. request' \in [Request -> RequestRow]
      BY Zenon, <1>10, GoesTo DEF consoleAllowed, RequestFails, Stage
    <2>2. QED
      BY Zenon, <1>10, <2>1 DEF consoleAllowed, RequestFails, relay, TypeOK, RequestRow
  <1>11. ASSUME NEW r \in Request, joinConsole(r) PROVE TypeOK'
    <2>1. request[r].client \in Workstation /\ request' \in [Request -> RequestRow]
      BY Zenon, <1>11, GoesTo DEF joinConsole, TypeOK, Stage
    <2>2. socket' \subseteq Socket /\ alarm' \in [Workstation -> Time \cup {None}]
      BY Zenon, <1>11, <2>1, AcceptKeeps DEF joinConsole, joinRefusal, TypeOK, Side
    <2>3. QED
      BY Zenon, <1>11, <2>1, <2>2 DEF joinConsole, TypeOK, RequestRow
  <1>12. ASSUME NEW r \in Request, NEW connected \in BOOLEAN, NEW at \in Time, remote_open(r, connected, at)
         PROVE  TypeOK'
    <2> DEFINE w == request[r].client
    <2>1. w \in Workstation /\ request' \in [Request -> RequestRow]
      BY Zenon, <1>12, GoesTo DEF remote_open, TypeOK, Stage
    <2>2. at + Limit \in 0 .. MaxTime + Limit
      BY <1>t
    <2>3. seat' \in [Workstation -> 0 .. MaxTime + Limit \cup {None}]
      BY Zenon, <1>12, <2>1, <2>2, SweptKeeps DEF remote_open, holdRemoteSeat
    <2>4. unseated' \subseteq Workstation
      BY <1>12, <2>1 DEF remote_open, holdRemoteSeat, TypeOK
    <2>5. QED
      BY Zenon, <1>12, <2>1, <2>3, <2>4 DEF remote_open, relay, TypeOK, RequestRow
  <1>13. CASE Disable \/ RevokeFails \/ Disabled \/ Enable
    <2>1. enabled' \in BOOLEAN
      BY Zenon, <1>13 DEF Disable, RevokeFails, Disabled, Enable, TypeOK
    <2>2. revoking' \in [stage : {"never", "off", "closing", "done", "failed"}, left : SUBSET Workstation]
      BY <1>13 DEF Disable, RevokeFails, Disabled, Enable, TypeOK
    <2>3. UNCHANGED <<now, request, relay, seat, notice, unseated>>
      BY Zenon, <1>13 DEF Disable, RevokeFails, Disabled, Enable
    <2>4. QED
      BY Zenon, <2>1, <2>2, <2>3 DEF relay, TypeOK
  <1>14. CASE remote_revoke
    BY Zenon, <1>14 DEF remote_revoke, relay, TypeOK
  <1>15. CASE Tick
    BY <1>15, <1>t DEF Tick, relay, TypeOK
  <1>16. QED
    BY <1>1, <1>2, <1>3, <1>4, <1>5, <1>6, <1>7, <1>8, <1>9, <1>10, <1>11, <1>12, <1>13, <1>14, <1>15
       DEF Next

-----------------------------------------------------------------------------
(* What the seats and the revocation rest on.                               *)

Rest == SessionsKnown /\ ViewersKnown /\ GrantedIsSeated /\ LeftIsClosing /\ ViewedIsListed

\* Sessions and viewers may go, as long as nothing else changes but device sides.
LEMMA Fewer ==
  ASSUME IInv, TypeOK',
         UNCHANGED <<now, enabled, request, seat, revoking, unseated>>,
         \A w \in Workstation : session'[w] \in {session[w], NoSession},
         \A s \in socket' : s.side = "console" => s \in socket
  PROVE  Rest'
  <1>1. SessionsKnown'
    BY DEF IInv, SessionsKnown
  <1>2. ViewersKnown'
    BY Zenon DEF IInv, ViewersKnown
  <1>3. \A r \in Request : Viewing(r)' => Viewing(r)
    BY Zenon DEF Viewing
  <1>4. \A w \in Workstation : Running(w)' => Running(w) /\ session'[w] = session[w] /\ session[w].token \in Request
    BY Zenon, SessionFacts DEF Running, IInv
  <1>5. GrantedIsSeated'
    BY Zenon, <1>3, <1>4 DEF IInv, GrantedIsSeated, Granted, Seated
  <1>6. LeftIsClosing'
    BY Zenon DEF IInv, LeftIsClosing
  <1>7. ViewedIsListed'
    BY Zenon, <1>3, <1>4 DEF IInv, ViewedIsListed
  <1>8. QED
    BY Zenon, <1>1, <1>2, <1>5, <1>6, <1>7 DEF Rest

LEMMA EndedIs ==
  ASSUME TypeOK, NEW w \in Workstation, ended(w)
  PROVE  \A x \in Workstation : session'[x] \in {session[x], NoSession}
  BY Zenon DEF TypeOK, ended

LEMMA SocketStep ==
  ASSUME IInv, TypeOK', NEW s \in socket, departed(s) \/ webSocketMessage(s)
  PROVE  Rest'
  <1>1. s.client \in Workstation
    BY Zenon DEF IInv, TypeOK, Socket
  <1>2. \A x \in Workstation : session'[x] \in {session[x], NoSession}
    BY Zenon, <1>1, EndedIs DEF IInv, departed, webSocketMessage
  <1>3. UNCHANGED <<now, enabled, request, seat, revoking, unseated>> /\ socket' \subseteq socket
    BY Zenon DEF departed, webSocketMessage
  <1>4. QED
    BY Zenon, <1>2, <1>3, Fewer

LEMMA AlarmStep ==
  ASSUME IInv, TypeOK', NEW w \in Workstation, relayAlarm(w)
  PROVE  Rest'
  <1>1. \A x \in Workstation : session'[x] \in {session[x], NoSession}
    BY Zenon, EndedIs DEF IInv, relayAlarm
  <1>2. UNCHANGED <<now, enabled, request, seat, revoking, unseated, socket>>
    BY Zenon DEF relayAlarm
  <1>3. QED
    BY Zenon, <1>1, <1>2, Fewer

LEMMA DeviceStep ==
  ASSUME IInv, TypeOK', NEW r \in Request, joinDevice(r)
  PROVE  Rest'
  <1>1. UNCHANGED <<now, enabled, request, seat, revoking, unseated, session>>
    BY Zenon DEF joinDevice
  <1>2. \A s \in socket' : s.side = "console" => s \in socket
    BY DEF joinDevice, accept
  <1>3. QED
    BY Zenon, <1>1, <1>2, Fewer

\* The session that is closed is off the list; one that is not is remembered.
LEMMA CloseStep ==
  ASSUME IInv, TypeOK', NEW w \in Workstation, NEW refused \in BOOLEAN, closeRevoked(w, refused)
  PROVE  Rest'
  <1>1. /\ UNCHANGED <<now, enabled, request, seat, socket>> /\ unseated \subseteq unseated'
        /\ revoking.stage = "closing" /\ revoking' = [stage |-> "closing", left |-> revoking.left \ {w}]
    BY Zenon DEF closeRevoked, relayClose, relay
  <1>2. /\ session'[w] = NoSession \/ (session'[w] = session[w] /\ w \in unseated')
        /\ \A x \in Workstation : x # w => session'[x] = session[x]
    BY Zenon, EndedKeeps DEF IInv, closeRevoked, relayClose, relay
  <1>3. SessionsKnown' /\ ViewersKnown'
    BY <1>1, <1>2 DEF IInv, SessionsKnown, ViewersKnown
  <1>4. GrantedIsSeated'
    BY <1>1, <1>2 DEF IInv, GrantedIsSeated, Running, Granted, Viewing, Seated
  <1>5. LeftIsClosing' /\ ViewedIsListed'
    BY <1>1, <1>2 DEF IInv, LeftIsClosing, ViewedIsListed, Running, Viewing
  <1>6. QED
    BY Zenon, <1>3, <1>4, <1>5 DEF Rest

\* A notice that takes the seat of a running session is remembered.
LEMMA NoticeStep ==
  ASSUME IInv, TypeOK', NEW w \in Workstation, NEW lost \in BOOLEAN, remote_ended(w, lost)
  PROVE  Rest'
  <1>1. /\ UNCHANGED <<now, enabled, request, session, socket, revoking>>
        /\ seat' = IF lost THEN seat ELSE [seat EXCEPT ![w] = None]
        /\ unseated' = unseated \cup {c \in {w} : ~ lost /\ session[c] # NoSession}
    BY Zenon DEF remote_ended, relay
  <1>2. SessionsKnown' /\ ViewersKnown' /\ LeftIsClosing'
    BY Zenon, <1>1 DEF IInv, SessionsKnown, ViewersKnown, LeftIsClosing
  <1>3. GrantedIsSeated'
    <2> SUFFICES ASSUME NEW x \in Workstation, Running(x)', Granted(x)', x \notin unseated', x \notin revoking.left
                 PROVE  Seated(x)'
      BY Zenon, <1>1 DEF GrantedIsSeated
    <2>1. Running(x) /\ Granted(x) /\ x \notin unseated
      BY Zenon, <1>1 DEF Running, Granted, Viewing
    <2>2. Seated(x)
      BY Zenon, <2>1 DEF IInv, GrantedIsSeated
    <2>3. x # w \/ lost
      BY Zenon, <1>1, <2>1 DEF Running
    <2>4. seat'[x] = seat[x]
      BY Zenon, <1>1, <2>3 DEF IInv, TypeOK
    <2>5. QED
      BY Zenon, <1>1, <2>2, <2>4 DEF Seated
  <1>4. ViewedIsListed'
    BY Zenon, <1>1 DEF IInv, ViewedIsListed, Running, Viewing
  <1>5. QED
    BY Zenon, <1>2, <1>3, <1>4 DEF Rest

\* A request that begins has no session and no viewer yet.
LEMMA AskStep ==
  ASSUME IInv, TypeOK', NEW w \in Workstation, NEW r \in Request, NEW seats \in 1..Seats, Ask(r, w, seats)
  PROVE  Rest'
  <1>1. /\ UNCHANGED <<now, enabled, session, socket, seat, revoking, unseated>>
        /\ request[r].stage = "idle" /\ request'[r].stage = "allowed"
        /\ \A q \in Request \ {r} : request'[q] = request[q]
    BY Zenon DEF Ask, relay, IInv, TypeOK
  <1>2. \A x \in Workstation : session[x] # NoSession => session[x].token \in Request \ {r}
    BY <1>1, SessionFacts DEF IInv, SessionsKnown
  <1>3. \A s \in socket : s.side = "console" => s.token \in Request \ {r}
    BY Zenon, <1>1 DEF IInv, ViewersKnown, TypeOK, Socket
  <1>4. SessionsKnown' /\ ViewersKnown' /\ LeftIsClosing'
    BY <1>1, <1>2, <1>3 DEF IInv, SessionsKnown, ViewersKnown, LeftIsClosing
  <1>5. \A x \in Workstation : Running(x)' => /\ Running(x) /\ request'[session[x].token] = request[session[x].token]
    BY Zenon, <1>1, <1>2 DEF Running
  <1>6. GrantedIsSeated' /\ ViewedIsListed'
    BY <1>1, <1>5 DEF IInv, GrantedIsSeated, ViewedIsListed, Granted, Viewing, Seated
  <1>7. QED
    BY Zenon, <1>4, <1>6 DEF Rest

\* A session that opens has no viewer yet, and its request no seat.
LEMMA OpenStep ==
  ASSUME IInv, TypeOK', NEW r \in Request, openRelaySession(r)
  PROVE  Rest'
  <1> PICK w \in Workstation : w = request[r].client
    BY Zenon DEF IInv, TypeOK
  <1>1. w \in Workstation /\ request[r].stage = "allowed"
    BY Zenon DEF openRelaySession, IInv, TypeOK
  <1>2. /\ \A q \in Request \ {r} : request'[q] = request[q]
        /\ request'[r].client = w /\ request'[r].stage = "opened" /\ request'[r].since = now
    BY Zenon, OpensTo DEF IInv
  <1>3. /\ session'[w].token = r /\ session'[w].ends_at = now + Limit
        /\ \A x \in Workstation \ {w} : session'[x] = session[x]
        /\ UNCHANGED <<now, enabled, socket, seat, revoking, unseated>>
    BY <1>1 DEF openRelaySession, open, IInv, TypeOK
  <1>4. \A x \in Workstation : session[x] # NoSession => session[x].token \in Request \ {r}
    BY <1>1, SessionFacts DEF IInv, SessionsKnown
  <1>5. \A s \in socket : s.side = "console" => s.token \in Request \ {r}
    BY Zenon, <1>1 DEF IInv, ViewersKnown, TypeOK, Socket
  <1>6. SessionsKnown'
    BY <1>2, <1>3, <1>4 DEF IInv, SessionsKnown
  <1>7. ViewersKnown' /\ LeftIsClosing'
    BY <1>2, <1>3, <1>5 DEF IInv, ViewersKnown, LeftIsClosing
  <1>8. ~ Granted(w)' /\ ~ Viewing(r)'
    BY Zenon, <1>2, <1>3, <1>5 DEF Granted, Viewing
  <1>9. \A x \in Workstation \ {w} : Running(x)' => Running(x) /\ request'[session[x].token] = request[session[x].token]
    BY <1>2, <1>3, <1>4 DEF Running
  <1>10. GrantedIsSeated'
    BY <1>3, <1>8, <1>9 DEF IInv, GrantedIsSeated, Granted, Viewing, Seated
  <1>11. ViewedIsListed'
    BY <1>3, <1>8, <1>9 DEF IInv, ViewedIsListed, Viewing
  <1>12. QED
    BY Zenon, <1>6, <1>7, <1>10, <1>11 DEF Rest

LEMMA CloseFullStep ==
  ASSUME IInv, TypeOK', NEW r \in Request, closeRelaySession(r)
  PROVE  Rest'
  <1> PICK w \in Workstation : w = request[r].client
    BY Zenon DEF IInv, TypeOK
  <1>1. w \in Workstation /\ request[r].stage = "full" /\ ended(w)
    BY Zenon DEF closeRelaySession, relayClose, IInv, TypeOK
  <1>2. /\ \A q \in Request : request'[q].client = request[q].client /\ request'[q].since = request[q].since
        /\ \A q \in Request \ {r} : request'[q] = request[q]
        /\ request'[r].stage = "over"
    BY GoesTo DEF closeRelaySession, IInv, Stage
  <1>3. session'[w] = NoSession /\ \A x \in Workstation : x # w => session'[x] = session[x]
    BY Zenon, <1>1, EndedKeeps DEF IInv
  <1>4. UNCHANGED <<now, enabled, socket, seat, revoking, unseated>>
    BY Zenon DEF closeRelaySession, relayClose
  <1>5. \A x \in Workstation : session[x] # NoSession => session[x].token \in Request /\ (session[x].token = r => x = w)
    BY Zenon, SessionFacts DEF IInv, SessionsKnown
  <1>6. \A s \in socket : s.side = "console" => s.token \in Request \ {r}
    BY Zenon, <1>1 DEF IInv, ViewersKnown, TypeOK, Socket
  <1>7. \A x \in Workstation : session'[x] # NoSession => /\ session'[x] = session[x] /\ session[x] # NoSession
                                                          /\ session[x].token \in Request \ {r}
    BY Zenon, <1>3, <1>5
  <1>8. SessionsKnown' /\ ViewersKnown' /\ LeftIsClosing'
    BY <1>2, <1>4, <1>6, <1>7 DEF IInv, SessionsKnown, ViewersKnown, LeftIsClosing
  <1>9. \A x \in Workstation : Running(x)' => /\ Running(x) /\ session'[x] = session[x]
                                              /\ request'[session[x].token] = request[session[x].token]
    BY Zenon, <1>2, <1>4, <1>7 DEF Running
  <1>10. GrantedIsSeated' /\ ViewedIsListed'
    BY <1>4, <1>9 DEF IInv, GrantedIsSeated, ViewedIsListed, Granted, Viewing, Seated
  <1>11. QED
    BY Zenon, <1>8, <1>10 DEF Rest

\* A request that fails has no viewer.
LEMMA FailStep ==
  ASSUME IInv, TypeOK', NEW r \in Request, RequestFails(r)
  PROVE  Rest'
  <1>1. /\ \A q \in Request : request'[q].client = request[q].client /\ request'[q].since = request[q].since
        /\ \A q \in Request \ {r} : request'[q] = request[q]
        /\ request'[r].stage = "over" /\ request[r].stage \in {"allowed", "opened", "full"}
    BY GoesTo DEF RequestFails, IInv, Stage
  <1>2. UNCHANGED <<now, enabled, session, socket, seat, revoking, unseated>>
    BY Zenon DEF RequestFails, relay
  <1>3. \A s \in socket : s.side = "console" => s.token \in Request \ {r}
    BY <1>1 DEF IInv, ViewersKnown, TypeOK, Socket
  <1>4. \A x \in Workstation : session[x] # NoSession => session[x].token \in Request
    BY Zenon, SessionFacts DEF IInv
  <1>5. SessionsKnown'
    BY <1>1, <1>2, <1>4 DEF IInv, SessionsKnown
  <1>6. ViewersKnown' /\ LeftIsClosing'
    BY <1>1, <1>2, <1>3 DEF IInv, ViewersKnown, LeftIsClosing
  <1>7. \A x \in Workstation : Running(x)' => /\ Running(x)
                                              /\ Granted(x)' => Granted(x)
                                              /\ Viewing(session[x].token)' => Viewing(session[x].token)
    BY <1>1, <1>2, <1>4 DEF Running, Granted, Viewing
  <1>8. GrantedIsSeated' /\ ViewedIsListed'
    BY Zenon, <1>2, <1>7 DEF IInv, GrantedIsSeated, ViewedIsListed, Seated
  <1>9. QED
    BY Zenon, <1>5, <1>6, <1>8 DEF Rest

\* A viewer that is let in while Remote Control is on holds a seat already.
LEMMA AllowStep ==
  ASSUME IInv, TypeOK', NEW r \in Request, consoleAllowed(r)
  PROVE  Rest'
  <1>1. /\ \A q \in Request : request'[q].client = request[q].client /\ request'[q].since = request[q].since
        /\ \A q \in Request \ {r} : request'[q] = request[q]
        /\ request'[r].stage = (IF enabled THEN "joining" ELSE "joined") /\ request[r].stage = "granted"
    BY GoesTo DEF consoleAllowed, IInv, Stage
  <1>2. UNCHANGED <<now, enabled, session, socket, seat, revoking, unseated>>
    BY Zenon DEF consoleAllowed, relay
  <1>3. \A s \in socket : s.side = "console" => s.token \in Request \ {r}
    BY <1>1 DEF IInv, ViewersKnown, TypeOK, Socket
  <1>4. \A x \in Workstation : session[x] # NoSession => session[x].token \in Request
    BY Zenon, SessionFacts DEF IInv
  <1>5. SessionsKnown'
    BY <1>1, <1>2, <1>4 DEF IInv, SessionsKnown
  <1>6. ViewersKnown' /\ LeftIsClosing'
    BY <1>1, <1>2, <1>3 DEF IInv, ViewersKnown, LeftIsClosing
  <1>7. \A x \in Workstation : Running(x)' /\ Granted(x)' => Running(x) /\ Granted(x)
    BY <1>1, <1>2, <1>4 DEF Running, Granted, Viewing
  <1>8. GrantedIsSeated'
    BY Zenon, <1>2, <1>7 DEF IInv, GrantedIsSeated, Seated
  <1>9. ~ enabled => \A q \in Request : Viewing(q)' => Viewing(q)
    BY Zenon, <1>1, <1>2 DEF Viewing
  <1>10. ViewedIsListed'
    BY Zenon, <1>2, <1>4, <1>9 DEF IInv, ViewedIsListed, Running
  <1>11. QED
    BY Zenon, <1>5, <1>6, <1>8, <1>10 DEF Rest

\* Joining turns a viewer about to join into one that is there, or refuses it.
LEMMA JoinStep ==
  ASSUME IInv, TypeOK', NEW r \in Request, joinConsole(r)
  PROVE  Rest'
  <1> PICK w \in Workstation : w = request[r].client
    BY Zenon DEF IInv, TypeOK
  <1>1. /\ \A q \in Request : request'[q].client = request[q].client /\ request'[q].since = request[q].since
        /\ \A q \in Request \ {r} : request'[q] = request[q]
        /\ request'[r].stage = "joined" /\ request[r].stage = "joining"
    BY GoesTo DEF joinConsole, IInv, Stage
  <1>2. UNCHANGED <<now, enabled, session, seat, revoking, unseated>>
    BY Zenon DEF joinConsole
  <1>3. \A s \in socket' : s \in socket \/ s = [client |-> w, side |-> "console", token |-> r]
    BY Zenon DEF joinConsole, accept
  <1>4. \A x \in Workstation : session[x] # NoSession => session[x].token \in Request
    BY Zenon, SessionFacts DEF IInv
  <1>5. SessionsKnown' /\ LeftIsClosing'
    BY <1>1, <1>2, <1>4 DEF IInv, SessionsKnown, LeftIsClosing
  <1>6. ViewersKnown'
    <2> SUFFICES ASSUME NEW s \in socket', s.side = "console"
                 PROVE  request'[s.token].stage = "joined" /\ request'[s.token].client = s.client
      BY Zenon DEF ViewersKnown
    <2>1. CASE s \in socket
      BY <1>1, <2>1 DEF IInv, ViewersKnown, TypeOK, Socket
    <2>2. CASE s = [client |-> w, side |-> "console", token |-> r]
      BY Zenon, <1>1, <2>2
    <2>3. QED
      BY Zenon, <1>3, <2>1, <2>2
  <1>7. \A q \in Request : Viewing(q)' => Viewing(q)
    BY <1>1, <1>3 DEF Viewing
  <1>8. \A x \in Workstation : Running(x)' /\ Granted(x)' => Running(x) /\ Granted(x)
    BY Zenon, <1>1, <1>2, <1>4, <1>7 DEF Running, Granted
  <1>9. GrantedIsSeated'
    BY Zenon, <1>2, <1>8 DEF IInv, GrantedIsSeated, Seated
  <1>10. ViewedIsListed'
    BY Zenon, <1>2, <1>4, <1>7 DEF IInv, ViewedIsListed, Running
  <1>11. QED
    BY Zenon, <1>5, <1>6, <1>9, <1>10 DEF Rest

\* Sweeping the seats whose time is over takes none from a session that runs.
LEMMA SweptSeats ==
  ASSUME IInv, NEW x \in Workstation, Running(x), Seated(x)
  PROVE  Swept[x] = seat[x] /\ Held(x)
  <1>1. seat[x] # None /\ seat[x] \in Nat /\ session[x].ends_at \in Nat /\ now \in Nat
        /\ seat[x] >= session[x].ends_at /\ now < session[x].ends_at
    BY SessionFacts, TimeAssumption DEF IInv, TypeOK, Running, Seated, Time, None
  <1>2. QED
    BY <1>1 DEF Swept, Held

\* The request of /remote-open leaves the others alone, and has no viewer.
LEMMA HubAnswers ==
  ASSUME IInv, TypeOK', NEW r \in Request, NEW st \in {"full", "over", "granted"},
         Goes(r, st), request[r].stage = "opened",
         UNCHANGED <<now, enabled, session, socket, revoking>>
  PROVE  /\ SessionsKnown' /\ ViewersKnown' /\ LeftIsClosing'
         /\ \A q \in Request : Viewing(q)' <=> Viewing(q)
         /\ \A x \in Workstation : /\ Running(x)' <=> Running(x)
                                   /\ Running(x) => session[x].token \in Request
                                   /\ Running(x) /\ Granted(x)' /\ (session[x].token = r => st # "granted") => Granted(x)
                                   /\ Running(x) /\ session[x].token = r => ~ Viewing(session[x].token)
  <1>1. /\ \A q \in Request : request'[q].client = request[q].client /\ request'[q].since = request[q].since
        /\ \A q \in Request \ {r} : request'[q] = request[q]
        /\ request'[r].stage = st
    BY GoesTo DEF IInv, Stage
  <1>2. \A s \in socket : s.side = "console" => s.token \in Request \ {r}
    BY Zenon DEF IInv, ViewersKnown, TypeOK, Socket
  <1>3. \A x \in Workstation : session[x] # NoSession => session[x].token \in Request
    BY Zenon, SessionFacts DEF IInv
  <1>4. SessionsKnown'
    BY <1>1, <1>3 DEF IInv, SessionsKnown
  <1>5. ViewersKnown' /\ LeftIsClosing'
    BY <1>1, <1>2 DEF IInv, ViewersKnown, LeftIsClosing
  <1>6. \A q \in Request : Viewing(q)' <=> Viewing(q)
    BY Zenon, <1>1 DEF Viewing
  <1>7. ~ Viewing(r)
    BY Zenon, <1>2 DEF Viewing
  <1>8. QED
    BY Zenon, <1>1, <1>3, <1>4, <1>5, <1>6, <1>7 DEF Running, Granted

LEMMA SeatStep ==
  ASSUME IInv, TypeOK', NEW r \in Request, NEW connected \in BOOLEAN, NEW at \in Time,
         remote_open(r, connected, at)
  PROVE  Rest'
  <1> PICK w \in Workstation : w = request[r].client
    BY Zenon DEF IInv, TypeOK
  <1>1. /\ request[r].stage = "opened" /\ at \in request[r].since .. now
        /\ UNCHANGED <<now, enabled, session, socket, revoking>>
    BY Zenon DEF remote_open, relay
  <1>2. CASE /\ Goes(r, "full") \/ Goes(r, "over")
             /\ seat' = Swept /\ unseated' = unseated
    <2>1. PICK st \in {"full", "over"} : Goes(r, st)
      BY Zenon, <1>2
    <2>2. /\ SessionsKnown' /\ ViewersKnown' /\ LeftIsClosing'
          /\ \A q \in Request : Viewing(q)' <=> Viewing(q)
          /\ \A x \in Workstation : /\ Running(x)' <=> Running(x)
                                    /\ Running(x) => session[x].token \in Request
                                    /\ Running(x) /\ Granted(x)' => Granted(x)
      BY Zenon, <1>1, <2>1, HubAnswers
    <2>3. GrantedIsSeated'
      BY Zenon, <1>1, <1>2, <2>2, SweptSeats DEF IInv, GrantedIsSeated, Seated
    <2>4. ViewedIsListed'
      BY Zenon, <1>1, <1>2, <2>2 DEF IInv, ViewedIsListed
    <2>5. QED
      BY Zenon, <2>2, <2>3, <2>4 DEF Rest
  <1>3. CASE Goes(r, "granted") /\ holdRemoteSeat(r, at + Limit)
    <2>1. /\ SessionsKnown' /\ ViewersKnown' /\ LeftIsClosing'
          /\ \A q \in Request : Viewing(q)' <=> Viewing(q)
          /\ \A x \in Workstation : /\ Running(x)' <=> Running(x)
                                    /\ Running(x) => session[x].token \in Request
                                    /\ Running(x) /\ Granted(x)' /\ session[x].token # r => Granted(x)
                                    /\ Running(x) /\ session[x].token = r => ~ Viewing(session[x].token)
      BY Zenon, <1>1, <1>3, HubAnswers
    <2>2. /\ seat'[w] = at + Limit /\ \A x \in Workstation \ {w} : seat'[x] = Swept[x]
          /\ unseated' = IF session[w].token \in {r, NoRequest} THEN unseated \ {w}
                         ELSE unseated \cup {c \in {w} : at + Limit < session[c].ends_at}
      BY Zenon, <1>3, SweptKeeps DEF holdRemoteSeat, IInv
    <2>3. at + Limit \in Nat /\ at + Limit # None
      BY TimeAssumption DEF Time, None
    <2>4. ASSUME NEW x \in Workstation, Running(x), Granted(x)', x \notin unseated', x \notin revoking.left
          PROVE  Seated(x)'
      <3>0. session[x].ends_at \in Nat /\ session[x].token \in Request
        BY <2>4, SessionFacts, TimeAssumption DEF IInv, Running, Time
      <3>1. CASE x # w
        <4>1. session[x].token # r
          BY Zenon, <2>4, <3>1 DEF IInv, SessionsKnown, Running
        <4>2. Seated(x)
          BY Zenon, <2>1, <2>2, <2>4, <3>1, <4>1 DEF IInv, GrantedIsSeated
        <4>3. QED
          BY Zenon, <1>1, <2>2, <2>4, <3>1, <4>2, SweptSeats DEF Seated
      <3>2. CASE x = w /\ session[x].token = r
        <4>1. session[w].ends_at = request[r].since + Limit
          BY <2>4, <3>2 DEF IInv, SessionsKnown, Running
        <4>2. at >= request[r].since
          BY <1>1 DEF IInv, TypeOK, Time
        <4>3. at + Limit >= session[w].ends_at
          BY <4>1, <4>2, TimeAssumption DEF IInv, TypeOK, Time
        <4>4. QED
          BY Zenon, <1>1, <2>2, <2>3, <3>2, <4>3 DEF Seated
      <3>3. CASE x = w /\ session[x].token # r
        <4>1. ~ (at + Limit < session[x].ends_at)
          BY Zenon, <2>2, <2>4, <3>0, <3>3, RequestAssumption
        <4>2. QED
          BY <1>1, <2>2, <2>3, <3>0, <3>3, <4>1 DEF Seated
      <3>4. QED
        BY Zenon, <3>1, <3>2, <3>3
    <2>5. GrantedIsSeated'
      BY Zenon, <1>1, <2>1, <2>4 DEF GrantedIsSeated
    <2>6. ViewedIsListed'
      <3> SUFFICES ASSUME ~ enabled, revoking.stage \in {"closing", "done"},
                          NEW x \in Workstation, Running(x), Viewing(session[x].token)
                   PROVE  x \in unseated' \cup revoking.left
        BY Zenon, <1>1, <2>1 DEF ViewedIsListed
      <3>1. x \in unseated \cup revoking.left
        BY Zenon DEF IInv, ViewedIsListed
      <3>2. session[x].token \in Request \ {r}
        BY Zenon, <2>1
      <3>3. QED
        BY Zenon, <2>2, <3>1, <3>2, RequestAssumption
    <2>7. QED
      BY Zenon, <2>1, <2>5, <2>6 DEF Rest
  <1>4. QED
    BY Zenon, <1>2, <1>3 DEF remote_open

\* The seats that are freed are those of the sessions that must be closed.
LEMMA RevokeStep ==
  ASSUME IInv, TypeOK', remote_revoke
  PROVE  Rest'
  <1>1. /\ revoking.stage = "off" /\ revoking.left = {}
        /\ revoking' = [stage |-> "closing", left |-> {w \in Workstation : seat[w] # None}]
        /\ UNCHANGED <<now, enabled, request, session, socket, unseated>>
    BY Zenon DEF remote_revoke, relay, IInv, LeftIsClosing
  <1>2. SessionsKnown' /\ ViewersKnown' /\ LeftIsClosing'
    BY Zenon, <1>1 DEF IInv, SessionsKnown, ViewersKnown, LeftIsClosing
  <1>3. \A x \in Workstation : Running(x) /\ Granted(x) => x \in unseated \cup revoking'.left
    BY Zenon, <1>1 DEF IInv, GrantedIsSeated, Seated
  <1>4. \A x \in Workstation : Running(x)' /\ Granted(x)' => x \in unseated' \cup revoking'.left
    BY Zenon, <1>1, <1>3 DEF Running, Granted, Viewing
  <1>5. GrantedIsSeated' /\ ViewedIsListed'
    BY Zenon, <1>4 DEF GrantedIsSeated, ViewedIsListed, Granted
  <1>6. QED
    BY Zenon, <1>2, <1>5 DEF Rest

LEMMA SwitchStep ==
  ASSUME IInv, TypeOK', Disable \/ RevokeFails \/ Disabled \/ Enable
  PROVE  Rest'
  <1>1. UNCHANGED <<now, request, session, socket, seat, unseated>> /\ revoking'.left = revoking.left
    BY DEF Disable, RevokeFails, Disabled, Enable, relay, IInv, LeftIsClosing
  <1>2. SessionsKnown' /\ ViewersKnown' /\ GrantedIsSeated'
    BY <1>1 DEF IInv, SessionsKnown, ViewersKnown, GrantedIsSeated, Running, Granted, Viewing, Seated
  <1>3. LeftIsClosing'
    BY DEF Disable, RevokeFails, Disabled, Enable, IInv, LeftIsClosing
  <1>4. ~ enabled' /\ revoking'.stage \in {"closing", "done"} => ~ enabled /\ revoking.stage \in {"closing", "done"}
    BY DEF Disable, RevokeFails, Disabled, Enable
  <1>5. ViewedIsListed'
    BY Zenon, <1>1, <1>4 DEF IInv, ViewedIsListed, Running, Viewing
  <1>6. QED
    BY Zenon, <1>2, <1>3, <1>5 DEF Rest

LEMMA ClockStep ==
  ASSUME IInv, TypeOK', Tick
  PROVE  Rest'
  <1>1. UNCHANGED <<enabled, request, session, socket, seat, revoking, unseated>> /\ now' = now + 1 /\ now \in Nat
    BY DEF Tick, relay, IInv, TypeOK
  <1>2. SessionsKnown' /\ ViewersKnown' /\ LeftIsClosing'
    BY Zenon, <1>1 DEF IInv, SessionsKnown, ViewersKnown, LeftIsClosing
  <1>3. \A x \in Workstation : Running(x)' => Running(x)
    BY <1>1, SessionFacts, TimeAssumption DEF Running, IInv, Time
  <1>4. GrantedIsSeated' /\ ViewedIsListed'
    BY Zenon, <1>1, <1>3 DEF IInv, GrantedIsSeated, ViewedIsListed, Granted, Viewing, Seated
  <1>5. QED
    BY Zenon, <1>2, <1>4 DEF Rest

LEMMA Starts == Init => IInv
  <1> SUFFICES ASSUME Init PROVE IInv
    BY Zenon
  <1>1. TypeOK
    <2>1. 0 \in Time /\ 1 \in 1..Seats
      BY TimeAssumption, SeatsAssumption DEF Time
    <2>2. request \in [Request -> RequestRow]
      BY <2>1 DEF Init, RequestRow, Stage
    <2>3. now \in 0..MaxTime
      BY Zenon, <2>1 DEF Init, Time
    <2>4. enabled \in BOOLEAN
      BY Zenon DEF Init
    <2>5. QED
      BY Zenon, <2>2, <2>3, <2>4 DEF Init, TypeOK, RequestRow, Session
  <1>2. SessionsKnown /\ ViewersKnown /\ GrantedIsSeated /\ LeftIsClosing /\ ViewedIsListed
    BY Zenon DEF Init, SessionsKnown, ViewersKnown, GrantedIsSeated, LeftIsClosing, ViewedIsListed, Running
  <1>3. QED
    BY Zenon, <1>1, <1>2 DEF IInv

LEMMA Steps == IInv /\ [Next]_vars => IInv'
  <1> SUFFICES ASSUME IInv, [Next]_vars PROVE IInv'
    BY Zenon
  <1>1. TypeOK'
    BY Zenon, TypeStep DEF IInv
  <1>2. Rest'
    <2>1. CASE UNCHANGED vars
      BY <2>1 DEF vars, IInv, Rest, SessionsKnown, ViewersKnown, GrantedIsSeated, LeftIsClosing,
         ViewedIsListed, Running, Granted, Viewing, Seated
    <2>2. CASE Next
      BY Zenon, <1>1, <2>2, SocketStep, AlarmStep, DeviceStep, CloseStep, NoticeStep, AskStep, OpenStep, CloseFullStep,
         FailStep, AllowStep, JoinStep, SeatStep, RevokeStep, SwitchStep, ClockStep DEF Next
    <2>3. QED
      BY Zenon, <2>1, <2>2
  <1>3. QED
    BY Zenon, <1>1, <1>2 DEF IInv, Rest

\* The relay, the seats and the requests keep their types.
THEOREM TypeCorrect == Spec => []TypeOK
  <1>1. IInv => TypeOK
    BY Zenon DEF IInv
  <1>2. QED
    BY <1>1, Starts, Steps, PTL DEF Spec

\* Turning Remote Control off, once it has finished, left nobody connected whom the
\* hub counted and whose relay could be closed, whatever was being opened, granted
\* or joined while it ran (closeAllRemoteSessions, releaseAllRemoteSeats).
THEOREM RevokedIsClosed == Spec => []RevokedStaysClosed
  <1>1. IInv => RevokedStaysClosed
    <2> SUFFICES ASSUME IInv, ~ enabled, revoking.stage = "done", NEW w \in Workstation \ unseated, Live(w)
                 PROVE  FALSE
      BY Zenon DEF RevokedStaysClosed
    <2>1. Running(w) /\ Viewing(session[w].token)
      BY Zenon DEF Live, Joined, current, Running, Viewing
    <2>2. QED
      BY Zenon, <2>1 DEF IInv, ViewedIsListed, LeftIsClosing
  <1>2. QED
    BY <1>1, Starts, Steps, PTL DEF Spec

-----------------------------------------------------------------------------
(* The relay's alarm.                                                       *)

\* The alarm of one workstation is in time.
InTime(w) ==
  session[w] # NoSession =>
    /\ alarm[w] # None
    /\ alarm[w] <= IF Joined(w) THEN session[w].ends_at ELSE session[w].join_by

\* A relay that nothing happens to keeps its alarm.
LEMMA StaysInTime ==
  ASSUME NEW w \in Workstation, InTime(w), session'[w] \in {session[w], NoSession},
         session'[w] # NoSession => alarm'[w] = alarm[w] /\ (Joined(w)' <=> Joined(w))
  PROVE  InTime(w)'
  BY Zenon DEF InTime

LEMMA JoinedByAccept ==
  ASSUME TypeOK, AlarmCovers, NEW w \in Workstation, NEW side \in Side, NEW r \in Request,
         ~ joinRefusal(w, side, r), accept(w, side, r), session' = session
  PROVE  AlarmCovers'
  <1>1. session[w].token = r /\ session[w] # NoSession /\ current(w, side, r) = {}
    BY RequestAssumption DEF joinRefusal, NoSession
  <1> PICK other \in Side : Side = {side, other} /\ other # side
    BY Zenon DEF Side
  <1>2. /\ socket' = socket \cup {[client |-> w, side |-> side, token |-> r]}
        /\ alarm' = IF current(w, other, r) # {} THEN [alarm EXCEPT ![w] = session[w].ends_at] ELSE alarm
    BY Zenon DEF accept
  <1>3. ASSUME NEW x \in Workstation \ {w} PROVE InTime(x)'
    <2>1. \A s \in socket' : s.client = x => s \in socket
      BY <1>2
    <2>2. Joined(x)' <=> Joined(x)
      BY Zenon, <1>2, <2>1 DEF Joined, current
    <2>3. alarm'[x] = alarm[x]
      BY Zenon, <1>2 DEF TypeOK
    <2>4. InTime(x)
      BY Zenon DEF AlarmCovers, InTime
    <2>5. QED
      BY Zenon, <2>2, <2>3, <2>4, StaysInTime
  <1>4. InTime(w)'
    <2>1. ~ Joined(w)
      BY Zenon, <1>1 DEF Joined, Side
    <2>2. alarm[w] # None /\ alarm[w] <= session[w].join_by
      BY Zenon, <1>1, <2>1 DEF AlarmCovers
    <2>3. CASE current(w, other, r) # {}
      <3>1. Joined(w)'
        <4>1. [client |-> w, side |-> side, token |-> r] \in current(w, side, r)'
          BY Zenon, <1>2 DEF current
        <4>2. current(w, other, r)' # {}
          BY Zenon, <1>2, <2>3 DEF current
        <4>3. \A x \in Side : current(w, x, r)' # {}
          BY Zenon, <4>1, <4>2
        <4>4. session'[w] # NoSession /\ session'[w].token = r
          BY Zenon, <1>1
        <4>5. QED
          BY Zenon, <4>3, <4>4 DEF Joined, Side
      <3>2. alarm'[w] = session[w].ends_at /\ session[w].ends_at \in Nat
        BY <1>1, <1>2, <2>3, SessionFacts, TimeAssumption DEF TypeOK, Time
      <3>3. QED
        BY <3>1, <3>2 DEF InTime, None
    <2>4. CASE current(w, other, r) = {}
      <3>1. ~ Joined(w)'
        BY <1>1, <1>2, <2>4 DEF Joined, current, Side
      <3>2. QED
        BY Zenon, <1>2, <2>2, <2>4, <3>1 DEF InTime
    <2>5. QED
      BY Zenon, <2>3, <2>4
  <1>5. QED
    BY Zenon, <1>3, <1>4 DEF AlarmCovers, InTime

LEMMA AlarmKept == TypeOK /\ AlarmCovers /\ [Next]_vars => AlarmCovers'
  <1> SUFFICES ASSUME TypeOK, AlarmCovers, [Next]_vars PROVE AlarmCovers'
    BY Zenon
  <1>i. \A w \in Workstation : InTime(w)
    BY Zenon DEF AlarmCovers, InTime
  <1>1. CASE UNCHANGED relay
    BY <1>1 DEF relay, AlarmCovers, Joined, current
  <1>2. ASSUME NEW s \in socket, departed(s) PROVE AlarmCovers'
    <2>1. s.client \in Workstation /\ alarm' = alarm /\ socket' = socket \ {s}
      BY Zenon, <1>2 DEF TypeOK, Socket, departed
    <2>2. ASSUME NEW w \in Workstation PROVE InTime(w)'
      <3>1. session'[w] \in {session[w], NoSession}
        BY Zenon, <1>2, <2>1, EndedIs DEF departed
      <3>2. ASSUME session'[w] # NoSession PROVE Joined(w)' <=> Joined(w)
        <4>1. session'[w] = session[w] /\ ~ (s.client = w /\ s.token = session[w].token)
          BY Zenon, <1>2, <2>1, <3>1, <3>2, EndedKeeps DEF departed
        <4>2. QED
          BY <2>1, <4>1 DEF Joined, current
      <3>3. QED
        BY Zenon, <1>i, <2>1, <3>1, <3>2, StaysInTime
    <2>3. QED
      BY Zenon, <2>2 DEF AlarmCovers, InTime
  <1>3. ASSUME NEW w \in Workstation, ended(w), UNCHANGED <<socket, alarm>> PROVE AlarmCovers'
    <2>1. ASSUME NEW x \in Workstation PROVE InTime(x)'
      <3>1. session'[x] \in {session[x], NoSession}
        BY Zenon, <1>3, EndedIs
      <3>2. session'[x] # NoSession => (Joined(x)' <=> Joined(x))
        BY <1>3, <3>1 DEF Joined, current
      <3>3. QED
        BY Zenon, <1>i, <1>3, <3>1, <3>2, StaysInTime
    <2>2. QED
      BY Zenon, <2>1 DEF AlarmCovers, InTime
  <1>4. ASSUME NEW w \in Workstation, relayAlarm(w) PROVE AlarmCovers'
    <2>1. ASSUME NEW x \in Workstation \ {w} PROVE InTime(x)'
      <3>1. session'[x] = session[x] /\ alarm'[x] = alarm[x] /\ socket' = socket
        BY <1>4, EndedKeeps DEF relayAlarm, TypeOK
      <3>2. Joined(x)' <=> Joined(x)
        BY <3>1 DEF Joined, current
      <3>3. QED
        BY Zenon, <1>i, <3>1, <3>2, StaysInTime
    <2>2. InTime(w)'
      <3>1. CASE session'[w] = NoSession
        BY Zenon, <3>1 DEF InTime
      <3>2. CASE session'[w] # NoSession
        <4>1. /\ session' = session /\ socket' = socket /\ session[w] # NoSession
              /\ alarm' = [alarm EXCEPT ![w] = IF Joined(w) THEN session[w].ends_at ELSE session[w].join_by]
          BY Zenon, <1>4, <3>2, EndedKeeps DEF relayAlarm
        <4>2. Joined(w)' <=> Joined(w)
          BY Zenon, <4>1 DEF Joined, current
        <4>3. session[w].ends_at \in Nat /\ session[w].join_by \in Nat
          BY <4>1, SessionFacts, TimeAssumption DEF Time
        <4>4. alarm'[w] = IF Joined(w) THEN session[w].ends_at ELSE session[w].join_by
          BY Zenon, <4>1 DEF TypeOK
        <4>5. QED
          BY <4>1, <4>2, <4>3, <4>4 DEF InTime, None
      <3>3. QED
        BY Zenon, <3>1, <3>2
    <2>3. QED
      BY Zenon, <2>1, <2>2 DEF AlarmCovers, InTime
  <1>5. ASSUME NEW r \in Request, openRelaySession(r) PROVE AlarmCovers'
    <2> PICK w \in Workstation : w = request[r].client
      BY Zenon DEF TypeOK
    <2>1. /\ session' = [session EXCEPT ![w] = [token |-> r, join_by |-> now + Join, ends_at |-> now + Limit]]
          /\ alarm' = [alarm EXCEPT ![w] = now + Join] /\ socket' = socket
      BY Zenon, <1>5 DEF openRelaySession, open
    <2>2. ASSUME NEW x \in Workstation \ {w} PROVE InTime(x)'
      <3>1. session'[x] = session[x] /\ alarm'[x] = alarm[x]
        BY Zenon, <2>1 DEF TypeOK
      <3>2. Joined(x)' <=> Joined(x)
        BY <2>1, <3>1 DEF Joined, current
      <3>3. QED
        BY Zenon, <1>i, <3>1, <3>2, StaysInTime
    <2>3. InTime(w)'
      <3>1. session'[w].join_by = now + Join /\ session'[w].ends_at = now + Limit /\ alarm'[w] = now + Join
        BY Zenon, <2>1 DEF TypeOK
      <3>2. now \in Nat /\ Join \in Nat /\ Limit \in Nat /\ Join < Limit
        BY TimeAssumption DEF TypeOK
      <3>3. QED
        BY <3>1, <3>2 DEF InTime, None
    <2>4. QED
      BY Zenon, <2>2, <2>3 DEF AlarmCovers, InTime
  <1>6. ASSUME NEW r \in Request, joinConsole(r) PROVE AlarmCovers'
    <2>1. request[r].client \in Workstation /\ session' = session
      BY Zenon, <1>6 DEF TypeOK, joinConsole
    <2>2. QED
      BY Zenon, <1>1, <1>6, <2>1, JoinedByAccept DEF joinConsole, relay, Side
  <1>7. ASSUME NEW r \in Request, joinDevice(r) PROVE AlarmCovers'
    <2>1. request[r].client \in Workstation /\ session' = session
      BY Zenon, <1>7 DEF TypeOK, joinDevice
    <2>2. QED
      BY Zenon, <1>7, <2>1, JoinedByAccept DEF joinDevice, Side
  <1>8. ASSUME NEW r \in Request, closeRelaySession(r) PROVE AlarmCovers'
    <2>1. request[r].client \in Workstation
      BY Zenon DEF TypeOK
    <2>2. QED
      BY Zenon, <1>3, <1>8, <2>1 DEF closeRelaySession, relayClose
  <1>9. ASSUME NEW s \in socket, webSocketMessage(s) PROVE AlarmCovers'
    <2>1. s.client \in Workstation
      BY Zenon DEF TypeOK, Socket
    <2>2. QED
      BY Zenon, <1>3, <1>9, <2>1 DEF webSocketMessage
  <1>10. ASSUME NEW w \in Workstation, NEW refused \in BOOLEAN, closeRevoked(w, refused) PROVE AlarmCovers'
    BY Zenon, <1>1, <1>3, <1>10 DEF closeRevoked, relayClose
  <1>11. ASSUME NEW w \in Workstation, NEW r \in Request, NEW lost \in BOOLEAN, NEW seats \in 1..Seats,
                remote_ended(w, lost) \/ Ask(r, w, seats)
         PROVE  UNCHANGED relay
    BY Zenon, <1>11 DEF remote_ended, Ask
  <1>12. ASSUME NEW r \in Request,
                \/ consoleAllowed(r) \/ RequestFails(r)
                \/ \E connected \in BOOLEAN, at \in Time : remote_open(r, connected, at)
         PROVE  UNCHANGED relay
    BY Zenon, <1>12 DEF consoleAllowed, RequestFails, remote_open
  <1>13. Disable \/ remote_revoke \/ RevokeFails \/ Disabled \/ Enable \/ Tick => UNCHANGED relay
    BY Zenon DEF Disable, remote_revoke, RevokeFails, Disabled, Enable, Tick
  <1>14. UNCHANGED vars => UNCHANGED relay
    BY Zenon DEF vars, relay
  <1>15. ASSUME NEW w \in Workstation, NEW lost \in BOOLEAN, remote_ended(w, lost) PROVE UNCHANGED relay
    BY Zenon, <1>15 DEF remote_ended
  <1>16. QED
    BY Zenon, <1>1, <1>2, <1>4, <1>5, <1>6, <1>7, <1>8, <1>9, <1>10, <1>11, <1>12, <1>13, <1>14, <1>15
       DEF Next

\* A session never outlives its time: the alarm of its relay is due no later than
\* its end, or the end of the time to join while a side is missing.
THEOREM SessionsHaveAlarms == Spec => []AlarmCovers
  <1>1. Init => AlarmCovers
    BY DEF Init, AlarmCovers
  <1>2. QED
    BY <1>1, AlarmKept, TypeCorrect, PTL DEF Spec

-----------------------------------------------------------------------------
(* The number of seats.                                                     *)

INSTANCE FiniteSetTheorems

SeatsHeld == Cardinality({w \in Workstation : Held(w)}) <= Seats

\* Fewer workstations hold a seat: there are still enough.
LEMMA FewerHeld ==
  ASSUME SeatsHeld, \A w \in Workstation : Held(w)' => Held(w)
  PROVE  SeatsHeld'
  <1> DEFINE H == {w \in Workstation : Held(w)}  K == {w \in Workstation : Held(w)'}
  <1>1. K \in SUBSET H /\ H \in SUBSET Workstation
    BY Zenon
  <1>2. IsFiniteSet(H)
    BY <1>1, WorkstationAssumption, FS_Subset
  <1> HIDE DEF H, K
  <1>3. Cardinality(K) <= Cardinality(H) /\ Cardinality(H) \in Nat /\ Cardinality(K) \in Nat
    <2>1. IsFiniteSet(K) /\ Cardinality(K) <= Cardinality(H)
      BY <1>1, <1>2, FS_Subset
    <2>2. QED
      BY <1>2, <2>1, FS_CardinalityType
  <1>4. QED
    BY <1>3, SeatsAssumption DEF SeatsHeld, H, K

\* A seat is granted only when one is free.
LEMMA OneMoreHeld ==
  ASSUME TypeOK, NEW w \in Workstation, NEW seats \in 1..Seats, SeatFree(w, seats),
         NEW end, seat' = [Swept EXCEPT ![w] = end], now' = now
  PROVE  SeatsHeld'
  <1> DEFINE H == Holders(w)  K == {x \in Workstation : Held(x)'}
  <1>1. K \subseteq H \cup {w}
    <2>1. ASSUME NEW x \in Workstation \ {w}, Held(x)' PROVE Held(x)
      BY <2>1 DEF Held, Swept, None
    <2>2. QED
      BY <2>1 DEF Holders
  <1>2. IsFiniteSet(H) /\ w \notin H
    <2>1. H \in SUBSET Workstation
      BY Zenon DEF Holders
    <2>2. QED
      BY <2>1, WorkstationAssumption, FS_Subset DEF Holders
  <1> HIDE DEF H, K
  <1>3. IsFiniteSet(H \cup {w}) /\ Cardinality(H \cup {w}) = Cardinality(H) + 1
    BY Zenon, <1>2, FS_AddElement
  <1>4. Cardinality(K) <= Cardinality(H) + 1 /\ Cardinality(K) \in Nat /\ Cardinality(H) \in Nat
    <2>1. K \in SUBSET (H \cup {w})
      BY Zenon, <1>1
    <2>2. IsFiniteSet(K) /\ Cardinality(K) <= Cardinality(H \cup {w})
      BY <1>3, <2>1, FS_Subset
    <2>3. QED
      BY Zenon, <1>2, <1>3, <2>2, FS_CardinalityType
  <1>5. Cardinality(H) < seats /\ seats \in Nat /\ seats <= Seats
    BY SeatsAssumption DEF SeatFree, H
  <1>6. Cardinality(K) <= Seats
    BY <1>4, <1>5, SeatsAssumption
  <1>7. QED
    BY <1>6 DEF SeatsHeld, K

LEMMA SeatsKept == TypeOK /\ SeatsHeld /\ [Next]_vars => SeatsHeld'
  <1> SUFFICES ASSUME TypeOK, SeatsHeld, [Next]_vars PROVE SeatsHeld'
    BY Zenon
  <1>1. CASE UNCHANGED <<now, seat>>
    BY <1>1, FewerHeld DEF Held
  <1>2. ASSUME NEW w \in Workstation, NEW lost \in BOOLEAN, remote_ended(w, lost) PROVE SeatsHeld'
    <2>1. \A x \in Workstation : Held(x)' => Held(x)
      BY <1>2 DEF remote_ended, Held, TypeOK
    <2>2. QED
      BY Zenon, <2>1, FewerHeld
  <1>3. CASE seat' = Swept /\ now' = now
    <2>1. \A x \in Workstation : Held(x)' => Held(x)
      BY Zenon, <1>3 DEF Held, Swept
    <2>2. QED
      BY Zenon, <2>1, FewerHeld
  <1>4. ASSUME NEW r \in Request, NEW connected \in BOOLEAN, NEW at \in Time, remote_open(r, connected, at)
        PROVE  SeatsHeld'
    <2>1. request[r].client \in Workstation /\ request[r].seats \in 1..Seats /\ now' = now
      BY Zenon, <1>4 DEF TypeOK, remote_open
    <2>2. \/ seat' = Swept
          \/ SeatFree(request[r].client, request[r].seats) /\ seat' = [Swept EXCEPT ![request[r].client] = at + Limit]
      BY Zenon, <1>4 DEF remote_open, holdRemoteSeat
    <2>3. QED
      BY <1>3, <2>1, <2>2, OneMoreHeld
  <1>5. CASE remote_revoke
    <2>1. \A x \in Workstation : ~ Held(x)'
      BY <1>5 DEF remote_revoke, Held
    <2>2. QED
      BY Zenon, <2>1, FewerHeld
  <1>6. CASE Tick
    <2>1. \A x \in Workstation : Held(x)' => Held(x)
      BY <1>6, TimeAssumption DEF Tick, Held, TypeOK, None
    <2>2. QED
      BY Zenon, <2>1, FewerHeld
  <1>7. ASSUME NEW s \in socket, departed(s) \/ webSocketMessage(s) PROVE UNCHANGED <<now, seat>>
    BY Zenon, <1>7 DEF departed, webSocketMessage
  <1>8. ASSUME NEW w \in Workstation, relayAlarm(w) \/ \E refused \in BOOLEAN : closeRevoked(w, refused)
        PROVE  UNCHANGED <<now, seat>>
    BY Zenon, <1>8 DEF relayAlarm, closeRevoked
  <1>9. ASSUME NEW w \in Workstation, NEW r \in Request, NEW seats \in 1..Seats, Ask(r, w, seats)
        PROVE  UNCHANGED <<now, seat>>
    BY Zenon, <1>9 DEF Ask
  <1>10. ASSUME NEW r \in Request,
                \/ openRelaySession(r) \/ closeRelaySession(r) \/ RequestFails(r)
                \/ consoleAllowed(r) \/ joinConsole(r) \/ joinDevice(r)
         PROVE  UNCHANGED <<now, seat>>
    BY Zenon, <1>10 DEF openRelaySession, closeRelaySession, RequestFails, consoleAllowed, joinConsole,
       joinDevice
  <1>11. Disable \/ RevokeFails \/ Disabled \/ Enable => UNCHANGED <<now, seat>>
    BY Zenon DEF Disable, RevokeFails, Disabled, Enable
  <1>12. UNCHANGED vars => UNCHANGED <<now, seat>>
    BY Zenon DEF vars
  <1>13. QED
    BY <1>1, <1>2, <1>4, <1>5, <1>6, <1>7, <1>8, <1>9, <1>10, <1>11, <1>12 DEF Next

\* The hub's seats bound the sessions in use that it counts, for any number of
\* workstations, overlapping requests and seats, sessions replaced by later ones
\* included (remoteSeatHolders, holdRemoteSeat).
THEOREM OpenFitsSeats == Spec => []SeatedBound
  <1>1. Init => SeatsHeld
    <2> SUFFICES ASSUME Init PROVE SeatsHeld
      BY Zenon
    <2>1. {w \in Workstation : Held(w)} = {}
      BY Zenon DEF Init, Held
    <2>2. QED
      BY <2>1, FS_EmptySet, SeatsAssumption DEF SeatsHeld
  <1>2. IInv /\ SeatsHeld => SeatedBound
    <2> SUFFICES ASSUME IInv, SeatsHeld PROVE SeatedBound
      BY Zenon
    <2> DEFINE H == {w \in Workstation : Held(w)}
               L == {w \in Workstation : Live(w)} \ (unseated \cup revoking.left)
    <2>1. ASSUME NEW w \in L PROVE Held(w)
      <3>1. w \in Workstation /\ Running(w) /\ Granted(w)
        BY Zenon DEF Live, Joined, current, Running, Granted, Viewing
      <3>2. Seated(w)
        BY Zenon, <3>1 DEF IInv, GrantedIsSeated
      <3>3. QED
        BY Zenon, <3>1, <3>2, SweptSeats
    <2>2. L \in SUBSET H /\ H \in SUBSET Workstation
      BY Zenon, <2>1
    <2>3. IsFiniteSet(H)
      BY Zenon, <2>2, WorkstationAssumption, FS_Subset
    <2> HIDE DEF H, L
    <2>4. IsFiniteSet(L) /\ Cardinality(L) <= Cardinality(H)
      BY Zenon, <2>2, <2>3, FS_Subset
    <2>5. Cardinality(L) \in Nat /\ Cardinality(H) \in Nat
      BY Zenon, <2>3, <2>4, FS_CardinalityType
    <2>6. Cardinality(L) <= Seats
      BY <2>4, <2>5, SeatsAssumption DEF SeatsHeld, H
    <2>7. QED
      BY Zenon, <2>6 DEF SeatedBound, L
  <1>3. Spec => []SeatsHeld
    BY <1>1, SeatsKept, TypeCorrect, PTL DEF Spec
  <1>4. QED
    BY <1>2, <1>3, Starts, Steps, PTL DEF Spec

=============================================================================
