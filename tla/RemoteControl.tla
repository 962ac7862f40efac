---------------------------- MODULE RemoteControl -----------------------------
(***************************************************************************)
(* Remote Control sessions: the Worker's requests, the relay of each       *)
(* workstation (RemoteRelay), the seats its organization's hub counts      *)
(* (OrgHub), the agents and the viewers.  A request first opens the relay, *)
(* then asks the hub for a seat; a relay whose session ends sends the hub  *)
(* a notice that names only the workstation.  Each of these calls is a     *)
(* message between objects: it may be late, overtake another, fail or be   *)
(* lost, and requests of several operators interleave.                     *)
(*                                                                         *)
(* A request stands for its operator and for the token of its session.  A  *)
(* socket the relay closes stays in the list of its sockets until the      *)
(* close completes (departed), so that closing sockets changes no variable *)
(* here; a close is always followed by ended(), or the row is replaced.    *)
(***************************************************************************)
EXTENDS Integers, FiniteSets

CONSTANTS
  Workstation,
  Request,
  Seats,       \* the largest remote_control_seats the organization has had
  Join,        \* RELAY_JOIN_SECONDS, in ticks
  Limit,       \* RELAY_MAX_SECONDS, in ticks
  MaxTime,     \* bound: ticks of the clock
  NoRequest    \* no token

ASSUME SeatsAssumption == Seats \in Nat \ {0}
ASSUME TimeAssumption == Join \in Nat \ {0} /\ Limit \in Nat /\ Join < Limit /\ MaxTime \in Nat
ASSUME RequestAssumption == NoRequest \notin Request
ASSUME WorkstationAssumption == IsFiniteSet(Workstation)

VARIABLES
  now,       \* the clock
  enabled,   \* remote_control_status = "approved"
  request,   \* each request: how far it has come, for which workstation, the seats it
             \* read and when the relay answered it
  session,   \* relay: the session row of each workstation
  socket,    \* relay: its sockets, with their attachments
  alarm,     \* relay: when its alarm is due; None when there is none
  seat,      \* hub: remote_seats, the end of each seat; None when not held
  notice,    \* /remote-ended calls under way, for each workstation
  revoking,  \* how far turning Remote Control off has come, and the relays left to close
  unseated   \* history: workstations whose open session the hub no longer counts: a late
             \* call about another session took its seat, or its relay was not closed
             \* when turning Remote Control off freed it

vars == <<now, enabled, request, session, socket, alarm, seat, notice, revoking, unseated>>
relay == <<session, socket, alarm>>

None == -1
Time == 0..MaxTime
Side == {"console", "device"}
NoSession == [token |-> NoRequest, join_by |-> None, ends_at |-> None]
Session == [token : Request, join_by : Time, ends_at : Time] \cup {NoSession}
Socket == [client : Workstation, side : Side, token : Request]
Stage == {"idle", "allowed", "opened", "full", "granted", "joining", "joined", "over"}

TypeOK ==
  /\ now \in 0..MaxTime
  /\ enabled \in BOOLEAN
  /\ request \in [Request -> [stage : Stage, client : Workstation, seats : 1..Seats, since : Time]]
  /\ session \in [Workstation -> Session]
  /\ socket \subseteq Socket
  /\ alarm \in [Workstation -> Time \cup {None}]
  /\ seat \in [Workstation -> 0 .. MaxTime + Limit \cup {None}]
  /\ notice \in [Workstation -> Nat]
  /\ revoking \in [stage : {"never", "off", "closing", "done", "failed"}, left : SUBSET Workstation]
  /\ unseated \subseteq Workstation

Init ==
  /\ now = 0 /\ enabled = TRUE
  /\ \E w \in Workstation : request = [r \in Request |-> [stage |-> "idle", client |-> w, seats |-> 1, since |-> 0]]
  /\ session = [w \in Workstation |-> NoSession] /\ socket = {}
  /\ alarm = [w \in Workstation |-> None]
  /\ seat = [w \in Workstation |-> None]
  /\ notice = [w \in Workstation |-> 0]
  /\ revoking = [stage |-> "never", left |-> {}] /\ unseated = {}

-----------------------------------------------------------------------------
(* The relay of one workstation.                                            *)

current(w, side, r) ==
  {s \in socket : s.client = w /\ s.side = side /\ s.token = r}

Joined(w) ==
  /\ session[w] # NoSession
  /\ current(w, "console", session[w].token) # {}
  /\ current(w, "device", session[w].token) # {}

\* ended(): the session is forgotten and the hub is told, naming the workstation.
ended(w) ==
  /\ session' = [session EXCEPT ![w] = NoSession]
  /\ notice' = [notice EXCEPT ![w] = @ + 1]

\* Mutant: the alarm of the session before stays.
open_old_alarm(w, r) ==
  /\ session' = [session EXCEPT ![w] = [token |-> r, join_by |-> now + Join, ends_at |-> now + Limit]]
  /\ alarm' = alarm

\* open(): the sockets of any other session are closed and its row replaced.
open(w, r) ==
  /\ session' = [session EXCEPT ![w] = [token |-> r, join_by |-> now + Join, ends_at |-> now + Limit]]
  /\ alarm' = [alarm EXCEPT ![w] = now + Join]

joinRefusal(w, side, r) ==
  \/ session[w].token # r
  \/ now > session[w].join_by
  \/ current(w, side, r) # {}

\* Mutant: the time limit is counted again from its own end.
accept_limit_twice(w, side, r) ==
  LET s == [client |-> w, side |-> side, token |-> r]
      both == \A other \in Side \ {side} : current(w, other, r) # {}
  IN /\ socket' = socket \cup {s}
     /\ alarm' = IF both THEN [alarm EXCEPT ![w] = session[w].ends_at + Limit] ELSE alarm

\* accept(): with both sides there, the session has until its time limit.
accept(w, side, r) ==
  LET s == [client |-> w, side |-> side, token |-> r]
      both == \A other \in Side \ {side} : current(w, other, r) # {}
  IN /\ socket' = socket \cup {s}
     /\ alarm' = IF both THEN [alarm EXCEPT ![w] = session[w].ends_at] ELSE alarm

\* A side leaves, or the close of a socket completes: departed() ends the
\* session the socket belongs to and leaves any other alone.
departed(s) ==
  LET w == s.client
  IN /\ s \in socket
     /\ socket' = socket \ {s}
     /\ IF session[w].token = s.token THEN ended(w) ELSE UNCHANGED <<session, notice>>
     /\ UNCHANGED <<now, enabled, request, alarm, seat, revoking, unseated>>

\* webSocketMessage: data that cannot be passed on to the other side ends the
\* session; on a socket of another session it only closes that socket.
webSocketMessage(s) ==
  LET w == s.client
  IN /\ s \in socket
     /\ session[w].token = s.token /\ Joined(w)
     /\ ended(w)
     /\ UNCHANGED <<now, enabled, request, socket, alarm, seat, revoking, unseated>>

\* Mutant: a session that was joined is not ended by the alarm.
relayAlarm_joined(w) ==
  /\ alarm[w] # None /\ alarm[w] <= now
  /\ \/ /\ session[w] = NoSession
        /\ alarm' = [alarm EXCEPT ![w] = None]
        /\ UNCHANGED <<session, notice>>
     \/ /\ session[w] # NoSession
        /\ IF ~ Joined(w) /\ now >= session[w].join_by
           THEN ended(w) /\ alarm' = [alarm EXCEPT ![w] = None]
           ELSE /\ alarm' = [alarm EXCEPT ![w] = IF Joined(w) THEN session[w].ends_at ELSE session[w].join_by]
                /\ UNCHANGED <<session, notice>>
  /\ UNCHANGED <<now, enabled, request, socket, seat, revoking, unseated>>

\* alarm(): the time limit, nobody joining, or a look again later.
relayAlarm(w) ==
  /\ alarm[w] # None /\ alarm[w] <= now
  /\ \/ /\ session[w] = NoSession
        /\ alarm' = [alarm EXCEPT ![w] = None]
        /\ UNCHANGED <<session, notice>>
     \/ /\ session[w] # NoSession
        /\ IF \/ now >= session[w].ends_at
              \/ ~ Joined(w) /\ now >= session[w].join_by
           THEN ended(w) /\ alarm' = [alarm EXCEPT ![w] = None]
           ELSE /\ alarm' = [alarm EXCEPT ![w] = IF Joined(w) THEN session[w].ends_at ELSE session[w].join_by]
                /\ UNCHANGED <<session, notice>>
  /\ UNCHANGED <<now, enabled, request, socket, seat, revoking, unseated>>

-----------------------------------------------------------------------------
(* The hub's seats.                                                         *)

\* remoteSeatHolders deletes the seats whose time is over.
Held(w) == seat[w] # None /\ seat[w] > now

Holders(except) == {w \in Workstation \ {except} : Held(w)}

\* Mutant: a free seat is needed only when none is held.
SeatFree_late(w, seats) == Cardinality(Holders(w)) <= seats

SeatFree(w, seats) == Cardinality(Holders(w)) < seats

Swept == [w \in Workstation |-> IF Held(w) THEN seat[w] ELSE None]

\* The notice of a relay reaches the hub, or is lost.  It names the workstation,
\* which may have another session by now.
remote_ended(w, lost) ==
  /\ notice[w] > 0
  /\ notice' = [notice EXCEPT ![w] = @ - 1]
  /\ seat' = IF lost THEN seat ELSE [seat EXCEPT ![w] = None]
  /\ unseated' = unseated \cup {c \in {w} : ~ lost /\ session[c] # NoSession}
  /\ UNCHANGED <<now, enabled, request, relay, revoking>>

-----------------------------------------------------------------------------
(* POST /api/clients/remote-session and GET /api/console/remote.            *)

Goes(r, stage) == request' = [request EXCEPT ![r].stage = stage]

\* remoteControlRefusal: the organization has Remote Control now.  The seats are
\* those of its row then; the platform may have set another number since.
Ask(r, w, seats) ==
  /\ request[r].stage = "idle" /\ enabled
  /\ request' = [request EXCEPT ![r] = [stage |-> "allowed", client |-> w, seats |-> seats, since |-> 0]]
  /\ UNCHANGED <<now, enabled, relay, seat, notice, revoking, unseated>>

openRelaySession(r) ==
  /\ request[r].stage = "allowed"
  /\ now + Limit <= MaxTime
  /\ open(request[r].client, r)
  /\ request' = [request EXCEPT ![r].stage = "opened", ![r].since = now]
  /\ UNCHANGED <<now, enabled, socket, seat, notice, revoking, unseated>>

\* The seat is held for the request: a session it was not asked for is left with
\* what that seat says.
holdRemoteSeat(r, endsAt) ==
  LET w == request[r].client
  IN /\ seat' = [Swept EXCEPT ![w] = endsAt]
     /\ unseated' = IF session[w].token \in {r, NoRequest} THEN unseated \ {w}
                    ELSE unseated \cup {c \in {w} : endsAt < session[c].ends_at}

\* /remote-open: no seat (429), no connection to the workstation (409), or the
\* agent is told to join and the seat is held until the limit the Worker counted
\* at some time (at) between the relay's answer and now.
remote_open(r, connected, at) ==
  LET w == request[r].client
  IN /\ request[r].stage = "opened"
     /\ at \in request[r].since .. now
     /\ \/ /\ ~ SeatFree(w, request[r].seats)
           /\ Goes(r, "full")
           /\ seat' = Swept /\ UNCHANGED unseated
        \/ /\ SeatFree(w, request[r].seats) /\ ~ connected
           /\ Goes(r, "over")
           /\ seat' = Swept /\ UNCHANGED unseated
        \/ /\ SeatFree(w, request[r].seats) /\ connected
           /\ Goes(r, "granted")
           /\ holdRemoteSeat(r, at + Limit)
     /\ UNCHANGED <<now, enabled, relay, notice, revoking>>

\* The relay's /close: whatever session it has ends.
relayClose(w) == ended(w) /\ UNCHANGED <<socket, alarm>>

\* After a 429 the request closes the relay session of its workstation.
closeRelaySession(r) ==
  /\ request[r].stage = "full"
  /\ relayClose(request[r].client)
  /\ Goes(r, "over")
  /\ UNCHANGED <<now, enabled, seat, revoking, unseated>>

\* The relay refuses to open (502) or to close after a 429, the hub cannot be
\* reached (502), or an answer is lost: the request ends and nothing is undone.
RequestFails(r) ==
  /\ request[r].stage \in {"allowed", "opened", "full"}
  /\ Goes(r, "over")
  /\ UNCHANGED <<now, enabled, relay, seat, notice, revoking, unseated>>

\* The viewer asks to join: refused when Remote Control is off by now.
consoleAllowed(r) ==
  /\ request[r].stage = "granted"
  /\ Goes(r, IF enabled THEN "joining" ELSE "joined")
  /\ UNCHANGED <<now, enabled, relay, seat, notice, revoking, unseated>>

joinConsole(r) ==
  LET w == request[r].client
  IN /\ request[r].stage = "joining"
     /\ IF joinRefusal(w, "console", r) THEN UNCHANGED <<socket, alarm>> ELSE accept(w, "console", r)
     /\ Goes(r, "joined")
     /\ UNCHANGED <<now, enabled, session, seat, notice, revoking, unseated>>

\* The agent was told of the request's session.
Told(r) == request[r].stage \in {"granted", "joining", "joined"}

\* run_remote_session, one thread for each session the agent was told of: also
\* the thread of an earlier session, told to stop while it connects, may join
\* before it leaves again (departed).  A thread that was refused or has left
\* would be refused again, so that its one attempt need not be remembered.
joinDevice(r) ==
  LET w == request[r].client
  IN /\ Told(r) /\ ~ joinRefusal(w, "device", r)
     /\ accept(w, "device", r)
     /\ UNCHANGED <<now, enabled, request, session, seat, notice, revoking, unseated>>

-----------------------------------------------------------------------------
(* Turning Remote Control off and on.                                       *)

\* updateTenant, the first step of turning Remote Control off.  Bound: it is
\* turned off by one request at a time.
Disable ==
  /\ enabled /\ revoking.stage \in {"never", "done", "failed"}
  /\ enabled' = FALSE
  /\ revoking' = [stage |-> "off", left |-> {}]
  /\ UNCHANGED <<now, request, relay, seat, notice, unseated>>

\* Mutant: the workstations that held a seat are not listed.
remote_revoke_forgets ==
  /\ revoking.stage = "off"
  /\ revoking' = [stage |-> "closing", left |-> {}]
  /\ seat' = [w \in Workstation |-> None]
  /\ UNCHANGED <<now, enabled, request, relay, notice, unseated>>

\* /remote-revoke frees every seat and lists the workstations that held one.
remote_revoke ==
  /\ revoking.stage = "off"
  /\ revoking' = [stage |-> "closing", left |-> {w \in Workstation : seat[w] # None}]
  /\ seat' = [w \in Workstation |-> None]
  /\ UNCHANGED <<now, enabled, request, relay, notice, unseated>>

\* The hub does not answer: Remote Control is off, the seats and sessions stay.
RevokeFails ==
  /\ revoking.stage = "off"
  /\ revoking' = [stage |-> "failed", left |-> {}]
  /\ UNCHANGED <<now, enabled, request, relay, seat, notice, unseated>>

\* closeAllRemoteSessions closes their relays, in any order; a relay that refuses
\* or cannot be reached is left as it is and not tried again.
closeRevoked(w, refused) ==
  /\ revoking.stage = "closing" /\ w \in revoking.left
  /\ revoking' = [stage |-> "closing", left |-> revoking.left \ {w}]
  /\ \/ ~ refused /\ relayClose(w) /\ UNCHANGED unseated
     \/ /\ refused /\ UNCHANGED <<relay, notice>>
        /\ unseated' = unseated \cup {c \in {w} : session[c] # NoSession}
  /\ UNCHANGED <<now, enabled, request, seat>>

Disabled ==
  /\ revoking.stage = "closing" /\ revoking.left = {}
  /\ revoking' = [stage |-> "done", left |-> {}]
  /\ UNCHANGED <<now, enabled, request, relay, seat, notice, unseated>>

\* "restore", or a request for Remote Control that was approved, also while the
\* sessions are still being closed.
Enable ==
  /\ ~ enabled
  /\ enabled' = TRUE
  /\ UNCHANGED <<now, request, relay, seat, notice, revoking, unseated>>

Tick ==
  /\ now < MaxTime
  /\ now' = now + 1
  /\ UNCHANGED <<enabled, request, relay, seat, notice, revoking, unseated>>

Next ==
  \/ \E s \in socket : departed(s) \/ webSocketMessage(s)
  \/ \E w \in Workstation :
       \/ relayAlarm(w)
       \/ \E refused \in BOOLEAN : closeRevoked(w, refused)
       \/ \E lost \in BOOLEAN : remote_ended(w, lost)
       \/ \E r \in Request, seats \in 1..Seats : Ask(r, w, seats)
  \/ \E r \in Request :
       \/ openRelaySession(r) \/ closeRelaySession(r) \/ RequestFails(r)
       \/ consoleAllowed(r) \/ joinConsole(r) \/ joinDevice(r)
       \/ \E connected \in BOOLEAN, at \in Time : remote_open(r, connected, at)
  \/ Disable \/ remote_revoke \/ RevokeFails \/ Disabled \/ Enable
  \/ Tick

Spec == Init /\ [][Next]_vars

\* An alarm that is due fires, and time passes.
FairSpec ==
  /\ Spec
  /\ \A w \in Workstation : WF_vars(relayAlarm(w))
  /\ WF_vars(Tick)

-----------------------------------------------------------------------------
(* Properties.                                                              *)

\* A viewer and a workstation are connected to each other now.
Live(w) ==
  /\ Joined(w)
  /\ now < session[w].ends_at

\* "how many sessions may be open at once": while nobody has turned Remote Control
\* off, the workstations under Remote Control at one time are never more than the
\* organization's seats.
SeatsBound ==
  revoking.stage = "never" => Cardinality({w \in Workstation : Live(w)}) <= Seats

\* The hub's seats bound the sessions it knows of: however requests for the same
\* and for other workstations, replaced sessions, late, lost and overtaken notices,
\* lowered seats and turning Remote Control off and on interleave, the sessions in
\* use are never more than the seats, but for the ones that turning off is closing
\* or could not close and those whose seat a late call about another session took.
SeatedBound ==
  Cardinality({w \in Workstation : Live(w)} \ (unseated \cup revoking.left)) <= Seats

\* Once turning Remote Control off has finished, and until it is turned on, nobody
\* is connected to a workstation, also when a session was being opened, granted or
\* joined meanwhile.  "Open sessions end at once" holds for no more than that: a
\* session whose seat a late call took is not on the hub's list, one whose relay
\* was not closed goes on, and a hub that did not answer lists none ("failed").
RevokedStaysClosed ==
  ~ enabled /\ revoking.stage = "done" => \A w \in Workstation \ unseated : ~ Live(w)

\* A session never outlives its time: its relay has an alarm due no later than
\* the end of the session, or the end of the time to join while a side is missing.
AlarmCovers ==
  \A w \in Workstation : session[w] # NoSession =>
    /\ alarm[w] # None
    /\ alarm[w] <= IF Joined(w) THEN session[w].ends_at ELSE session[w].join_by

\* Every session comes to an end.
SessionEnds ==
  \A w \in Workstation, r \in Request : session[w].token = r ~> session[w].token # r

=============================================================================
