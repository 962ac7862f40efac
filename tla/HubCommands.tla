----------------------------- MODULE HubCommands ------------------------------
(***************************************************************************)
(* How a command queued in the console reaches a workstation.  OrgHub, the *)
(* organization's Durable Object, keeps the queue in SQLite; a workstation *)
(* takes what is queued for it when it connects, when it sends an HTTP     *)
(* heartbeat, and over its open socket when the command is queued.         *)
(*                                                                         *)
(* An await on D1 lets other events of the object in, so every handler is  *)
(* split there, and the query may fail, which ends the handler.  A socket  *)
(* that was closed stays in getWebSockets until the close is complete;     *)
(* what is sent on it then is dropped, and sendRaw swallows the error.     *)
(***************************************************************************)
EXTENDS Integers, Sequences, FiniteSets

CONSTANTS
  Client,       \* the workstations
  On,           \* those that are switched on and connect
  MaxConn,      \* bound: connections and heartbeats the agents open
  MaxCommand,   \* bound: command rows queued
  TTL,          \* COMMAND_TTL_SECONDS, in ticks
  MaxTime       \* bound: ticks of the clock

ASSUME BoundAssumption == /\ MaxConn \in Nat /\ MaxCommand \in Nat
                          /\ TTL \in Nat \ {0} /\ MaxTime \in Nat
ASSUME OnAssumption == On \subseteq Client

VARIABLES
  now,         \* the clock, in seconds
  commands,    \* the table commands
  deliveries,  \* the table deliveries: who has had a command for everyone
  conn,        \* every connection: a WebSocket, or one HTTP heartbeat
  wire,        \* what the hub sent on a connection and the agent has not read
  channel,     \* the connection each agent is using
  issued,      \* command ids given out: crypto.randomUUID
  calls,       \* enqueue calls waiting for loadConfig
  alarm,       \* an alarm is set
  firing,      \* alarm() is running
  executed,    \* history: what each agent executed, in order
  stranded     \* history: an enqueue call failed without an alarm, and none was set since

vars == <<now, commands, deliveries, conn, wire, channel, issued, calls, alarm, firing, executed, stranded>>
queue == <<commands, deliveries>>
hub == <<commands, deliveries, issued, calls, alarm, firing, stranded>>

Everyone == "all"
Conn == 1..MaxConn
None == 0

Row == [id : 1..MaxCommand, target : Client \cup {Everyone}, created : 0..MaxTime]
Link == [client : Client, kind : {"ws", "http"},
         state : {"asked", "open", "closing", "gone"}, call : BOOLEAN]
Unused == [state |-> "unused", kind |-> "http", call |-> FALSE]
Call == [first : 1..MaxCommand, addressed : SUBSET Conn]

TypeOK ==
  /\ now \in 0..MaxTime
  /\ commands \subseteq Row
  /\ deliveries \subseteq (1..MaxCommand) \X Client
  /\ conn \in [Conn -> Link \cup {Unused}]
  /\ wire \in [Conn -> Seq(Row)]
  /\ channel \in [Client -> Conn \cup {None}]
  /\ issued \in 0..MaxCommand
  /\ calls \subseteq Call
  /\ {alarm, firing, stranded} \subseteq BOOLEAN
  /\ executed \in [Client -> Seq(Row)]

Init ==
  /\ now = 0 /\ commands = {} /\ deliveries = {} /\ calls = {} /\ issued = 0
  /\ conn = [s \in Conn |-> Unused] /\ wire = [s \in Conn |-> <<>>]
  /\ channel = [c \in Client |-> None]
  /\ alarm = FALSE /\ firing = FALSE /\ stranded = FALSE
  /\ executed = [c \in Client |-> <<>>]

Used == {s \in Conn : conn[s] # Unused}
\* ctx.getWebSockets: closing sockets are still listed.
Listed == {s \in Conn : conn[s].state \in {"open", "closing"}}
SocketsOf(c) == {s \in Listed : conn[s].client = c}

-----------------------------------------------------------------------------
(* The queue.                                                               *)

Expired(r) == r.created + TTL <= now

\* The rows pendingFor selects for a workstation.
Pending(c) ==
  {r \in commands : /\ r.target \in {c, Everyone}
                    /\ ~ Expired(r)
                    /\ <<r.id, c>> \notin deliveries}

\* Mutant: the rows come in no particular order.
InCreationOrder_unordered(rows) ==
  {q \in [1..Cardinality(rows) -> rows] : \A i, j \in DOMAIN q : i # j => q[i] # q[j]}

\* ORDER BY created_at: seconds, so rows of one second come in any order.
InCreationOrder(rows) ==
  {q \in [1..Cardinality(rows) -> rows] :
     \A i, j \in DOMAIN q : i < j => q[i] # q[j] /\ q[i].created <= q[j].created}

\* Mutant: a delivered command stays queued for its workstation.
Retire_kept(clients) ==
  /\ commands' = commands
  /\ deliveries' = deliveries \cup
       UNION {{<<r.id, c>> : r \in {x \in Pending(c) : x.target = Everyone}} : c \in clients}

\* Mutant: the delivery is recorded for the row's target.
Retire_marks_target(clients) ==
  /\ commands' = commands \ UNION {{r \in Pending(c) : r.target = c} : c \in clients}
  /\ deliveries' = deliveries \cup
       UNION {{<<r.id, r.target>> : r \in {x \in Pending(c) : x.target = Everyone}} : c \in clients}

\* pendingFor marks what it returns: a row for one workstation is deleted, one
\* for everyone is marked in deliveries.
Retire(clients) ==
  /\ commands' = commands \ UNION {{r \in Pending(c) : r.target = c} : c \in clients}
  /\ deliveries' = deliveries \cup
       UNION {{<<r.id, c>> : r \in {x \in Pending(c) : x.target = Everyone}} : c \in clients}

\* sendRaw: a closing socket drops the message, and so does an open one, or the
\* reply to a heartbeat, when the agent has left its end of it.
Sent(s, q) ==
  IF conn[s].state \in {"asked", "open"} /\ channel[conn[s].client] = s THEN q ELSE <<>>

\* The workstation of each of these sockets, no two of one workstation, is handed
\* what is pending for it.
pendingFor(sockets) ==
  \E q \in [sockets -> UNION {InCreationOrder(Pending(conn[s].client)) : s \in sockets}] :
    /\ \A s \in sockets : q[s] \in InCreationOrder(Pending(conn[s].client))
    /\ Retire({conn[s].client : s \in sockets})
    /\ wire' = [s \in Conn |-> IF s \in sockets THEN wire[s] \o Sent(s, q[s]) ELSE wire[s]]

-----------------------------------------------------------------------------
(* The hub's handlers.                                                      *)

ensureAlarm == alarm' = TRUE /\ stranded' = FALSE

\* acceptDevice up to the write of the registry row: the old sockets are
\* closed and the new one is listed.
acceptDevice(s) ==
  /\ conn[s].kind = "ws" /\ conn[s].state = "asked"
  /\ conn' = [t \in Conn |->
       IF t = s THEN [client |-> conn[s].client, kind |-> "ws", state |-> "open", call |-> TRUE]
       ELSE IF t \in SocketsOf(conn[s].client)
            THEN [client |-> conn[t].client, kind |-> "ws", state |-> "closing", call |-> conn[t].call]
            ELSE conn[t]]
  /\ UNCHANGED <<now, hub, wire, channel, executed>>

CallDone(s) ==
  conn' = [conn EXCEPT ![s] = [client |-> @.client, kind |-> @.kind, state |-> @.state, call |-> FALSE]]

\* The rest of acceptDevice: the configuration goes out with what is pending.
acceptDeviceConfig(s) ==
  /\ conn[s].call
  /\ pendingFor({s})
  /\ CallDone(s)
  /\ ensureAlarm
  /\ UNCHANGED <<now, channel, issued, calls, firing, executed>>

\* D1 refuses the registry row, the configuration or, when the commands are
\* marked by then, the exam's event: the upgrade answers 500 and the agent has no
\* connection, while the hub's end is still listed.
acceptDeviceFails(s, marked) ==
  /\ conn[s].call
  /\ CallDone(s)
  /\ channel' = [channel EXCEPT ![conn[s].client] = IF @ = s THEN None ELSE @]
  /\ wire' = [wire EXCEPT ![s] = <<>>]
  /\ IF marked THEN Retire({conn[s].client}) ELSE UNCHANGED queue
  /\ UNCHANGED <<now, issued, calls, alarm, firing, executed, stranded>>

\* handleHeartbeat: the reply carries what is pending, also when nobody is
\* waiting for it any more.  The alarm is set when the status changed.
handleHeartbeat(s) ==
  /\ conn[s].kind = "http" /\ conn[s].state = "asked"
  /\ pendingFor({s})
  /\ conn' = [conn EXCEPT ![s] = [client |-> @.client, kind |-> "http", state |-> "gone", call |-> FALSE]]
  /\ ensureAlarm \/ UNCHANGED <<alarm, stranded>>
  /\ UNCHANGED <<now, channel, issued, calls, firing, executed>>

\* socketGone: a replaced socket sets no alarm, nor does one that was swept before
\* its close completed, or whose workstation's row D1 refuses.
Departs(s, state) ==
  LET c == conn[s].client
  IN /\ conn' = [conn EXCEPT ![s] = [client |-> c, kind |-> "ws", state |-> state, call |-> @.call]]
     /\ \/ SocketsOf(c) = {s} /\ ensureAlarm
        \/ UNCHANGED <<alarm, stranded>>
     /\ UNCHANGED <<now, queue, wire, channel, issued, calls, firing, executed>>

\* The peer left or completed the handshake.
socketGone(s) ==
  /\ s \in Listed
  /\ channel[conn[s].client] # s \/ conn[s].state = "closing"
  /\ Departs(s, "gone")

\* The alarm closes a socket that no ping came from, also one its agent still uses.
sweepStale(s) ==
  /\ firing
  /\ s \in Listed
  /\ Departs(s, "closing")

\* enqueue up to loadConfig: one row for every target, and the sockets that are
\* addressed, as they are listed now.
enqueue(targets) ==
  LET ids == issued + 1 .. issued + Cardinality(targets)
      addressed == IF Everyone \in targets THEN Listed
                   ELSE UNION {SocketsOf(t) : t \in targets}
  IN /\ issued + Cardinality(targets) <= MaxCommand
     /\ now < MaxTime
     /\ \E of \in [ids -> targets] :
          /\ \A i, j \in ids : i # j => of[i] # of[j]
          /\ commands' = commands \cup {[id |-> i, target |-> of[i], created |-> now] : i \in ids}
     /\ issued' = issued + Cardinality(targets)
     /\ calls' = calls \cup {[first |-> issued + 1, addressed |-> addressed]}
     /\ UNCHANGED <<now, deliveries, conn, wire, channel, alarm, firing, executed, stranded>>

\* The ways to take one socket of each workstation.
OneEach(sockets) ==
  {f \in SUBSET sockets : \A s \in sockets : Cardinality({t \in f : conn[t].client = conn[s].client}) = 1}

\* Mutant: the alarm is not set after queuing.
enqueueDeliver_no_alarm(call) ==
  /\ call \in calls
  /\ \E sockets \in OneEach(call.addressed) : pendingFor(sockets)
  /\ calls' = calls \ {call}
  /\ UNCHANGED <<now, conn, channel, issued, alarm, firing, executed, stranded>>

\* The rest of enqueue: the first of a workstation's addressed sockets takes all
\* that is pending for it; getWebSockets promises no order.
enqueueDeliver(call) ==
  /\ call \in calls
  /\ \E sockets \in OneEach(call.addressed) : pendingFor(sockets)
  /\ calls' = calls \ {call}
  /\ ensureAlarm
  /\ UNCHANGED <<now, conn, channel, issued, firing, executed>>

\* loadConfig fails: the call answers 500 with the rows already queued.
enqueueFails(call) ==
  /\ call \in calls
  /\ calls' = calls \ {call}
  /\ stranded' = (stranded \/ ~ (alarm \/ firing))
  /\ UNCHANGED <<now, queue, conn, wire, channel, issued, alarm, firing, executed>>

AlarmFires ==
  /\ alarm /\ ~ firing
  /\ alarm' = FALSE /\ firing' = TRUE
  /\ UNCHANGED <<now, queue, conn, wire, channel, issued, calls, executed, stranded>>

\* alarm() from purgeExpiredCommands on: it re-arms while commands are queued,
\* and when a console, an HTTP workstation or an unwritten status needs it.
purgeExpiredCommands(busy) ==
  LET old == {r \in commands : Expired(r)}
  IN /\ firing
     /\ deliveries' = {d \in deliveries : \A r \in old : d[1] # r.id}
     /\ commands' = commands \ old
     /\ firing' = FALSE
     /\ IF busy \/ commands' # {} THEN ensureAlarm ELSE UNCHANGED <<alarm, stranded>>
     /\ UNCHANGED <<now, conn, wire, channel, issued, calls, executed>>

-----------------------------------------------------------------------------
(* The agents.  One loop uses one connection at a time.                     *)

Opens(c, kind) ==
  \E s \in Conn :
    /\ channel[c] = None
    /\ \A t \in Conn : t < s <=> t \in Used
    /\ conn' = [conn EXCEPT ![s] = [client |-> c, kind |-> kind, state |-> "asked", call |-> FALSE]]
    /\ channel' = [channel EXCEPT ![c] = s]
    /\ UNCHANGED <<now, hub, wire, executed>>

websocket_session(c) == Opens(c, "ws")
http_heartbeat(c) == Opens(c, "http")

\* The agent has its connection: the upgrade was answered, or the reply is here.
Connected(c) ==
  /\ channel[c] # None
  /\ conn[channel[c]].state # "asked" /\ ~ conn[channel[c]].call

\* apply_control_update runs the commands of a message one by one.
execute_command(c) ==
  LET s == channel[c]
  IN /\ Connected(c) /\ wire[s] # <<>>
     /\ executed' = [executed EXCEPT ![c] = Append(@, Head(wire[s]))]
     /\ wire' = [wire EXCEPT ![s] = Tail(@)]
     /\ UNCHANGED <<now, hub, conn, channel>>

\* The session ends: a close, silence, a timeout, a restart.  What was not read
\* is not executed.
SessionEnds(c) ==
  /\ channel[c] # None
  /\ channel' = [channel EXCEPT ![c] = None]
  /\ wire' = [wire EXCEPT ![channel[c]] = <<>>]
  /\ UNCHANGED <<now, hub, conn, executed>>

Tick ==
  /\ now < MaxTime
  /\ now' = now + 1
  /\ UNCHANGED <<hub, conn, wire, channel, executed>>

Targets == {{Everyone}} \cup (SUBSET Client \ {{}})

Next ==
  \/ \E s \in Conn : \/ acceptDevice(s) \/ acceptDeviceConfig(s)
                     \/ \E marked \in BOOLEAN : acceptDeviceFails(s, marked)
                     \/ handleHeartbeat(s) \/ socketGone(s) \/ sweepStale(s)
  \/ \E targets \in Targets : enqueue(targets)
  \/ \E call \in calls : enqueueDeliver(call) \/ enqueueFails(call)
  \/ AlarmFires \/ \E busy \in BOOLEAN : purgeExpiredCommands(busy)
  \/ \E c \in On : \/ websocket_session(c) \/ http_heartbeat(c)
                       \/ execute_command(c) \/ SessionEnds(c)
  \/ Tick

Spec == Init /\ [][Next]_vars

-----------------------------------------------------------------------------
(* Properties.                                                              *)

\* "each machine gets it once" (pendingFor): whatever mix of sockets, replaced
\* sockets and heartbeats a workstation used, it executes a command at most
\* once, and only one addressed to it.
AtMostOnce ==
  \A c \in Client : \A i \in DOMAIN executed[c] :
    /\ executed[c][i].target \in {c, Everyone}
    /\ \A j \in DOMAIN executed[c] : executed[c][i].id = executed[c][j].id => i = j

\* A lock followed by an unlock must not arrive the other way round: a
\* workstation executes commands in the order of the seconds they were queued
\* in, also over a reconnection or a change between socket and heartbeat.
InOrder ==
  \A c \in Client : \A i, j \in DOMAIN executed[c] :
    i < j => executed[c][i].created <= executed[c][j].created

\* While rows are queued an alarm that will purge them is set, is running, or an
\* enqueue call is about to set one, unless an enqueue call failed between its rows
\* and its alarm and nothing has set one since (stranded): enqueue sets it last.
AlarmCovers == commands # {} => alarm \/ firing \/ calls # {} \/ stranded

\* enqueue: "Deliver now to every workstation that is connected; the rest get
\* it on their next connection or heartbeat, until it expires."  What an enqueue
\* call takes off the queue for a workstation whose connection it addressed is on
\* its way to the workstation.
ConnectedGetsIt ==
  [][\A call \in calls \ calls', c \in Client : \A r \in Pending(c) :
       /\ channel[c] \in call.addressed /\ Connected(c)
       /\ r \notin commands' \/ <<r.id, c>> \in deliveries'
       => \E i \in DOMAIN wire'[channel[c]] : wire'[channel[c]][i] = r]_vars

=============================================================================
