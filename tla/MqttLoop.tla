------------------------------ MODULE MqttLoop ------------------------------
(***************************************************************************)
(* The MQTT side of the agent: the task that owns rumqttc's event loop     *)
(* (transport/mod.rs), the tasks it spawns on every ConnAck, the main task *)
(* (app.rs, mqtt_loop), the two bounded channels between them, and the     *)
(* broker they talk to.                                                    *)
(*                                                                         *)
(*   main task --- reqs (ReqCap) ---> event-loop task --- wire ---> broker *)
(*   main task <-- cmds (CmdCap) ---- event-loop task <-- queue --- broker *)
(*                                                                         *)
(* A request is its kind: what is published to which topic matters, the    *)
(* payload does not.  A command is its position in the order in which Home *)
(* Assistant published it.                                                 *)
(***************************************************************************)
EXTENDS Naturals, Sequences, Functions

CONSTANTS
    ReqCap,       \* capacity of the AsyncClient request channel (64 in the code)
    CmdCap,       \* capacity of the command channel (32 in the code)
    MaxCommands,  \* bound: commands Home Assistant publishes
    Malformed,    \* the commands whose payload IncomingCommand::parse rejects
    MaxPublishes, \* bound: state publishes of the main loop
    MaxDrops,     \* bound: connections lost
    MaxWipes,     \* bound: broker restarts that lose sessions and retained topics
    MaxStops,     \* bound: stops raised and kills (a start may follow each)
    Inflight      \* requests written and not yet acknowledged (rumqttc's limit)

Commands == 1..MaxCommands
NoCommand == 0

ASSUME CapacityAssumption == ReqCap \in Nat \ {0} /\ CmdCap \in Nat \ {0}
ASSUME BoundAssumption ==
    /\ MaxCommands \in Nat /\ Malformed \subseteq Commands
    /\ MaxPublishes \in Nat /\ MaxDrops \in Nat /\ MaxWipes \in Nat
    /\ MaxStops \in Nat /\ Inflight \in Nat \ {0}

VARIABLES
    (* the main task *)
    main,         \* where mqtt_loop is
    handling,     \* the command handle_command is executing, or NoCommand
    stop,         \* a shutdown signal or an SCM stop has been raised
    (* the event-loop task and the tasks it spawns *)
    el,           \* where the event-loop task is
    forwarding,   \* the command it is pushing into cmds, or NoCommand
    conn,         \* the `connected` watch
    respawned,    \* respawned[s]: ConnAck tasks that have reached send s
    (* channels of the agent *)
    reqs, cmds,
    pending,      \* requests rumqttc kept over a disconnect, sent first
    wire,         \* requests written to the connection, not seen by the broker
    outgoing,     \* the publishes among them: what rumqttc retransmits
    (* the connection and the broker *)
    link,         \* "up", "broken" (the client has not noticed), "down"
    broker,       \* session, subscribed, availability, discovered, willDue
    queue,        \* commands of the session the agent has not read
    unacked,      \* commands read whose PUBACK has not reached the broker
    (* history and bounds *)
    sent, executed, lost, published, drops, wipes, stops

mainVars  == <<main, handling>>
elVars    == <<el, forwarding, conn, respawned>>
chanVars  == <<reqs, cmds, pending, wire, outgoing>>
netVars   == <<link, broker, queue, unacked>>
boundVars == <<drops, wipes, stops>>
vars == <<mainVars, stop, elVars, chanVars, netVars, sent, executed, lost,
          published, boundVars>>

Request == {"subscribe", "discovery", "online", "state"}

Broker == [session : BOOLEAN, subscribed : BOOLEAN, discovered : BOOLEAN,
           availability : {"none", "online", "offline"}, willDue : BOOLEAN]

TypeOK ==
    /\ main \in {"wait_connected", "subscribe", "discovery", "online", "select",
                 "publish", "drain", "handle", "drain_handle", "exited"}
    /\ handling \in IF main \in {"handle", "drain_handle"} THEN Commands
                    ELSE {NoCommand}
    /\ stop \in BOOLEAN
    /\ el \in {"poll", "forward", "sleep"}
    /\ forwarding \in IF el = "forward" THEN Commands ELSE {NoCommand}
    /\ conn \in BOOLEAN
    /\ respawned \in [{"subscribe", "online"} -> Nat]
    /\ reqs \in Seq(Request) /\ Len(reqs) <= ReqCap
    /\ cmds \in Seq(Commands) /\ Len(cmds) <= CmdCap
    /\ pending \in Seq(Request) /\ wire \in Seq(Request)
    /\ outgoing \in Seq(Request)
    /\ link \in {"up", "broken", "down"}
    /\ broker \in Broker
    /\ queue \in Seq(Commands) /\ unacked \in Seq(Commands)
    /\ sent \in 0..MaxCommands
    /\ executed \subseteq Commands /\ lost \subseteq Commands
    /\ published \in 0..MaxPublishes
    /\ drops \in 0..MaxDrops /\ wipes \in 0..MaxWipes /\ stops \in 0..MaxStops

Init ==
    /\ main = "wait_connected" /\ handling = NoCommand /\ stop = FALSE
    /\ el = "poll" /\ forwarding = NoCommand /\ conn = FALSE
    /\ respawned = [s \in {"subscribe", "online"} |-> 0]
    /\ reqs = <<>> /\ cmds = <<>> /\ pending = <<>> /\ wire = <<>>
    /\ outgoing = <<>>
    /\ link = "down"
    /\ broker = [session |-> FALSE, subscribed |-> FALSE, discovered |-> FALSE,
                 availability |-> "none", willDue |-> FALSE]
    /\ queue = <<>> /\ unacked = <<>>
    /\ sent = 0 /\ executed = {} /\ lost = {} /\ published = 0
    /\ drops = 0 /\ wipes = 0 /\ stops = 0

Alive == main # "exited"

-----------------------------------------------------------------------------
(* The definitions named Fault... are deliberate faults, each put in place of  *)
(* the definition that follows it to see a property fail; Next uses none.     *)

\* A request channel without a capacity.
FaultEnqueue(request) == reqs' = Append(reqs, request)

(* AsyncClient::publish and subscribe: wait for a slot, then enqueue.      *)
Enqueue(request) ==
    /\ Len(reqs) < ReqCap
    /\ reqs' = Append(reqs, request)

-----------------------------------------------------------------------------
(* The main task, mqtt_loop *)

\* mqtt.wait_connected(): a stop of the service manager is not looked at here.
WaitConnected ==
    /\ main = "wait_connected" /\ conn
    /\ main' = "subscribe"
    /\ UNCHANGED <<handling, stop, elVars, chanVars, netVars, sent, executed,
                   lost, published, boundVars>>

\* subscribe_commands, publish_discovery and publish_online, in this order.
Announce(request, next) ==
    /\ main = request
    /\ Enqueue(request)
    /\ main' = next
    /\ UNCHANGED <<handling, stop, elVars, cmds, pending, wire, outgoing, netVars, sent,
                   executed, lost, published, boundVars>>

\* The discovery payload is left out.
FaultAnnounceStep ==
    \/ Announce("subscribe", "online")
    \/ Announce("online", "select")

AnnounceStep ==
    \/ Announce("subscribe", "discovery")
    \/ Announce("discovery", "online")
    \/ Announce("online", "select")

\* The interval branch of select!: the update tick, the collectors and the
\* publish decision; main then either publishes or goes on to drain.
Tick ==
    /\ main = "select"
    /\ \/ main' = "drain" /\ UNCHANGED published
       \/ /\ main' = "publish"
          /\ published < MaxPublishes /\ published' = published + 1
    /\ UNCHANGED <<handling, stop, elVars, chanVars, netVars, sent, executed,
                   lost, boundVars>>

\* publish_state waits for a slot of the request channel.
PublishState ==
    /\ main = "publish"
    /\ Enqueue("state")
    /\ main' = "drain"
    /\ UNCHANGED <<handling, stop, elVars, cmds, pending, wire, outgoing, netVars,
                   sent, executed, lost, published, boundVars>>

\* The newest command first.
FaultTakeCommand(at, next) ==
    /\ main = at /\ cmds # <<>>
    /\ handling' = cmds[Len(cmds)]
    /\ cmds' = SubSeq(cmds, 1, Len(cmds) - 1)
    /\ main' = next
    /\ UNCHANGED <<stop, elVars, reqs, pending, wire, outgoing, netVars, sent, executed,
                   lost, published, boundVars>>

\* recv_command in select!, or try_recv_command in the drain loop.
TakeCommand(at, next) ==
    /\ main = at /\ cmds # <<>>
    /\ handling' = Head(cmds)
    /\ cmds' = Tail(cmds)
    /\ main' = next
    /\ UNCHANGED <<stop, elVars, reqs, pending, wire, outgoing, netVars, sent, executed,
                   lost, published, boundVars>>

SelectCommand == TakeCommand("select", "handle")
DrainCommand  == TakeCommand("drain", "drain_handle")

\* The drain loop waits for a command (recv) instead of trying for one.
FaultDrainDone ==
    /\ main = "drain" /\ cmds # <<>>
    /\ main' = "select"
    /\ UNCHANGED <<handling, stop, elVars, chanVars, netVars, sent, executed,
                   lost, published, boundVars>>

\* try_recv_command found nothing: back to select!.
DrainDone ==
    /\ main = "drain" /\ cmds = <<>>
    /\ main' = "select"
    /\ UNCHANGED <<handling, stop, elVars, chanVars, netVars, sent, executed,
                   lost, published, boundVars>>

\* handle_command(..).await returns; an error is only logged.
CommandHandled ==
    /\ main \in {"handle", "drain_handle"}
    /\ executed' = executed \cup {handling}
    /\ handling' = NoCommand
    /\ main' = IF main = "handle" THEN "select" ELSE "drain"
    /\ UNCHANGED <<stop, elVars, chanVars, netVars, sent, lost, published,
                   boundVars>>

\* The shutdown signal or the SCM stop is raised ...
RaiseStop ==
    /\ Alive /\ ~stop /\ stops < MaxStops
    /\ stop' = TRUE
    /\ stops' = stops + 1
    /\ UNCHANGED <<mainVars, elVars, chanVars, netVars, sent, executed, lost,
                   published, drops, wipes>>

\* A connection made without a last will.
FaultLoseConnection ==
    /\ queue' = unacked \o queue
    /\ unacked' = <<>>
    /\ UNCHANGED broker

\* What the end of a connection does at the broker: the last will becomes due
\* and everything that was not acknowledged is queued again.
LoseConnection ==
    /\ broker' = [broker EXCEPT !.willDue = @ \/ link = "up"]
    /\ queue' = unacked \o queue
    /\ unacked' = <<>>

\* The process ends and every task dies with it, without a DISCONNECT and
\* without publishing `offline`.  The commands that only this process still
\* knew, the broker having their PUBACK, are lost.
EndProcess ==
    /\ main' = "exited" /\ handling' = NoCommand
    /\ el' = "poll" /\ forwarding' = NoCommand /\ conn' = FALSE
    /\ respawned' = [s \in {"subscribe", "online"} |-> 0]
    /\ reqs' = <<>> /\ cmds' = <<>> /\ pending' = <<>> /\ wire' = <<>>
    /\ outgoing' = <<>>
    /\ link' = "down"
    /\ LoseConnection
    /\ lost' = lost \cup ((Range(cmds) \cup {forwarding, handling})
                           \ (Range(unacked) \cup {NoCommand}))
    /\ UNCHANGED <<stop, sent, executed, published, drops, wipes>>

\* ... and select! takes its branch: mqtt_loop returns.
Exit ==
    /\ main = "select" /\ stop
    /\ EndProcess
    /\ UNCHANGED stops

\* The process is killed: a crash, SIGKILL, or a signal before shutdown_signal()
\* has been called.
Kill ==
    /\ Alive /\ stops < MaxStops
    /\ EndProcess
    /\ stops' = stops + 1

\* The service manager starts the agent again, with the same MQTT client id.
Start ==
    /\ ~Alive
    /\ main' = "wait_connected" /\ stop' = FALSE
    /\ UNCHANGED <<handling, elVars, chanVars, netVars, sent, executed, lost,
                   published, boundVars>>

-----------------------------------------------------------------------------
(* The event-loop task: loop { match eventloop.poll().await { .. } } *)

\* Nothing is republished on a ConnAck.
FaultConnect ==
    /\ Alive /\ el = "poll" /\ link = "down" /\ ~broker.willDue
    /\ link' = "up"
    /\ broker' = [broker EXCEPT !.session = TRUE]
    /\ pending' = IF broker.session THEN pending ELSE <<>>
    /\ conn' = TRUE
    /\ UNCHANGED <<mainVars, stop, el, forwarding, respawned, reqs, cmds, wire, outgoing,
                   queue, unacked, sent, executed, lost, published, boundVars>>

\* A clean session: the broker drops what it kept for the agent.
FaultConnectClean ==
    /\ Alive /\ el = "poll" /\ link = "down" /\ ~broker.willDue
    /\ link' = "up"
    /\ broker' = [broker EXCEPT !.session = TRUE, !.subscribed = FALSE]
    /\ queue' = <<>> /\ pending' = <<>>
    /\ conn' = TRUE
    /\ respawned' = [respawned EXCEPT !["subscribe"] = @ + 1]
    /\ UNCHANGED <<mainVars, stop, el, forwarding, reqs, cmds, wire, outgoing,
                   unacked, sent, executed, lost, published, boundVars>>

\* poll() without a connection: connect, and return the ConnAck.  The task sets
\* the watch and spawns the task that re-subscribes and republishes `online`.
\* rumqttc forgets the requests it kept when the broker has no session.
Connect ==
    /\ Alive /\ el = "poll" /\ link = "down" /\ ~broker.willDue
    /\ link' = "up"
    /\ broker' = [broker EXCEPT !.session = TRUE]
    /\ pending' = IF broker.session THEN pending ELSE <<>>
    /\ conn' = TRUE
    /\ respawned' = [respawned EXCEPT !["subscribe"] = @ + 1]
    /\ UNCHANGED <<mainVars, stop, el, forwarding, reqs, cmds, wire, outgoing, queue,
                   unacked, sent, executed, lost, published, boundVars>>

\* poll() fails, because the broker cannot be reached or the connection broke:
\* rumqttc keeps what was unacknowledged and drains the request channel, the
\* task clears the watch and sleeps for two seconds.
PollError ==
    /\ Alive /\ el = "poll" /\ link # "up"
    /\ el' = "sleep"
    /\ conn' = FALSE
    /\ link' = "down"
    /\ IF link = "broken"
       THEN /\ pending' = pending \o outgoing \o reqs
            /\ reqs' = <<>> /\ wire' = <<>> /\ outgoing' = <<>>
       ELSE UNCHANGED <<pending, reqs, wire, outgoing>>
    /\ UNCHANGED <<mainVars, stop, forwarding, respawned, cmds, broker, queue,
                   unacked, sent, executed, lost, published, boundVars>>

Wake ==
    /\ el = "sleep"
    /\ el' = "poll"
    /\ UNCHANGED <<mainVars, stop, forwarding, conn, respawned, chanVars,
                   netVars, sent, executed, lost, published, boundVars>>

\* The spawned task only publishes "online".
FaultResubscribe ==
    /\ respawned["subscribe"] > 0
    /\ respawned' = [respawned EXCEPT !["subscribe"] = @ - 1, !["online"] = @ + 1]
    /\ UNCHANGED <<mainVars, stop, el, forwarding, conn, chanVars, netVars, sent,
                   executed, lost, published, boundVars>>

\* The spawned task: subscribe, then publish "online"; each may have to wait
\* for a slot of the request channel.
Resubscribe ==
    /\ respawned["subscribe"] > 0
    /\ Enqueue("subscribe")
    /\ respawned' = [respawned EXCEPT !["subscribe"] = @ - 1, !["online"] = @ + 1]
    /\ UNCHANGED <<mainVars, stop, el, forwarding, conn, cmds, pending, wire, outgoing,
                   netVars, sent, executed, lost, published, boundVars>>

RepublishOnline ==
    /\ respawned["online"] > 0
    /\ Enqueue("online")
    /\ respawned' = [respawned EXCEPT !["online"] = @ - 1]
    /\ UNCHANGED <<mainVars, stop, el, forwarding, conn, cmds, pending, wire, outgoing,
                   netVars, sent, executed, lost, published, boundVars>>

\* Only publishes are kept for retransmission; a subscribe that is cut off by
\* the end of the connection is gone.
Write(request) ==
    /\ wire' = Append(wire, request)
    /\ outgoing' = IF request = "subscribe" THEN outgoing
                   ELSE Append(outgoing, request)

\* poll() writes the next request: the ones kept over a disconnect first.
SendRequest ==
    /\ el = "poll" /\ link = "up" /\ Len(wire) < Inflight
    /\ \/ /\ pending # <<>>
          /\ Write(Head(pending))
          /\ pending' = Tail(pending)
          /\ UNCHANGED reqs
       \/ /\ pending = <<>> /\ reqs # <<>>
          /\ Write(Head(reqs))
          /\ reqs' = Tail(reqs)
          /\ UNCHANGED pending
    /\ UNCHANGED <<mainVars, stop, elVars, cmds, netVars, sent, executed, lost,
                   published, boundVars>>

\* poll() reads a command, and acknowledges it as it is read.  A payload that
\* does not parse is logged and ignored.
ReadCommand ==
    /\ el = "poll" /\ link = "up" /\ queue # <<>>
    /\ queue' = Tail(queue)
    /\ unacked' = Append(unacked, Head(queue))
    /\ IF Head(queue) \in Malformed
       THEN UNCHANGED <<el, forwarding>>
       ELSE el' = "forward" /\ forwarding' = Head(queue)
    /\ UNCHANGED <<mainVars, stop, conn, respawned, chanVars, link, broker,
                   sent, executed, lost, published, boundVars>>

\* cmd_tx.send(command).await: while cmds is full the event loop is not polled.
ForwardCommand ==
    /\ el = "forward" /\ Len(cmds) < CmdCap
    /\ cmds' = Append(cmds, forwarding)
    /\ el' = "poll" /\ forwarding' = NoCommand
    /\ UNCHANGED <<mainVars, stop, conn, respawned, reqs, pending, wire, outgoing, netVars,
                   sent, executed, lost, published, boundVars>>

-----------------------------------------------------------------------------
(* The broker and the network (not part of the repository) *)

Served(request) ==
    CASE request = "subscribe" -> [broker EXCEPT !.subscribed = TRUE]
      [] request = "discovery" -> [broker EXCEPT !.discovered = TRUE]
      [] request = "online"    -> [broker EXCEPT !.availability = "online"]
      [] OTHER                 -> broker

BrokerServes ==
    /\ link = "up" /\ wire # <<>>
    /\ broker' = Served(Head(wire))
    /\ wire' = Tail(wire)
    /\ outgoing' = IF Head(wire) = "subscribe" THEN outgoing
                   ELSE SubSeq(outgoing, 2, Len(outgoing))
    /\ UNCHANGED <<mainVars, stop, elVars, reqs, cmds, pending, link, queue,
                   unacked, sent, executed, lost, published, boundVars>>

BrokerAcked ==
    /\ link = "up" /\ unacked # <<>>
    /\ unacked' = Tail(unacked)
    /\ UNCHANGED <<mainVars, stop, elVars, chanVars, link, broker, queue, sent,
                   executed, lost, published, boundVars>>

\* The last will set by MqttTransport::start: retained "offline".
FireWill ==
    /\ broker.willDue
    /\ broker' = [broker EXCEPT !.willDue = FALSE, !.availability = "offline"]
    /\ UNCHANGED <<mainVars, stop, elVars, chanVars, link, queue, unacked, sent,
                   executed, lost, published, boundVars>>

\* Home Assistant publishes a command; the broker keeps it for a session that
\* has subscribed, connected or not (clean_session is false).
SendCommand ==
    /\ sent < MaxCommands
    /\ sent' = sent + 1
    /\ IF broker.subscribed
       THEN queue' = Append(queue, sent + 1) /\ UNCHANGED lost
       ELSE lost' = lost \cup {sent + 1} /\ UNCHANGED queue
    /\ UNCHANGED <<mainVars, stop, elVars, chanVars, link, broker, unacked,
                   executed, published, boundVars>>

DropConnection ==
    /\ link = "up" /\ drops < MaxDrops
    /\ drops' = drops + 1
    /\ link' = "broken"
    /\ LoseConnection
    /\ UNCHANGED <<mainVars, stop, elVars, chanVars, sent, executed, lost,
                   published, wipes, stops>>

\* The broker restarts without its database: sessions, retained topics and the
\* commands it kept are gone.
WipeBroker ==
    /\ wipes < MaxWipes
    /\ wipes' = wipes + 1
    /\ link' = IF link = "up" THEN "broken" ELSE link
    /\ broker' = [session |-> FALSE, subscribed |-> FALSE, discovered |-> FALSE,
                  availability |-> "none", willDue |-> FALSE]
    /\ lost' = lost \cup Range(queue)
    /\ queue' = <<>> /\ unacked' = <<>>
    /\ UNCHANGED <<mainVars, stop, elVars, chanVars, sent, executed, published,
                   drops, stops>>

-----------------------------------------------------------------------------
MainStep ==
    \/ WaitConnected \/ AnnounceStep \/ Tick \/ PublishState
    \/ SelectCommand \/ DrainCommand \/ DrainDone \/ CommandHandled

EventLoopStep == PollError \/ Wake \/ SendRequest \/ ReadCommand \/ ForwardCommand

ConnAckTask == Resubscribe \/ RepublishOnline

BrokerStep == BrokerServes \/ FireWill

Environment ==
    \/ RaiseStop \/ Kill \/ Start \/ BrokerAcked
    \/ SendCommand \/ DropConnection \/ WipeBroker

Next ==
    \/ MainStep \/ Exit
    \/ EventLoopStep \/ Connect \/ ConnAckTask
    \/ BrokerStep \/ Environment

(* Fairness.  tokio runs every ready task and wakes the waiters of a channel  *)
(* in FIFO order, so a task whose next step is possible again and again takes *)
(* it: strong fairness of each task.  select! picks among its ready branches  *)
(* at random, so the stop branch is taken when it keeps being ready.  The     *)
(* broker serves what it is sent, fires the will of a dead connection and can *)
(* be reached again and again.  Nothing is assumed of Home Assistant, of      *)
(* stops, of starts, or of connections being lost.                            *)
Fairness ==
    /\ SF_vars(MainStep) /\ SF_vars(Exit)
    /\ SF_vars(EventLoopStep) /\ SF_vars(Connect) /\ SF_vars(ConnAckTask)
    /\ WF_vars(BrokerStep)

Spec == Init /\ [][Next]_vars
FairSpec == Spec /\ Fairness

-----------------------------------------------------------------------------
(* Safety *)

\* `online` is never left standing for a dead connection: whenever it is the
\* retained availability, the connection is up or the broker still owes the
\* `offline` of the last will.
OnlineIsRetracted ==
    broker.availability = "online" => link = "up" \/ broker.willDue

\* Commands take effect in the order Home Assistant sent them and none is
\* skipped on its way through the session, the channel and the two places that
\* take commands: when one has been executed, so has every earlier one the
\* broker or a stopped process did not lose.
NoCommandOvertakes ==
    \A c \in executed : 1..c \subseteq executed \cup lost \cup Malformed

(* Liveness *)

\* The circular wait: the event-loop task waits for a slot of the command
\* channel, which only the main task frees, and the main task for a slot of the
\* request channel, which only the event-loop task frees.
WaitForEachOther ==
    /\ el = "forward" /\ Len(cmds) = CmdCap
    /\ main \in {"subscribe", "discovery", "online", "publish"} /\ Len(reqs) = ReqCap

\* On every connect, reconnects included, the agent's availability is restored:
\* an established connection ends up `online` unless it is lost again.
AvailabilityRestored ==
    link = "up" ~> (broker.availability = "online" \/ link # "up")

\* ... and the command topic ends up subscribed, also when the broker has
\* forgotten the session.
CommandsSubscribed ==
    link = "up" ~> (broker.subscribed \/ link # "up")

\* A command the broker kept for the agent is executed, however the
\* connection behaves, unless the agent stops or is in the circular wait.
CommandsExecuted ==
    \A c \in Commands :
        (sent >= c) ~> (c \in executed \cup lost \cup Malformed \/ ~Alive
                           \/ WaitForEachOther)

\* The discovery payload, sent once per start, reaches the broker over a connection
\* that lasts, but for the circular wait.
Discovered == link = "up" ~> (broker.discovered \/ link # "up" \/ WaitForEachOther)

\* A stop ends the main task, whatever it was doing when it was raised, a handler
\* and a publish that waits for a slot included; the exception is the circular
\* wait, in which it is never looked at.
StopHonoured == stop ~> (~Alive \/ WaitForEachOther)

\* ... and nothing but the end of the process gets out of that wait.
WaitIsForEver == [][WaitForEachOther => WaitForEachOther' \/ ~Alive']_vars
=============================================================================
