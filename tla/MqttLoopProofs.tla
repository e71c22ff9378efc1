--------------------------- MODULE MqttLoopProofs ---------------------------
(* Theorems about MqttLoop, for every capacity, every number of commands and *)
(* every number of connection losses, broker restarts and stops: types, that *)
(* `online` is retracted, and that commands take effect in the order Home    *)
(* Assistant sent them.                                                      *)
EXTENDS MqttLoop, SequenceTheorems, TLAPS

LEMMA InitTypeOK == Init => TypeOK
<1> SUFFICES ASSUME Init PROVE TypeOK
  OBVIOUS
<1>1. /\ \A S : <<>> \in Seq(S)
      /\ Len(<<>>) = 0
  OBVIOUS
<1>2. broker \in Broker
  BY DEF Init, Broker
<1>3. /\ 0 \in 0..MaxCommands /\ 0 \in 0..MaxPublishes
      /\ 0 \in 0..MaxDrops /\ 0 \in 0..MaxWipes /\ 0 \in 0..MaxStops
      /\ 0 <= ReqCap /\ 0 <= CmdCap
  BY CapacityAssumption, BoundAssumption
<1> QED
  BY <1>1, <1>2, <1>3 DEF Init, TypeOK

(* The queues: what is appended to, taken from and concatenated with one. *)

LEMMA TakeType ==
  ASSUME NEW S, NEW s \in Seq(S), s # <<>>
  PROVE  Head(s) \in S /\ Tail(s) \in Seq(S) /\ Len(Tail(s)) < Len(s)
  BY HeadTailProperties

\* Enqueue keeps the request channel within its capacity.
LEMMA EnqueueType ==
  ASSUME TypeOK, NEW r \in Request, Enqueue(r)
  PROVE  reqs' \in Seq(Request) /\ Len(reqs') <= ReqCap
  BY CapacityAssumption, AppendProperties DEF Enqueue, TypeOK

\* Acknowledging a publish keeps the rest.
LEMMA AckedType ==
  ASSUME NEW S, NEW s \in Seq(S)
  PROVE  SubSeq(s, 2, Len(s)) \in Seq(S)
  BY SubSeqProperties

\* What a request does at the broker leaves a broker.
LEMMA ServedType ==
  ASSUME broker \in Broker, NEW r
  PROVE  Served(r) \in Broker
  BY DEF Served, Broker

\* Losing the connection leaves a broker and a queue of commands.
LEMMA LoseConnectionType ==
  ASSUME TypeOK, LoseConnection
  PROVE  broker' \in Broker /\ queue' \in Seq(Commands) /\ unacked' \in Seq(Commands)
<1>1. broker' \in Broker
  BY DEF TypeOK, LoseConnection, Broker
<1>2. queue' \in Seq(Commands) /\ unacked' \in Seq(Commands)
  BY ConcatProperties DEF TypeOK, LoseConnection
<1> QED
  BY <1>1, <1>2

\* Whatever the process was doing when it ends, a dead process is well typed.
LEMMA EndProcessType ==
  ASSUME TypeOK, EndProcess, stops' \in 0..MaxStops
  PROVE  TypeOK'
<1>1. lost' \subseteq Commands
  <2>1. Range(cmds) \subseteq Commands
    BY RangeOfSeq DEF TypeOK
  <2>2. {forwarding, handling} \subseteq Commands \cup {NoCommand}
    BY DEF TypeOK
  <2>3. QED
    BY <2>1, <2>2 DEF EndProcess, TypeOK
<1>2. broker' \in Broker /\ queue' \in Seq(Commands) /\ unacked' \in Seq(Commands)
  BY LoseConnectionType DEF EndProcess
<1>3. /\ reqs' \in Seq(Request) /\ Len(reqs') <= ReqCap
      /\ cmds' \in Seq(Commands) /\ Len(cmds') <= CmdCap
      /\ pending' \in Seq(Request) /\ wire' \in Seq(Request)
      /\ outgoing' \in Seq(Request)
  BY CapacityAssumption DEF EndProcess
<1>4. QED
  BY <1>1, <1>2, <1>3 DEF TypeOK, EndProcess

LEMMA NextTypeOK == TypeOK /\ [Next]_vars => TypeOK'
<1> SUFFICES ASSUME TypeOK, [Next]_vars PROVE TypeOK'
  OBVIOUS
<1> USE CapacityAssumption, BoundAssumption
<1>1. CASE WaitConnected
  BY <1>1 DEF TypeOK, WaitConnected, elVars, chanVars, netVars, boundVars
<1>2. ASSUME NEW r \in Request, NEW n \in {"discovery", "online", "select"},
             Announce(r, n)
      PROVE  TypeOK'
  <2>1. Enqueue(r)
    BY <1>2 DEF Announce
  <2>2. reqs' \in Seq(Request) /\ Len(reqs') <= ReqCap
    BY <2>1, EnqueueType
  <2>3. /\ main' \in {"discovery", "online", "select"} /\ handling = NoCommand
        /\ UNCHANGED <<handling, stop, elVars, cmds, pending, wire, outgoing,
                       netVars, sent, executed, lost, published, boundVars>>
    BY <1>2 DEF Announce, TypeOK, Request
  <2>4. QED
    BY <2>2, <2>3 DEF TypeOK, elVars, netVars, boundVars
<1>3. CASE Tick
  BY <1>3 DEF TypeOK, Tick, elVars, chanVars, netVars, boundVars
<1>4. CASE PublishState
  <2>1. reqs' \in Seq(Request) /\ Len(reqs') <= ReqCap
    BY <1>4, EnqueueType DEF PublishState, Request
  <2>2. QED
    BY <1>4, <2>1 DEF TypeOK, PublishState, elVars, netVars, boundVars
<1>5. ASSUME NEW at, NEW n \in {"handle", "drain_handle"}, TakeCommand(at, n)
      PROVE  TypeOK'
  <2>1. /\ handling' \in Commands
        /\ cmds' \in Seq(Commands) /\ Len(cmds') <= CmdCap
    BY <1>5, TakeType DEF TakeCommand, TypeOK
  <2>2. QED
    BY <1>5, <2>1 DEF TypeOK, TakeCommand, elVars, netVars, boundVars
<1>6. CASE DrainDone
  BY <1>6 DEF TypeOK, DrainDone, elVars, chanVars, netVars, boundVars
<1>7. CASE CommandHandled
  BY <1>7
  DEF TypeOK, CommandHandled, elVars, chanVars, netVars, boundVars
<1>8. CASE Exit \/ Kill
  <2>1. EndProcess
    BY <1>8 DEF Exit, Kill
  <2>2. stops' \in 0..MaxStops
    BY <1>8 DEF Exit, Kill, TypeOK
  <2>3. QED
    BY <2>1, <2>2, EndProcessType
<1>9. CASE PollError
  <2>1. /\ reqs' \in Seq(Request) /\ Len(reqs') <= ReqCap
        /\ pending' \in Seq(Request) /\ wire' \in Seq(Request)
        /\ outgoing' \in Seq(Request)
    <3>1. pending \o outgoing \in Seq(Request)
      BY ConcatProperties DEF TypeOK
    <3>2. (pending \o outgoing) \o reqs \in Seq(Request)
      BY <3>1, ConcatProperties DEF TypeOK
    <3>3. CASE link = "broken"
      <4>1. /\ pending' = (pending \o outgoing) \o reqs
            /\ reqs' = <<>> /\ wire' = <<>> /\ outgoing' = <<>>
        BY <1>9, <3>3 DEF PollError
      <4>2. QED
        BY <3>2, <4>1
    <3>4. CASE link # "broken"
      BY <1>9, <3>4 DEF PollError, TypeOK
    <3>5. QED
      BY <3>3, <3>4
  <2>2. QED
    BY <1>9, <2>1 DEF TypeOK, PollError, mainVars, boundVars
<1>10. CASE Wake
  BY <1>10 DEF TypeOK, Wake, mainVars, chanVars, netVars, boundVars
<1>11. CASE SendRequest
  <2>1. /\ reqs' \in Seq(Request) /\ Len(reqs') <= ReqCap
        /\ pending' \in Seq(Request)
        /\ \E r \in Request : Write(r)
    <3>1. CASE pending # <<>>
      <4>1. /\ Head(pending) \in Request /\ Tail(pending) \in Seq(Request)
        BY <3>1, TakeType DEF TypeOK
      <4>2. Write(Head(pending)) /\ pending' = Tail(pending) /\ reqs' = reqs
        BY <1>11, <3>1 DEF SendRequest
      <4>3. QED
        BY <4>1, <4>2 DEF TypeOK
    <3>2. CASE pending = <<>>
      <4>1. reqs # <<>> /\ Write(Head(reqs)) /\ reqs' = Tail(reqs)
            /\ pending' = pending
        BY <1>11, <3>2 DEF SendRequest
      <4>2. /\ Head(reqs) \in Request /\ Tail(reqs) \in Seq(Request)
            /\ Len(Tail(reqs)) <= ReqCap
        BY <4>1, TakeType DEF TypeOK
      <4>3. QED
        BY <4>1, <4>2 DEF TypeOK
    <3>3. QED
      BY <3>1, <3>2
  <2>2. wire' \in Seq(Request) /\ outgoing' \in Seq(Request)
    BY <2>1, AppendProperties DEF Write, TypeOK
  <2>3. QED
    BY <1>11, <2>1, <2>2
    DEF TypeOK, SendRequest, mainVars, elVars, netVars, boundVars
<1>12. CASE ReadCommand
  <2>1. /\ Head(queue) \in Commands
        /\ queue' \in Seq(Commands) /\ unacked' \in Seq(Commands)
    BY <1>12, TakeType, AppendProperties DEF ReadCommand, TypeOK
  <2>2. QED
    BY <1>12, <2>1 DEF TypeOK, ReadCommand, mainVars, chanVars, boundVars
<1>13. CASE ForwardCommand
  <2>1. cmds' \in Seq(Commands) /\ Len(cmds') <= CmdCap
    BY <1>13, AppendProperties DEF ForwardCommand, TypeOK
  <2>2. QED
    BY <1>13, <2>1
    DEF TypeOK, ForwardCommand, mainVars, netVars, boundVars
<1>14. CASE Connect
  <2>1. broker' \in Broker
    BY <1>14 DEF Connect, TypeOK, Broker
  <2>2. pending' \in Seq(Request)
    BY <1>14 DEF Connect, TypeOK
  <2>3. respawned' \in [{"subscribe", "online"} -> Nat]
    <3>1. respawned \in [{"subscribe", "online"} -> Nat]
      BY DEF TypeOK
    <3>2. respawned' = [respawned EXCEPT !["subscribe"] = @ + 1]
      BY <1>14 DEF Connect
    <3>3. QED
      BY <3>1, <3>2
  <2>4. QED
    BY <1>14, <2>1, <2>2, <2>3 DEF TypeOK, Connect, mainVars, boundVars
<1>15. CASE ConnAckTask
  <2>1. reqs' \in Seq(Request) /\ Len(reqs') <= ReqCap
    BY <1>15, EnqueueType DEF ConnAckTask, Resubscribe, RepublishOnline, Request
  <2>2. respawned' \in [{"subscribe", "online"} -> Nat]
    <3>1. respawned \in [{"subscribe", "online"} -> Nat]
      BY DEF TypeOK
    <3>2. CASE Resubscribe
      <4>1. /\ respawned["subscribe"] > 0
            /\ respawned' = [respawned EXCEPT !["subscribe"] = @ - 1,
                                             !["online"] = @ + 1]
        BY <3>2 DEF Resubscribe
      <4>2. QED
        BY <3>1, <4>1
    <3>3. CASE RepublishOnline
      <4>1. /\ respawned["online"] > 0
            /\ respawned' = [respawned EXCEPT !["online"] = @ - 1]
        BY <3>3 DEF RepublishOnline
      <4>2. QED
        BY <3>1, <4>1
    <3>4. QED
      BY <1>15, <3>2, <3>3 DEF ConnAckTask
  <2>3. QED
    BY <1>15, <2>1, <2>2
    DEF TypeOK, ConnAckTask, Resubscribe, RepublishOnline, mainVars, netVars,
        boundVars
<1>16. CASE BrokerServes
  <2>1. broker' \in Broker
    BY <1>16, ServedType DEF BrokerServes, TypeOK
  <2>2. wire' \in Seq(Request) /\ outgoing' \in Seq(Request)
    BY <1>16, TakeType, AckedType DEF BrokerServes, TypeOK
  <2>3. QED
    BY <1>16, <2>1, <2>2 DEF TypeOK, BrokerServes, mainVars, elVars, boundVars
<1>17. CASE FireWill
  <2>1. broker' \in Broker
    BY <1>17 DEF FireWill, TypeOK, Broker
  <2>2. QED
    BY <1>17, <2>1 DEF TypeOK, FireWill, mainVars, elVars, chanVars, boundVars
<1>18. CASE RaiseStop
  BY <1>18 DEF TypeOK, RaiseStop, mainVars, elVars, chanVars, netVars
<1>19. CASE Start
  BY <1>19 DEF TypeOK, Start, Alive, elVars, chanVars, netVars, boundVars
<1>20. CASE BrokerAcked
  <2>1. unacked' \in Seq(Commands)
    BY <1>20, TakeType DEF BrokerAcked, TypeOK
  <2>2. QED
    BY <1>20, <2>1 DEF TypeOK, BrokerAcked, mainVars, elVars, chanVars, boundVars
<1>21. CASE SendCommand
  <2>1. sent + 1 \in Commands /\ sent' \in 0..MaxCommands
    BY <1>21 DEF SendCommand, TypeOK, Commands
  <2>2. queue' \in Seq(Commands) /\ lost' \subseteq Commands
    <3>1. Append(queue, sent + 1) \in Seq(Commands)
      BY <2>1, AppendProperties DEF TypeOK
    <3>2. QED
      BY <1>21, <2>1, <3>1 DEF SendCommand, TypeOK
  <2>3. QED
    BY <1>21, <2>1, <2>2
    DEF TypeOK, SendCommand, mainVars, elVars, chanVars, boundVars
<1>22. CASE DropConnection
  <2>1. broker' \in Broker /\ queue' \in Seq(Commands) /\ unacked' \in Seq(Commands)
    BY <1>22, LoseConnectionType DEF DropConnection
  <2>2. drops' \in 0..MaxDrops /\ link' \in {"up", "broken", "down"}
    BY <1>22 DEF DropConnection, TypeOK
  <2>3. QED
    BY <1>22, <2>1, <2>2 DEF TypeOK, DropConnection, mainVars, elVars, chanVars
<1>23. CASE WipeBroker
  <2>1. lost' \subseteq Commands
    BY <1>23, RangeOfSeq DEF WipeBroker, TypeOK
  <2>2. /\ broker' \in Broker /\ queue' \in Seq(Commands)
        /\ unacked' \in Seq(Commands) /\ wipes' \in 0..MaxWipes
        /\ link' \in {"up", "broken", "down"}
    BY <1>23 DEF WipeBroker, TypeOK, Broker
  <2>3. QED
    BY <1>23, <2>1, <2>2 DEF TypeOK, WipeBroker, mainVars, elVars, chanVars
<1>24. CASE UNCHANGED vars
  BY <1>24
  DEF TypeOK, vars, mainVars, elVars, chanVars, netVars, boundVars
<1>25. AnnounceStep => TypeOK'
  BY <1>2 DEF AnnounceStep, Request
<1>26. SelectCommand \/ DrainCommand => TypeOK'
  BY <1>5 DEF SelectCommand, DrainCommand
<1>27. QED
  BY <1>1, <1>3, <1>4, <1>6, <1>7, <1>8, <1>9, <1>10, <1>11, <1>12, <1>13,
     <1>14, <1>15, <1>16, <1>17, <1>18, <1>19, <1>20, <1>21, <1>22, <1>23,
     <1>24, <1>25, <1>26
  DEF Next, MainStep, EventLoopStep, BrokerStep, Environment

\* Every variable stays in its range; in particular neither channel ever holds
\* more than its capacity, and a command is in the hands of the main task or of
\* the event-loop task exactly while that task is at the step that holds it.
THEOREM TypeCorrect == Spec => []TypeOK
  BY InitTypeOK, NextTypeOK, PTL DEF Spec

\* An `online` that the broker retains is always backed by a connection, or by
\* a last will the broker has still to publish: no interleaving of losses,
\* reconnects, retransmissions, broker restarts and stops leaves it standing.
THEOREM OnlineRetracted == Spec => []OnlineIsRetracted
<1>1. Init => OnlineIsRetracted
  BY DEF Init, OnlineIsRetracted
<1>2. TypeOK /\ OnlineIsRetracted /\ [Next]_vars => OnlineIsRetracted'
  <2> SUFFICES ASSUME TypeOK, OnlineIsRetracted, [Next]_vars
               PROVE  OnlineIsRetracted'
    OBVIOUS
  <2>1. CASE UNCHANGED <<broker, link>>
    BY <2>1 DEF OnlineIsRetracted
  <2>2. CASE Connect
    BY <2>2 DEF Connect, OnlineIsRetracted
  <2>3. CASE PollError
    BY <2>3 DEF PollError, OnlineIsRetracted
  <2>4. CASE BrokerServes
    BY <2>4 DEF BrokerServes, OnlineIsRetracted
  <2>5. CASE FireWill
    BY <2>5 DEF FireWill, OnlineIsRetracted, TypeOK, Broker
  <2>6. CASE Exit \/ Kill \/ DropConnection
    BY <2>6
    DEF Exit, Kill, EndProcess, DropConnection, LoseConnection, OnlineIsRetracted, TypeOK, Broker
  <2>7. CASE WipeBroker
    BY <2>7 DEF WipeBroker, OnlineIsRetracted
  <2>8. CASE WaitConnected \/ AnnounceStep \/ Tick \/ PublishState
    BY <2>1, <2>8
    DEF WaitConnected, AnnounceStep, Announce, Tick, PublishState, netVars
  <2>9. CASE SelectCommand \/ DrainCommand \/ DrainDone \/ CommandHandled
    BY <2>1, <2>9
    DEF SelectCommand, DrainCommand, TakeCommand, DrainDone, CommandHandled, netVars
  <2>10. CASE Wake \/ SendRequest \/ ReadCommand \/ ForwardCommand \/ ConnAckTask
    BY <2>1, <2>10
    DEF Wake, SendRequest, ReadCommand, ForwardCommand, ConnAckTask, Resubscribe,
        RepublishOnline, netVars
  <2>11. CASE RaiseStop \/ Start \/ BrokerAcked \/ SendCommand
    BY <2>1, <2>11
    DEF RaiseStop, Start, BrokerAcked, SendCommand, netVars
  <2>12. CASE UNCHANGED vars
    BY <2>1, <2>12 DEF vars, netVars
  <2>13. QED
    BY <2>2, <2>3, <2>4, <2>5, <2>6, <2>7, <2>8, <2>9, <2>10, <2>11, <2>12
    DEF Next, MainStep, EventLoopStep, BrokerStep, Environment
<1>3. QED
  BY <1>1, <1>2, TypeCorrect, PTL DEF Spec

-----------------------------------------------------------------------------
(* The order of commands: the inductive invariant OrderInvariant, action by  *)
(* action, and NoCommandOvertakes.                                           *)

\* Why the order holds, as an inductive invariant (with TypeOK).  A command is
\* settled, in the process (handling, cmds, forwarding, in this order), or in the
\* session (unacked, queue); a command of the session may be in the process too,
\* when a lost connection has queued it again.
Settled   == executed \cup lost \cup Malformed
InProcess == {handling, forwarding} \cup Range(cmds)

SessionOrdered ==
    /\ \A i, j \in 1..Len(queue) : i < j => queue[i] < queue[j]
    /\ \A i, j \in 1..Len(unacked) : i < j => unacked[i] < unacked[j]
    /\ \A i \in 1..Len(unacked) : \A j \in 1..Len(queue) : unacked[i] < queue[j]
    /\ \A i \in 1..Len(queue) : queue[i] <= sent
    /\ \A i \in 1..Len(unacked) : unacked[i] <= sent

NothingForgotten ==
    /\ 1..sent \subseteq Settled \cup InProcess \cup Range(unacked) \cup Range(queue)
    /\ Range(unacked) \subseteq Settled \cup InProcess

ProcessOrdered ==
    /\ \A d \in Commands : d < handling => d \in Settled
    /\ \A i \in 1..Len(cmds) : \A d \in Commands : d < cmds[i] =>
           d \in Settled \cup {handling} \/ \E j \in 1..i - 1 : cmds[j] = d
    /\ \A d \in Commands : d < forwarding =>
           d \in Settled \cup {handling} \cup Range(cmds)

OrderInvariant ==
    SessionOrdered /\ NothingForgotten /\ ProcessOrdered /\ NoCommandOvertakes

(* What the queues hold. *)

LEMMA RangeTail ==
  ASSUME NEW S, NEW s \in Seq(S), s # <<>>
  PROVE  /\ Len(s) >= 1 /\ s[1] = Head(s)
         /\ Range(s) = {Head(s)} \cup Range(Tail(s))
<1>1. /\ Tail(s) \in Seq(S) /\ Len(Tail(s)) = Len(s) - 1 /\ Len(s) \in Nat
      /\ \A i \in 1..Len(Tail(s)) : Tail(s)[i] = s[i + 1]
  BY HeadTailProperties, LenProperties
<1>2. Len(s) >= 1 /\ s[1] = Head(s)
  BY <1>1, EmptySeq
<1>3. Range(s) = {s[i] : i \in 1..Len(s)}
  BY RangeEquality
<1>4. Range(Tail(s)) = {Tail(s)[i] : i \in 1..Len(Tail(s))}
  BY <1>1, RangeEquality
<1>5. ASSUME NEW x \in Range(s) PROVE x \in {Head(s)} \cup Range(Tail(s))
  <2>1. PICK i \in 1..Len(s) : x = s[i]
    BY <1>3
  <2>2. CASE i = 1
    BY <2>1, <2>2, <1>2
  <2>3. CASE i # 1
    <3>1. i - 1 \in 1..Len(Tail(s)) /\ Tail(s)[i - 1] = s[i]
      BY <2>3, <1>1
    <3>2. QED
      BY <3>1, <2>1, <1>4
  <2>4. QED
    BY <2>2, <2>3
<1>6. ASSUME NEW x \in Range(Tail(s)) PROVE x \in Range(s)
  <2>1. PICK i \in 1..Len(Tail(s)) : x = Tail(s)[i]
    BY <1>4
  <2>2. i + 1 \in 1..Len(s) /\ x = s[i + 1]
    BY <2>1, <1>1
  <2>3. QED
    BY <2>2, <1>3
<1>7. Head(s) \in Range(s)
  BY <1>2, <1>3
<1>8. QED
  BY <1>2, <1>5, <1>6, <1>7

LEMMA RangeAppend ==
  ASSUME NEW S, NEW s \in Seq(S), NEW e \in S
  PROVE  Range(Append(s, e)) = Range(s) \cup {e}
<1>1. /\ Append(s, e) \in Seq(S) /\ Len(Append(s, e)) = Len(s) + 1
      /\ Len(s) \in Nat
      /\ \A i \in 1..Len(s) : Append(s, e)[i] = s[i]
      /\ Append(s, e)[Len(s) + 1] = e
  BY AppendProperties, LenProperties
<1>2. /\ Range(s) = {s[i] : i \in 1..Len(s)}
      /\ Range(Append(s, e)) = {Append(s, e)[i] : i \in 1..Len(s) + 1}
  BY <1>1, RangeEquality
<1>3. 1..Len(s) + 1 = 1..Len(s) \cup {Len(s) + 1}
  BY <1>1
<1>4. QED
  BY <1>1, <1>2, <1>3

LEMMA RangeEmpty == Range(<<>>) = {}
<1>1. DOMAIN <<>> = {}
  OBVIOUS
<1>2. QED
  BY <1>1, Zenon DEF Range

LEMMA QueueFacts ==
  ASSUME NEW s \in Seq(Commands), s # <<>>
  PROVE  /\ Len(s) \in Nat /\ Len(s) >= 1 /\ s[1] = Head(s) /\ Head(s) \in Commands
         /\ Tail(s) \in Seq(Commands) /\ Len(Tail(s)) = Len(s) - 1
         /\ \A i \in 1..Len(Tail(s)) : Tail(s)[i] = s[i + 1]
         /\ Range(s) = {Head(s)} \cup Range(Tail(s))
<1>1. /\ Head(s) \in Commands
      /\ Tail(s) \in Seq(Commands) /\ Len(Tail(s)) = Len(s) - 1
      /\ \A i \in 1..Len(Tail(s)) : Tail(s)[i] = s[i + 1]
  BY HeadTailProperties
<1>2. Len(s) \in Nat
  BY LenProperties
<1>3. QED
  BY <1>1, <1>2, RangeTail

LEMMA AppendFacts ==
  ASSUME NEW s \in Seq(Commands), NEW e \in Commands
  PROVE  /\ Len(s) \in Nat /\ Len(Append(s, e)) = Len(s) + 1
         /\ \A i \in 1..Len(s) : Append(s, e)[i] = s[i]
         /\ Append(s, e)[Len(s) + 1] = e
         /\ Range(Append(s, e)) = Range(s) \cup {e}
<1>1. Len(s) \in Nat
  BY LenProperties
<1>2. Range(Append(s, e)) = Range(s) \cup {e}
  BY RangeAppend
<1>3. QED
  BY <1>1, <1>2, AppendProperties

LEMMA CommandValues ==
  /\ Commands \subseteq Nat /\ NoCommand = 0
  /\ NoCommand \notin Commands
  /\ \A c \in Commands : c >= 1 /\ 1..c \subseteq Commands
  /\ \A n \in 0..MaxCommands : 1..n \subseteq Commands
  BY BoundAssumption DEF Commands, NoCommand

\* The elements of a queue of commands are numbers.
LEMMA QueueValues ==
  ASSUME NEW s \in Seq(Commands)
  PROVE  /\ \A i \in 1..Len(s) : s[i] \in Nat
         /\ NoCommand \notin Range(s)
<1>1. \A i \in 1..Len(s) : s[i] \in Commands
  BY ElementOfSeq
<1>2. Range(s) \subseteq Commands
  BY RangeOfSeq
<1>3. QED
  BY <1>1, <1>2, CommandValues

(* The variables the invariant speaks of, and the steps that leave them. *)
orderVars == <<handling, cmds, forwarding, queue, unacked, sent, executed, lost>>

LEMMA OrderUntouched ==
  ASSUME OrderInvariant, UNCHANGED orderVars
  PROVE  OrderInvariant'
  BY DEF OrderInvariant, SessionOrdered, NothingForgotten, ProcessOrdered,
         NoCommandOvertakes, Settled, InProcess, orderVars

LEMMA OrderInit == Init => OrderInvariant
  BY RangeEmpty, BoundAssumption
  DEF Init, OrderInvariant, SessionOrdered, NothingForgotten, ProcessOrdered,
      NoCommandOvertakes, Settled, InProcess, Commands, NoCommand

(* The process: taking, executing and forwarding a command. *)

\* The oldest command of the channel becomes the one that is executed.
LEMMA TakeOrder ==
  ASSUME TypeOK, OrderInvariant, NEW at \in {"select", "drain"}, NEW next,
         TakeCommand(at, next)
  PROVE  OrderInvariant'
<1> USE CommandValues
<1>1. /\ handling = NoCommand /\ cmds \in Seq(Commands) /\ cmds # <<>>
      /\ handling' = Head(cmds) /\ cmds' = Tail(cmds)
      /\ UNCHANGED <<forwarding, queue, unacked, sent, executed, lost>>
  BY DEF TypeOK, TakeCommand, elVars, netVars
<1>2. /\ Len(cmds) \in Nat /\ Len(cmds) >= 1 /\ cmds[1] = Head(cmds)
      /\ Range(cmds) = {handling'} \cup Range(cmds')
      /\ Len(cmds') = Len(cmds) - 1
      /\ \A i \in 1..Len(cmds') : cmds'[i] = cmds[i + 1]
  BY <1>1, RangeTail, HeadTailProperties, LenProperties
<1>3. Settled' = Settled
  BY <1>1 DEF Settled
<1>4. SessionOrdered' /\ NoCommandOvertakes'
  BY <1>1 DEF OrderInvariant, SessionOrdered, NoCommandOvertakes
<1>5. NothingForgotten'
  <2>1. InProcess \ {NoCommand} \subseteq InProcess'
    BY <1>1, <1>2 DEF InProcess
  <2>2. NoCommand \notin Range(unacked) /\ NoCommand \notin 1..sent
    <3>1. unacked \in Seq(Commands) /\ sent \in 0..MaxCommands
      BY DEF TypeOK
    <3>2. QED
      BY <3>1, QueueValues
  <2>3. QED
    BY <1>1, <1>3, <2>1, <2>2 DEF OrderInvariant, NothingForgotten
<1>6. ProcessOrdered'
  <2>1. ASSUME NEW d \in Commands, d < handling' PROVE d \in Settled'
    BY <1>1, <1>2, <1>3, <2>1 DEF OrderInvariant, ProcessOrdered
  <2>2. ASSUME NEW i \in 1..Len(cmds'), NEW d \in Commands, d < cmds'[i]
        PROVE  d \in Settled' \cup {handling'} \/ \E j \in 1..i - 1 : cmds'[j] = d
    <3>1. i + 1 \in 1..Len(cmds) /\ d < cmds[i + 1]
      BY <1>2, <2>2
    <3>2. d \in Settled \cup {handling} \/ \E j \in 1..(i + 1) - 1 : cmds[j] = d
      BY <3>1 DEF OrderInvariant, ProcessOrdered
    <3>3. CASE d \in Settled \cup {handling}
      BY <1>1, <1>3, <3>3
    <3>4. CASE \E j \in 1..i : cmds[j] = d
      <4>1. PICK j \in 1..i : cmds[j] = d
        BY <3>4
      <4>2. CASE j = 1
        BY <1>1, <1>2, <4>1, <4>2
      <4>3. CASE j # 1
        <5>1. j - 1 \in 1..i - 1 /\ j - 1 \in 1..Len(cmds')
          BY <4>3
        <5>2. cmds'[j - 1] = d
          BY <1>2, <4>1, <5>1
        <5>3. QED
          BY <5>1, <5>2
      <4>4. QED
        BY <4>2, <4>3
    <3>5. QED
      BY <3>2, <3>3, <3>4
  <2>3. ASSUME NEW d \in Commands, d < forwarding'
        PROVE  d \in Settled' \cup {handling'} \cup Range(cmds')
    BY <1>1, <1>2, <1>3, <2>3 DEF OrderInvariant, ProcessOrdered
  <2>4. QED
    BY <2>1, <2>2, <2>3 DEF ProcessOrdered
<1>7. QED
  BY <1>4, <1>5, <1>6 DEF OrderInvariant

\* Everything before the command that has just been executed was settled.
LEMMA HandledOrder ==
  ASSUME TypeOK, OrderInvariant, CommandHandled
  PROVE  OrderInvariant'
<1> USE CommandValues
<1>1. /\ handling \in Commands /\ handling' = NoCommand
      /\ executed' = executed \cup {handling}
      /\ UNCHANGED <<cmds, forwarding, queue, unacked, sent, lost>>
  BY DEF TypeOK, CommandHandled, elVars, chanVars, netVars
<1>2. Settled' = Settled \cup {handling}
  BY <1>1 DEF Settled
<1>3. SessionOrdered'
  BY <1>1 DEF OrderInvariant, SessionOrdered
<1>4. NothingForgotten'
  BY <1>1, <1>2 DEF OrderInvariant, NothingForgotten, InProcess
<1>5. ProcessOrdered'
  BY <1>1, <1>2 DEF OrderInvariant, ProcessOrdered
<1>6. NoCommandOvertakes'
  <2>1. 1..handling \subseteq Settled'
    BY <1>1, <1>2, BoundAssumption DEF OrderInvariant, ProcessOrdered
  <2>2. \A c \in executed : 1..c \subseteq Settled'
    BY <1>2 DEF OrderInvariant, NoCommandOvertakes, Settled
  <2>3. QED
    BY <1>1, <2>1, <2>2 DEF NoCommandOvertakes, Settled
<1>7. QED
  BY <1>3, <1>4, <1>5, <1>6 DEF OrderInvariant

\* The command the event-loop task holds goes behind the ones in the channel.
LEMMA ForwardOrder ==
  ASSUME TypeOK, OrderInvariant, ForwardCommand
  PROVE  OrderInvariant'
<1> USE CommandValues
<1>1. /\ forwarding \in Commands /\ cmds \in Seq(Commands)
      /\ cmds' = Append(cmds, forwarding) /\ forwarding' = NoCommand
      /\ UNCHANGED <<handling, queue, unacked, sent, executed, lost>>
  BY DEF TypeOK, ForwardCommand, mainVars, netVars
<1>2. /\ Len(cmds) \in Nat /\ Len(cmds') = Len(cmds) + 1
      /\ \A i \in 1..Len(cmds) : cmds'[i] = cmds[i]
      /\ cmds'[Len(cmds) + 1] = forwarding
      /\ Range(cmds') = Range(cmds) \cup {forwarding}
  BY <1>1, AppendFacts
<1>3. Settled' = Settled
  BY <1>1 DEF Settled
<1>4. SessionOrdered' /\ NoCommandOvertakes'
  BY <1>1 DEF OrderInvariant, SessionOrdered, NoCommandOvertakes
<1>5. NothingForgotten'
  BY <1>1, <1>2, <1>3 DEF OrderInvariant, NothingForgotten, InProcess
<1>6. ProcessOrdered'
  <2>1. ASSUME NEW d \in Commands, d < handling' PROVE d \in Settled'
    BY <1>1, <1>3, <2>1 DEF OrderInvariant, ProcessOrdered
  <2>2. ASSUME NEW i \in 1..Len(cmds'), NEW d \in Commands, d < cmds'[i]
        PROVE  d \in Settled' \cup {handling'} \/ \E j \in 1..i - 1 : cmds'[j] = d
    <3>1. CASE i \in 1..Len(cmds)
      <4>1. d \in Settled \cup {handling} \/ \E j \in 1..i - 1 : cmds[j] = d
        BY <1>2, <2>2, <3>1 DEF OrderInvariant, ProcessOrdered
      <4>2. \A j \in 1..i - 1 : cmds'[j] = cmds[j]
        BY <1>2, <3>1
      <4>3. QED
        BY <1>1, <1>3, <4>1, <4>2
    <3>2. CASE i = Len(cmds) + 1
      <4>1. d \in Settled \cup {handling} \cup Range(cmds)
        BY <1>2, <2>2, <3>2 DEF OrderInvariant, ProcessOrdered
      <4>2. Range(cmds) = {cmds[j] : j \in 1..Len(cmds)}
        BY <1>1, RangeEquality
      <4>3. i - 1 = Len(cmds)
        BY <1>2, <3>2
      <4>4. QED
        BY <1>1, <1>2, <1>3, <4>1, <4>2, <4>3
    <3>3. QED
      BY <1>2, <3>1, <3>2
  <2>3. ASSUME NEW d \in Commands, d < forwarding' PROVE FALSE
    BY <1>1, <2>3
  <2>4. QED
    BY <2>1, <2>2, <2>3 DEF ProcessOrdered
<1>7. QED
  BY <1>4, <1>5, <1>6 DEF OrderInvariant

(* The session: reading, acknowledging, sending and losing commands. *)

\* The head of the queue is read: everything before it is settled or is in the
\* process already, because the queue and what is unacknowledged are in order.
LEMMA ReadOrder ==
  ASSUME TypeOK, OrderInvariant, ReadCommand
  PROVE  OrderInvariant'
<1> USE CommandValues
<1>a. /\ queue \in Seq(Commands) /\ unacked \in Seq(Commands) /\ queue # <<>>
      /\ forwarding = NoCommand /\ sent \in 0..MaxCommands
  BY DEF TypeOK, ReadCommand
<1>b. PICK c \in Commands : c = Head(queue)
  BY <1>a, QueueFacts
<1>1. /\ queue' = Tail(queue) /\ unacked' = Append(unacked, c)
      /\ \/ c \in Malformed /\ forwarding' = forwarding
         \/ c \notin Malformed /\ forwarding' = c
      /\ UNCHANGED <<handling, cmds, sent, executed, lost>>
  BY <1>b DEF ReadCommand, mainVars, chanVars
<1>2. /\ Len(queue) \in Nat /\ Len(queue) >= 1 /\ queue[1] = c
      /\ Len(queue') = Len(queue) - 1
      /\ \A i \in 1..Len(queue') : queue'[i] = queue[i + 1]
      /\ Range(queue) = {c} \cup Range(queue')
  BY <1>a, <1>b, <1>1, QueueFacts
<1>3. /\ Len(unacked) \in Nat /\ Len(unacked') = Len(unacked) + 1
      /\ \A i \in 1..Len(unacked) : unacked'[i] = unacked[i]
      /\ unacked'[Len(unacked) + 1] = c
      /\ Range(unacked') = Range(unacked) \cup {c}
  BY <1>a, <1>1, AppendFacts
<1>4. Settled' = Settled
  BY <1>1 DEF Settled
<1>5. SessionOrdered'
  BY <1>1, <1>2, <1>3 DEF OrderInvariant, SessionOrdered
<1>6. c \in Settled' \cup InProcess' /\ InProcess \subseteq InProcess' \cup {NoCommand}
  BY <1>a, <1>1, <1>4 DEF Settled, InProcess
<1>7. NothingForgotten'
  <2>1. NoCommand \notin Range(unacked) /\ NoCommand \notin 1..sent
    BY <1>a, QueueValues
  <2>2. QED
    BY <1>1, <1>2, <1>3, <1>4, <1>6, <2>1 DEF OrderInvariant, NothingForgotten
<1>8. ProcessOrdered'
  <2>1. ASSUME NEW d \in Commands, d < forwarding'
        PROVE  d \in Settled' \cup {handling'} \cup Range(cmds')
    <3>1. forwarding' = c /\ c <= sent /\ d \in 1..sent
      <4>1. forwarding' = c
        BY <1>a, <1>1, <2>1
      <4>2. 1 \in 1..Len(queue)
        BY <1>2
      <4>3. queue[1] <= sent
        BY <4>2 DEF OrderInvariant, SessionOrdered
      <4>4. QED
        BY <1>a, <1>2, <2>1, <4>1, <4>3
    <3>2. d \notin Range(queue)
      <4>1. Range(queue) = {queue[i] : i \in 1..Len(queue)}
        BY <1>a, RangeEquality
      <4>2. \A i \in 1..Len(queue) : i # 1 => queue[1] < queue[i]
        BY <1>2 DEF OrderInvariant, SessionOrdered
      <4>3. ASSUME NEW i \in 1..Len(queue), queue[i] = d PROVE FALSE
        <5>1. queue[1] = c /\ d < c
          BY <1>2, <2>1, <3>1
        <5>2. i = 1 \/ c < d
          BY <4>2, <4>3, <5>1
        <5>3. QED
          BY <4>3, <5>1, <5>2
      <4>4. QED
        BY <4>1, <4>3
    <3>3. d \in Settled \cup InProcess
      BY <3>1, <3>2 DEF OrderInvariant, NothingForgotten
    <3>4. QED
      BY <1>a, <1>1, <1>4, <3>3 DEF InProcess
  <2>2. QED
    BY <1>1, <1>4, <2>1 DEF OrderInvariant, ProcessOrdered
<1>9. QED
  BY <1>1, <1>5, <1>7, <1>8 DEF OrderInvariant, NoCommandOvertakes

LEMMA AckOrder ==
  ASSUME TypeOK, OrderInvariant, BrokerAcked
  PROVE  OrderInvariant'
<1>1. /\ unacked \in Seq(Commands) /\ unacked # <<>> /\ unacked' = Tail(unacked)
      /\ UNCHANGED <<handling, cmds, forwarding, queue, sent, executed, lost>>
  BY DEF TypeOK, BrokerAcked, mainVars, elVars, chanVars
<1>2. /\ Len(unacked) \in Nat /\ Len(unacked') = Len(unacked) - 1
      /\ \A i \in 1..Len(unacked') : unacked'[i] = unacked[i + 1]
      /\ Range(unacked) = {Head(unacked)} \cup Range(unacked')
  BY <1>1, QueueFacts
<1>3. Settled' = Settled /\ InProcess' = InProcess
  BY <1>1 DEF Settled, InProcess
<1>4. SessionOrdered'
  BY <1>1, <1>2 DEF OrderInvariant, SessionOrdered
<1>5. NothingForgotten'
  BY <1>1, <1>2, <1>3 DEF OrderInvariant, NothingForgotten
<1>6. ProcessOrdered' /\ NoCommandOvertakes'
  BY <1>1, <1>3 DEF OrderInvariant, ProcessOrdered, NoCommandOvertakes
<1>7. QED
  BY <1>4, <1>5, <1>6 DEF OrderInvariant

LEMMA SendOrder ==
  ASSUME TypeOK, OrderInvariant, SendCommand
  PROVE  OrderInvariant'
<1> USE CommandValues
<1>1. /\ queue \in Seq(Commands) /\ unacked \in Seq(Commands)
      /\ sent \in Nat /\ sent + 1 \in Commands
      /\ sent' = sent + 1
      /\ UNCHANGED <<handling, cmds, forwarding, unacked, executed>>
  BY BoundAssumption DEF TypeOK, SendCommand, Commands, mainVars, elVars, chanVars
<1>2. 1..sent' = 1..sent \cup {sent + 1} /\ InProcess' = InProcess
  BY <1>1 DEF InProcess
<1>3. CASE broker.subscribed
  <2>1. queue' = Append(queue, sent + 1) /\ lost' = lost /\ Settled' = Settled
    BY <1>1, <1>3 DEF SendCommand, Settled
  <2>2. /\ Len(queue) \in Nat /\ Len(queue') = Len(queue) + 1
        /\ \A i \in 1..Len(queue) : queue'[i] = queue[i]
        /\ queue'[Len(queue) + 1] = sent + 1
        /\ Range(queue') = Range(queue) \cup {sent + 1}
    BY <1>1, <2>1, AppendFacts
  <2>3. SessionOrdered'
    <3>1. \A i \in 1..Len(unacked) : unacked[i] \in Nat
      BY <1>1, QueueValues
    <3>2. \A i \in 1..Len(queue) : queue[i] \in Nat
      BY <1>1, QueueValues
    <3>3. \A i \in 1..Len(queue') :
              i \in 1..Len(queue) \/ i = Len(queue) + 1
      BY <2>2
    <3>4. \A i \in 1..Len(queue') : queue'[i] <= sent'
      BY <1>1, <2>2, <3>2, <3>3 DEF OrderInvariant, SessionOrdered
    <3>5. \A i, j \in 1..Len(queue') : i < j => queue'[i] < queue'[j]
      BY <1>1, <2>2, <3>2, <3>3 DEF OrderInvariant, SessionOrdered
    <3>6. \A i \in 1..Len(unacked) : \A j \in 1..Len(queue') : unacked[i] < queue'[j]
      BY <1>1, <2>2, <3>1, <3>2, <3>3 DEF OrderInvariant, SessionOrdered
    <3>7. \A i \in 1..Len(unacked) : unacked[i] <= sent'
      BY <1>1, <3>1 DEF OrderInvariant, SessionOrdered
    <3>8. QED
      BY <1>1, <3>4, <3>5, <3>6, <3>7 DEF OrderInvariant, SessionOrdered
  <2>4. NothingForgotten'
    BY <1>1, <1>2, <2>1, <2>2 DEF OrderInvariant, NothingForgotten
  <2>5. ProcessOrdered' /\ NoCommandOvertakes'
    BY <1>1, <2>1 DEF OrderInvariant, ProcessOrdered, NoCommandOvertakes
  <2>6. QED
    BY <2>3, <2>4, <2>5 DEF OrderInvariant
<1>4. CASE ~broker.subscribed
  <2>1. queue' = queue /\ Settled' = Settled \cup {sent + 1} /\ lost \subseteq lost'
    BY <1>1, <1>4 DEF SendCommand, Settled
  <2>2. SessionOrdered'
    <3>1. \A i \in 1..Len(unacked) : unacked[i] \in Nat
      BY <1>1, QueueValues
    <3>2. \A i \in 1..Len(queue) : queue[i] \in Nat
      BY <1>1, QueueValues
    <3>3. QED
      BY <1>1, <2>1, <3>1, <3>2 DEF OrderInvariant, SessionOrdered
  <2>3. NothingForgotten'
    BY <1>1, <1>2, <2>1 DEF OrderInvariant, NothingForgotten
  <2>4. ProcessOrdered' /\ NoCommandOvertakes'
    BY <1>1, <2>1 DEF OrderInvariant, ProcessOrdered, NoCommandOvertakes
  <2>5. QED
    BY <2>2, <2>3, <2>4 DEF OrderInvariant
<1>5. QED
  BY <1>3, <1>4

\* Queueing the unacknowledged commands again keeps the session in order and
\* forgets nothing.
LEMMA RequeueOrder ==
  ASSUME TypeOK, SessionOrdered, LoseConnection, sent' = sent
  PROVE  /\ SessionOrdered'
         /\ Range(queue') = Range(unacked) \cup Range(queue)
         /\ Range(unacked') = {}
<1> USE CommandValues
<1>1. /\ queue \in Seq(Commands) /\ unacked \in Seq(Commands)
      /\ queue' = unacked \o queue /\ unacked' = <<>>
  BY DEF TypeOK, LoseConnection
<1>2. /\ Len(queue) \in Nat /\ Len(unacked) \in Nat
      /\ Len(queue') = Len(unacked) + Len(queue)
      /\ \A i \in 1..Len(unacked) + Len(queue) :
             queue'[i] = IF i <= Len(unacked) THEN unacked[i]
                                              ELSE queue[i - Len(unacked)]
  BY <1>1, ConcatProperties, LenProperties
<1>3. ASSUME NEW i \in 1..Len(queue') PROVE queue'[i] <= sent
  <2>1. CASE i <= Len(unacked)
    BY <1>2, <2>1 DEF SessionOrdered
  <2>2. CASE i > Len(unacked)
    <3>1. i - Len(unacked) \in 1..Len(queue)
      BY <1>2, <2>2
    <3>2. QED
      BY <1>2, <2>2, <3>1 DEF SessionOrdered
  <2>3. QED
    BY <1>2, <2>1, <2>2
<1>4. ASSUME NEW i \in 1..Len(queue'), NEW j \in 1..Len(queue'), i < j
      PROVE  queue'[i] < queue'[j]
  <2>1. CASE j <= Len(unacked)
    BY <1>2, <1>4, <2>1 DEF SessionOrdered
  <2>2. CASE i <= Len(unacked) /\ j > Len(unacked)
    <3>1. j - Len(unacked) \in 1..Len(queue) /\ i \in 1..Len(unacked)
      BY <1>2, <2>2
    <3>2. queue'[i] = unacked[i] /\ queue'[j] = queue[j - Len(unacked)]
      BY <1>2, <2>2
    <3>3. QED
      BY <3>1, <3>2 DEF SessionOrdered
  <2>3. CASE i > Len(unacked)
    <3>1. /\ i - Len(unacked) \in 1..Len(queue) /\ j - Len(unacked) \in 1..Len(queue)
          /\ i - Len(unacked) < j - Len(unacked)
      BY <1>2, <1>4, <2>3
    <3>2. /\ queue'[i] = queue[i - Len(unacked)]
          /\ queue'[j] = queue[j - Len(unacked)]
      BY <1>2, <1>4, <2>3
    <3>3. QED
      BY <3>1, <3>2 DEF SessionOrdered
  <2>4. QED
    BY <1>2, <2>1, <2>2, <2>3
<1>5. Len(unacked') = 0
  BY <1>1
<1>6. SessionOrdered'
  BY <1>3, <1>4, <1>5 DEF SessionOrdered
<1>7. QED
  BY <1>1, <1>6, RangeConcatenation, RangeEmpty

LEMMA DropOrder ==
  ASSUME TypeOK, OrderInvariant, DropConnection
  PROVE  OrderInvariant'
<1>1. LoseConnection /\ UNCHANGED <<handling, cmds, forwarding, sent, executed, lost>>
  BY DEF DropConnection, mainVars, elVars, chanVars
<1>2. /\ SessionOrdered' /\ Range(unacked') = {}
      /\ Range(queue') = Range(unacked) \cup Range(queue)
  BY <1>1, RequeueOrder DEF OrderInvariant
<1>3. Settled' = Settled /\ InProcess' = InProcess
  BY <1>1 DEF Settled, InProcess
<1>4. NothingForgotten'
  BY <1>1, <1>2, <1>3 DEF OrderInvariant, NothingForgotten
<1>5. QED
  BY <1>1, <1>2, <1>3, <1>4
  DEF OrderInvariant, ProcessOrdered, NoCommandOvertakes

\* What dies with the process is lost, unless the session still has it.
LEMMA EndOrder ==
  ASSUME TypeOK, OrderInvariant, EndProcess
  PROVE  OrderInvariant'
<1> USE CommandValues
<1>1. /\ LoseConnection /\ UNCHANGED <<sent, executed>>
      /\ handling' = NoCommand /\ forwarding' = NoCommand /\ cmds' = <<>>
      /\ lost' = lost \cup ((Range(cmds) \cup {forwarding, handling})
                             \ (Range(unacked) \cup {NoCommand}))
  BY DEF EndProcess
<1>2. /\ SessionOrdered' /\ Range(unacked') = {}
      /\ Range(queue') = Range(unacked) \cup Range(queue)
  BY <1>1, RequeueOrder DEF OrderInvariant
<1>3. /\ Settled \subseteq Settled'
      /\ InProcess \subseteq Settled' \cup Range(unacked) \cup {NoCommand}
  BY <1>1 DEF Settled, InProcess
<1>4. NothingForgotten'
  <2>1. NoCommand \notin 1..sent
    BY DEF TypeOK
  <2>2. QED
    BY <1>1, <1>2, <1>3, <2>1 DEF OrderInvariant, NothingForgotten
<1>5. ProcessOrdered'
  <2>1. Len(cmds') = 0
    BY <1>1
  <2>2. QED
    BY <1>1, <2>1 DEF ProcessOrdered
<1>6. NoCommandOvertakes'
  BY <1>1 DEF OrderInvariant, NoCommandOvertakes
<1>7. QED
  BY <1>2, <1>4, <1>5, <1>6 DEF OrderInvariant

\* What the broker forgets is lost, unless the process has it.
LEMMA WipeOrder ==
  ASSUME TypeOK, OrderInvariant, WipeBroker
  PROVE  OrderInvariant'
<1>1. /\ queue' = <<>> /\ unacked' = <<>> /\ lost' = lost \cup Range(queue)
      /\ UNCHANGED <<handling, cmds, forwarding, sent, executed>>
  BY DEF WipeBroker, mainVars, elVars, chanVars
<1>2. /\ Range(queue') = {} /\ Range(unacked') = {}
      /\ Len(queue') = 0 /\ Len(unacked') = 0
  BY <1>1, RangeEmpty
<1>3. Settled' = Settled \cup Range(queue) /\ InProcess' = InProcess
  BY <1>1 DEF Settled, InProcess
<1>4. SessionOrdered'
  BY <1>2 DEF SessionOrdered
<1>5. NothingForgotten'
  BY <1>1, <1>2, <1>3 DEF OrderInvariant, NothingForgotten
<1>6. ProcessOrdered' /\ NoCommandOvertakes'
  BY <1>1, <1>3 DEF OrderInvariant, ProcessOrdered, NoCommandOvertakes
<1>7. QED
  BY <1>4, <1>5, <1>6 DEF OrderInvariant

LEMMA OrderStep ==
  TypeOK /\ OrderInvariant /\ [Next]_vars => OrderInvariant'
<1> SUFFICES ASSUME TypeOK, OrderInvariant, [Next]_vars PROVE OrderInvariant'
  OBVIOUS
<1>1. CASE WaitConnected \/ AnnounceStep \/ Tick \/ PublishState \/ DrainDone
  <2>1. UNCHANGED orderVars
    BY <1>1
    DEF WaitConnected, AnnounceStep, Announce, Tick, PublishState, DrainDone,
        orderVars, elVars, chanVars, netVars
  <2>2. QED
    BY <2>1, OrderUntouched
<1>2. CASE SelectCommand \/ DrainCommand
  BY <1>2, TakeOrder DEF SelectCommand, DrainCommand
<1>3. CASE CommandHandled
  BY <1>3, HandledOrder
<1>4. CASE Exit \/ Kill
  BY <1>4, EndOrder DEF Exit, Kill
<1>5. CASE PollError \/ Wake \/ SendRequest \/ Connect \/ ConnAckTask
  <2>1. UNCHANGED orderVars
    BY <1>5
    DEF PollError, Wake, SendRequest, Connect, ConnAckTask, Resubscribe,
        RepublishOnline, orderVars, mainVars, elVars, chanVars, netVars
  <2>2. QED
    BY <2>1, OrderUntouched
<1>6. CASE ReadCommand
  BY <1>6, ReadOrder
<1>7. CASE ForwardCommand
  BY <1>7, ForwardOrder
<1>8. CASE BrokerStep \/ RaiseStop \/ Start
  <2>1. UNCHANGED orderVars
    BY <1>8
    DEF BrokerStep, BrokerServes, FireWill, RaiseStop, Start, orderVars, mainVars,
        elVars, chanVars, netVars
  <2>2. QED
    BY <2>1, OrderUntouched
<1>9. CASE BrokerAcked
  BY <1>9, AckOrder
<1>10. CASE SendCommand
  BY <1>10, SendOrder
<1>11. CASE DropConnection
  BY <1>11, DropOrder
<1>12. CASE WipeBroker
  BY <1>12, WipeOrder
<1>13. CASE UNCHANGED vars
  BY <1>13, OrderUntouched
  DEF vars, orderVars, mainVars, elVars, chanVars, netVars
<1>14. QED
  BY <1>1, <1>2, <1>3, <1>4, <1>5, <1>6, <1>7, <1>8, <1>9, <1>10, <1>11, <1>12,
     <1>13
  DEF Next, MainStep, EventLoopStep, Environment

\* Commands are executed in the order Home Assistant sent them and none is
\* skipped, for every capacity of the channels and every interleaving of
\* connection losses, redeliveries, broker restarts, stops and kills.
THEOREM CommandsInOrder == Spec => []NoCommandOvertakes
<1>1. OrderInvariant => NoCommandOvertakes
  BY DEF OrderInvariant
<1>2. QED
  BY <1>1, OrderInit, OrderStep, TypeCorrect, PTL DEF Spec

(* The circular wait *)

\* In the wait no task of the agent can take a step: both channels are full and
\* the two tasks that would empty them are waiting.
LEMMA NobodyMoves ==
  WaitForEachOther =>
    ~(MainStep \/ Exit \/ EventLoopStep \/ Connect \/ ConnAckTask)
<1> SUFFICES ASSUME WaitForEachOther
             PROVE  ~(MainStep \/ Exit \/ EventLoopStep \/ Connect \/ ConnAckTask)
  OBVIOUS
<1>1. \A r : ~Enqueue(r)
  BY CapacityAssumption DEF WaitForEachOther, Enqueue
<1>2. ~(MainStep \/ Exit)
  BY <1>1
  DEF WaitForEachOther, MainStep, Exit, WaitConnected, AnnounceStep, Announce, Tick,
      PublishState, SelectCommand, DrainCommand, TakeCommand, DrainDone, CommandHandled
<1>3. ~(EventLoopStep \/ Connect)
  BY CapacityAssumption
  DEF WaitForEachOther, EventLoopStep, Connect, PollError, Wake, SendRequest,
      ReadCommand, ForwardCommand
<1>4. ~ConnAckTask
  BY <1>1 DEF ConnAckTask, Resubscribe, RepublishOnline
<1>5. QED
  BY <1>2, <1>3, <1>4

\* Whatever the broker, the network and Home Assistant do, nothing but the end of
\* the process ends the circular wait, for all capacities of the two channels.
THEOREM WaitLasts == Spec => WaitIsForEver
<1>1. ASSUME WaitForEachOther, [Next]_vars PROVE WaitForEachOther' \/ ~Alive'
  <2>1. CASE UNCHANGED <<main, el, cmds, reqs>>
    BY <1>1, <2>1 DEF WaitForEachOther
  <2>2. CASE Kill
    BY <2>2 DEF Kill, EndProcess, Alive
  <2>3. CASE Start
    BY <1>1, <2>3 DEF Start, WaitForEachOther, Alive
  <2>4. CASE BrokerStep
    BY <2>1, <2>4 DEF BrokerStep, BrokerServes, FireWill, mainVars, elVars, chanVars
  <2>5. CASE \/ RaiseStop \/ BrokerAcked \/ SendCommand \/ DropConnection
             \/ WipeBroker \/ UNCHANGED vars
    BY <2>1, <2>5
    DEF RaiseStop, BrokerAcked, SendCommand, DropConnection, WipeBroker, vars,
        mainVars, elVars, chanVars
  <2>6. QED
    BY <1>1, <2>2, <2>3, <2>4, <2>5, NobodyMoves DEF Next, Environment
<1>2. QED
  BY <1>1, PTL DEF Spec, WaitIsForEver
=============================================================================
