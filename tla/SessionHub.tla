----------------------------- MODULE SessionHub -----------------------------
(***************************************************************************)
(* The two Windows processes and the named pipe between them               *)
(* (collect/windows/pipe.rs): the main task of the service, which makes    *)
(* calls through SessionHub::call; the pipe server thread, which carries   *)
(* them to the session helper; and the helper, which executes them on the  *)
(* user's desktop and sends a snapshot of the session every tick.          *)
(*                                                                         *)
(*   main task --rx--> server thread --toHelper--> helper --> desktop      *)
(*   main task <-reply/values- server thread <--toServer-- helper          *)
(*                                                                         *)
(* A call is numbered in the order it was made (history); the id it gets   *)
(* on the wire restarts with the service.  A snapshot is the incarnation   *)
(* of the helper it came from.                                             *)
(***************************************************************************)
EXTENDS Naturals, Sequences, Functions

CONSTANTS
    MaxCalls,     \* bound: calls the service makes
    MaxHelpers,   \* bound: helper processes started, one per logon
    MaxCrashes,   \* bound: helpers that die (log-off, kill, crash)
    MaxRestarts,  \* bound: restarts of the service
    PipeFrames    \* frames the pipe buffers towards the service (64 KiB)

Calls == 1..MaxCalls
Helpers == 1..MaxHelpers
NoHelper == 0
NoCall == 0

\* Where the server thread is while it serves nobody: about to create an instance
\* of the pipe, about to listen on it, with a client on it that came before it
\* listened, and listening.
Unserved == {"accept", "created", "early", "listening"}

ASSUME BoundAssumption ==
    /\ MaxCalls \in Nat /\ MaxHelpers \in Nat
    /\ MaxCrashes \in Nat /\ MaxRestarts \in Nat
    /\ PipeFrames \in Nat \ {0}

VARIABLES
    (* the main task of the service *)
    caller,     \* "idle", "cloned" (holds a sender) or "waiting"
    begun,      \* calls made so far; the current one unless the caller is idle
    sender,     \* the session whose sender the caller cloned
    reply,      \* what the current call's oneshot holds
    next_id,    \* the counter of wire ids
    (* the hub and the server thread *)
    tx,         \* the session whose sender the hub offers, 0 for None
    session,    \* sessions accepted so far
    srv,        \* where pipe_server_loop is
    rx,         \* the session's request channel
    pending,    \* requests written to the helper that wait for a result
    values,     \* whose snapshot the hub holds, NoHelper for none
    (* the pipe *)
    serverOpen, helperOpen, toHelper, toServer,
    (* the helper *)
    helper,     \* where run_session_client is, "down" or "exited"
    inc,        \* incarnation of the helper
    executing,  \* the request whose result the helper is about to write
    (* history and bounds *)
    outcome, effects, crashes, restarts

callVars   == <<caller, begun, sender, reply, next_id, outcome>>
serverVars == <<tx, session, srv, rx, pending, values>>
helperVars == <<helper, inc, executing>>
pipeVars   == <<serverOpen, helperOpen, toHelper, toServer>>
boundVars  == <<crashes, restarts>>
vars == <<callVars, serverVars, helperVars, pipeVars, effects, boundVars>>

Ids == 1..MaxCalls
Rpc == [id : Ids, call : Calls]
NoRpc == [id |-> 0, call |-> NoCall]
Frame == [kind : {"snapshot"}, from : Helpers]
         \cup [kind : {"result"}, rpc : Rpc, ok : BOOLEAN]
         \cup [kind : {"truncated"}]

CallsOK ==
    /\ caller \in {"idle", "cloned", "waiting"}
    /\ begun \in 0..MaxCalls
    /\ sender \in Nat
    /\ reply \in {"none", "ok", "failed", "dropped"}
    /\ next_id \in (IF caller = "idle" THEN 1 ELSE 2)..begun + 1
    /\ outcome \in [Calls -> {"none", "ok", "failed", "refused", "dropped",
                              "timed out"}]

ServerOK ==
    /\ srv \in Unserved \cup {"drain", "read", "closing", "clearing"}
    /\ session \in Nat
    /\ tx = IF srv \in Unserved \cup {"clearing"} THEN 0 ELSE session
    /\ rx \in Seq(Rpc) /\ pending \subseteq Rpc
    /\ values \in Helpers \cup {NoHelper}
    /\ srv \in Unserved => rx = <<>> /\ pending = {} /\ values = NoHelper

PipeOK ==
    /\ serverOpen \in BOOLEAN /\ helperOpen \in BOOLEAN
    /\ toHelper \in Seq(Rpc) /\ toServer \in Seq(Frame)

HelperOK ==
    /\ helper \in {"down", "connecting", "snapshot", "poll", "reply", "exited"}
    /\ inc \in 0..MaxHelpers
    /\ helper # "down" => inc > 0
    /\ executing \in [rpc : Rpc \cup {NoRpc}, ok : BOOLEAN]
    /\ executing.rpc = NoRpc <=> helper # "reply"

HistoryOK ==
    /\ effects \in Seq(Calls)
    /\ crashes \in 0..MaxCrashes /\ restarts \in 0..MaxRestarts

TypeOK == CallsOK /\ ServerOK /\ PipeOK /\ HelperOK /\ HistoryOK

NothingToReply == [rpc |-> NoRpc, ok |-> FALSE]

Init ==
    /\ caller = "idle" /\ begun = 0 /\ sender = 0 /\ reply = "none" /\ next_id = 1
    /\ tx = 0 /\ session = 0 /\ srv = "accept"
    /\ rx = <<>> /\ pending = {} /\ values = NoHelper
    /\ serverOpen = FALSE /\ helperOpen = FALSE
    /\ toHelper = <<>> /\ toServer = <<>>
    /\ helper = "down" /\ inc = 0 /\ executing = NothingToReply
    /\ outcome = [c \in Calls |-> "none"] /\ effects = <<>>
    /\ crashes = 0 /\ restarts = 0

HelperAlive == helper \notin {"down", "exited"}

-----------------------------------------------------------------------------
(* The definitions named Fault... are deliberate faults, each put in place of  *)
(* the definition that follows it to see a property fail; Next uses none.     *)

(* SessionHub::call, awaited by the main task: one call at a time *)

\* Every call has the same id on the wire.
FaultBeginCall ==
    /\ caller = "idle" /\ begun < MaxCalls
    /\ begun' = begun + 1
    /\ \/ /\ tx = 0
          /\ outcome' = [outcome EXCEPT ![begun + 1] = "refused"]
          /\ UNCHANGED <<caller, sender>>
       \/ /\ tx # 0
          /\ caller' = "cloned" /\ sender' = tx
          /\ UNCHANGED outcome
    /\ reply' = "none"
    /\ next_id' = 2
    /\ UNCHANGED <<serverVars, helperVars, pipeVars, effects, boundVars>>

\* Takes the next id and clones the sender the hub offers, if there is one.
BeginCall ==
    /\ caller = "idle" /\ begun < MaxCalls
    /\ begun' = begun + 1
    /\ next_id' = next_id + 1
    /\ \/ /\ tx = 0
          /\ outcome' = [outcome EXCEPT ![begun + 1] = "refused"]
          /\ UNCHANGED <<caller, sender>>
       \/ /\ tx # 0
          /\ caller' = "cloned" /\ sender' = tx
          /\ UNCHANGED outcome
    /\ reply' = "none"
    /\ UNCHANGED <<serverVars, helperVars, pipeVars, effects, boundVars>>

\* The send fails when the session's receiver has been dropped meanwhile.
SendCall ==
    /\ caller = "cloned"
    /\ \/ /\ srv \notin Unserved /\ session = sender
          /\ rx' = Append(rx, [id |-> next_id - 1, call |-> begun])
          /\ caller' = "waiting"
          /\ UNCHANGED outcome
       \/ /\ srv \in Unserved \/ session # sender
          /\ outcome' = [outcome EXCEPT ![begun] = "refused"]
          /\ caller' = "idle"
          /\ UNCHANGED rx
    /\ UNCHANGED <<begun, sender, reply, next_id, tx, session, srv, pending, values,
                   helperVars, pipeVars, effects, boundVars>>

\* The oneshot has been answered, or its sender has been dropped.
CallReturns ==
    /\ caller = "waiting" /\ reply # "none"
    /\ outcome' = [outcome EXCEPT ![begun] = reply]
    /\ caller' = "idle"
    /\ UNCHANGED <<begun, sender, reply, next_id, serverVars, helperVars, pipeVars,
                   effects, boundVars>>

\* No timeout: only the oneshot ends a call.
FaultCallTimesOut == FALSE /\ UNCHANGED vars

\* Eight seconds have passed: the receiver is dropped, the request is not.
CallTimesOut ==
    /\ caller = "waiting" /\ reply = "none"
    /\ outcome' = [outcome EXCEPT ![begun] = "timed out"]
    /\ caller' = "idle"
    /\ UNCHANGED <<begun, sender, reply, next_id, serverVars, helperVars, pipeVars,
                   effects, boundVars>>

-----------------------------------------------------------------------------
(* The server thread, pipe_server_loop *)

\* accept_client: CreateNamedPipeW.
CreateInstance ==
    /\ srv = "accept"
    /\ srv' = "created"
    /\ UNCHANGED <<callVars, tx, session, rx, pending, values, helperVars, pipeVars,
                   effects, boundVars>>

\* ConnectNamedPipe waits for a client.
Listen ==
    /\ srv = "created"
    /\ srv' = "listening"
    /\ UNCHANGED <<callVars, tx, session, rx, pending, values, helperVars, pipeVars,
                   effects, boundVars>>

\* ConnectNamedPipe finds a client already there and says so with an error, as an
\* HRESULT, which is neither of the two codes accept_client lets pass: it returns
\* without closing the handle, and a second later another instance is created.
RefuseEarly ==
    /\ srv = "early"
    /\ srv' = "accept"
    /\ UNCHANGED <<callVars, tx, session, rx, pending, values, helperVars, pipeVars,
                   effects, boundVars>>

\* The helper connects while ConnectNamedPipe waits, and accept_client returns.
Accept ==
    /\ srv = "listening" /\ helper = "connecting"
    /\ session' = session + 1
    /\ tx' = session + 1
    /\ srv' = "drain" /\ rx' = <<>> /\ pending' = {}
    /\ serverOpen' = TRUE /\ helperOpen' = TRUE
    /\ toHelper' = <<>> /\ toServer' = <<>>
    /\ helper' = "snapshot"
    /\ UNCHANGED <<callVars, values, inc, executing, effects, boundVars>>

\* One turn of the drain loop.  A write fails once the helper is gone; that
\* ends the drain loop only, and the request stays pending.
DrainRequest ==
    /\ srv = "drain" /\ rx # <<>>
    /\ rx' = Tail(rx)
    /\ pending' = {p \in pending : p.id # Head(rx).id} \cup {Head(rx)}
    /\ IF helperOpen
       THEN toHelper' = Append(toHelper, Head(rx)) /\ UNCHANGED srv
       ELSE srv' = "read" /\ UNCHANGED toHelper
    /\ UNCHANGED <<callVars, tx, session, values, helperVars, serverOpen, helperOpen,
                   toServer, effects, boundVars>>

DrainDone ==
    /\ srv = "drain" /\ rx = <<>>
    /\ srv' = "read"
    /\ UNCHANGED <<callVars, tx, session, rx, pending, values, helperVars, pipeVars,
                   effects, boundVars>>

\* bytes_available is 0: nothing was sent, or the pipe is broken and empty; the
\* error of PeekNamedPipe is discarded.
ReadNothing ==
    /\ srv = "read" /\ toServer = <<>>
    /\ srv' = "drain"
    /\ UNCHANGED <<callVars, tx, session, rx, pending, values, helperVars, pipeVars,
                   effects, boundVars>>

ReadSnapshot ==
    /\ srv = "read" /\ toServer # <<>> /\ Head(toServer).kind = "snapshot"
    /\ values' = Head(toServer).from
    /\ toServer' = Tail(toServer)
    /\ srv' = "drain"
    /\ UNCHANGED <<callVars, tx, session, rx, pending, helperVars, serverOpen,
                   helperOpen, toHelper, effects, boundVars>>

\* Answering a oneshot: only the current call still has a receiver.
Answer(calls, what) ==
    reply' = IF caller = "waiting" /\ begun \in calls THEN what ELSE reply

\* A result answers the request that is pending under its id.
ReadResult ==
    /\ srv = "read" /\ toServer # <<>> /\ Head(toServer).kind = "result"
    /\ LET result   == Head(toServer)
           answered == {p \in pending : p.id = result.rpc.id}
       IN  /\ pending' = pending \ answered
           /\ Answer({p.call : p \in answered}, IF result.ok THEN "ok" ELSE "failed")
    /\ toServer' = Tail(toServer)
    /\ srv' = "drain"
    /\ UNCHANGED <<caller, begun, sender, next_id, outcome, tx, session, rx, values,
                   helperVars, serverOpen, helperOpen, toHelper, effects, boundVars>>

\* read_frame fails: the session ends.
ReadError ==
    /\ srv = "read" /\ toServer # <<>> /\ Head(toServer).kind = "truncated"
    /\ srv' = "closing"
    /\ UNCHANGED <<callVars, tx, session, rx, pending, values, helperVars, pipeVars,
                   effects, boundVars>>

\* The hub keeps offering the sender of the session that ended.
FaultWithdrawSender ==
    /\ srv = "closing"
    /\ srv' = "clearing"
    /\ UNCHANGED <<callVars, tx, session, rx, pending, values, helperVars, pipeVars,
                   effects, boundVars>>

WithdrawSender ==
    /\ srv = "closing"
    /\ tx' = 0
    /\ srv' = "clearing"
    /\ UNCHANGED <<callVars, session, rx, pending, values, helperVars, pipeVars,
                   effects, boundVars>>

\* The values of the session that ended stay.
FaultEndSession ==
    /\ srv = "clearing"
    /\ Answer({p.call : p \in pending \cup Range(rx)}, "dropped")
    /\ pending' = {} /\ rx' = <<>>
    /\ serverOpen' = FALSE
    /\ srv' = "accept"
    /\ UNCHANGED <<caller, begun, sender, next_id, outcome, tx, session, values,
                   helperVars, helperOpen, toHelper, toServer, effects, boundVars>>

\* The values are cleared; pending, rx and the stream are dropped.
EndSession ==
    /\ srv = "clearing"
    /\ values' = NoHelper
    /\ Answer({p.call : p \in pending \cup Range(rx)}, "dropped")
    /\ pending' = {} /\ rx' = <<>>
    /\ serverOpen' = FALSE
    /\ srv' = "accept"
    /\ UNCHANGED <<caller, begun, sender, next_id, outcome, tx, session, helperVars,
                   helperOpen, toHelper, toServer, effects, boundVars>>

\* The service stops and is started again (an update does this): its memory and
\* its end of the pipe are gone, the helper is not.
RestartService ==
    /\ restarts < MaxRestarts
    /\ restarts' = restarts + 1
    /\ caller' = "idle" /\ sender' = 0 /\ reply' = "none" /\ next_id' = 1
    /\ tx' = 0 /\ srv' = "accept" /\ rx' = <<>> /\ pending' = {} /\ values' = NoHelper
    /\ serverOpen' = FALSE
    /\ UNCHANGED <<begun, outcome, session, helperVars, helperOpen, toHelper,
                   toServer, effects, crashes>>

-----------------------------------------------------------------------------
(* The session helper, run_session_client *)

\* The logon task starts a helper.
StartHelper ==
    /\ ~HelperAlive /\ inc < MaxHelpers
    /\ inc' = inc + 1
    /\ helper' = "connecting"
    /\ UNCHANGED <<callVars, serverVars, executing, pipeVars, effects, boundVars>>

\* connect_client finds an instance that exists and nobody listens on yet.
ConnectEarly ==
    /\ srv = "created" /\ helper = "connecting"
    /\ srv' = "early"
    /\ serverOpen' = TRUE /\ helperOpen' = TRUE
    /\ toHelper' = <<>> /\ toServer' = <<>>
    /\ helper' = "snapshot"
    /\ UNCHANGED <<callVars, tx, session, rx, pending, values, inc, executing, effects,
                   boundVars>>

\* A snapshot that cannot be written is tried again on the same pipe.
FaultSendSnapshot ==
    /\ helper = "snapshot"
    /\ serverOpen /\ Len(toServer) < PipeFrames
    /\ toServer' = Append(toServer, [kind |-> "snapshot", from |-> inc])
    /\ helper' = "poll"
    /\ UNCHANGED <<callVars, serverVars, inc, executing, serverOpen, helperOpen,
                   toHelper, effects, boundVars>>

\* A snapshot that cannot be written sends the helper back to connect_client.
SendSnapshot ==
    /\ helper = "snapshot"
    /\ \/ /\ serverOpen /\ Len(toServer) < PipeFrames
          /\ toServer' = Append(toServer, [kind |-> "snapshot", from |-> inc])
          /\ helper' = "poll"
          /\ UNCHANGED helperOpen
       \/ /\ ~serverOpen
          /\ helper' = "connecting" /\ helperOpen' = FALSE
          /\ UNCHANGED toServer
    /\ UNCHANGED <<callVars, serverVars, inc, executing, serverOpen, toHelper,
                   effects, boundVars>>

\* handle_rpc: the action on the desktop succeeds or fails.
HandleRpc ==
    /\ helper = "poll" /\ toHelper # <<>>
    /\ toHelper' = Tail(toHelper)
    /\ \E ok \in BOOLEAN :
           /\ executing' = [rpc |-> Head(toHelper), ok |-> ok]
           /\ effects' = IF ok THEN Append(effects, Head(toHelper).call) ELSE effects
    /\ helper' = "reply"
    /\ UNCHANGED <<callVars, serverVars, inc, serverOpen, helperOpen, toServer,
                   boundVars>>

\* A result that cannot be written ends the helper for good.
WriteResult ==
    /\ helper = "reply"
    /\ executing' = NothingToReply
    /\ \/ /\ serverOpen /\ Len(toServer) < PipeFrames
          /\ toServer' = Append(toServer, [kind |-> "result", rpc |-> executing.rpc,
                                           ok |-> executing.ok])
          /\ helper' = "poll"
          /\ UNCHANGED helperOpen
       \/ /\ ~serverOpen
          /\ helper' = "exited" /\ helperOpen' = FALSE
          /\ UNCHANGED toServer
    /\ UNCHANGED <<callVars, serverVars, inc, serverOpen, toHelper, effects,
                   boundVars>>

\* The tick is over: the next snapshot is due.
PollDone ==
    /\ helper = "poll"
    /\ helper' = "snapshot"
    /\ UNCHANGED <<callVars, serverVars, inc, executing, pipeVars, effects, boundVars>>

\* The helper dies: the user logs off, or the process is killed.  A write that
\* had to wait for room in the pipe may be cut in the middle.
HelperDies ==
    /\ HelperAlive /\ crashes < MaxCrashes
    /\ crashes' = crashes + 1
    /\ helper' = "down" /\ helperOpen' = FALSE /\ executing' = NothingToReply
    /\ \/ UNCHANGED toServer
       \/ /\ helper \in {"snapshot", "reply"} /\ serverOpen /\ toServer # <<>>
          /\ toServer' = Append(toServer, [kind |-> "truncated"])
    /\ UNCHANGED <<callVars, serverVars, inc, serverOpen, toHelper, effects, restarts>>

-----------------------------------------------------------------------------
CallStep == SendCall \/ CallReturns \/ CallTimesOut

ServerStep ==
    \/ CreateInstance \/ Listen \/ RefuseEarly \/ Accept
    \/ DrainRequest \/ DrainDone
    \/ ReadNothing \/ ReadSnapshot \/ ReadResult \/ ReadError
    \/ WithdrawSender \/ EndSession

HelperStep == ConnectEarly \/ SendSnapshot \/ HandleRpc \/ WriteResult

Next ==
    \/ BeginCall \/ CallStep
    \/ ServerStep \/ RestartService
    \/ StartHelper \/ HelperStep \/ PollDone \/ HelperDies

(* Fairness.  Each process and thread runs: the caller's future is polled and *)
(* its timer fires, the server thread loops without ever waiting for anything *)
(* but a client, and the helper loops on its clock.  Nothing is assumed of    *)
(* log-ons, log-offs, restarts or of calls being made.                        *)
Fairness ==
    /\ WF_vars(CallStep) /\ WF_vars(ServerStep)
    /\ WF_vars(HelperStep) /\ WF_vars(PollDone)

Spec == Init /\ [][Next]_vars
FairSpec == Spec /\ Fairness

-----------------------------------------------------------------------------
(* Safety *)

\* What the hub shows of the session in progress comes from the helper that is
\* connected, never from the helper of an earlier session: the values of one
\* user's desktop are not shown as another's.
SessionValuesOwn ==
    values # NoHelper /\ serverOpen /\ helperOpen => values = inc

\* The calls keep the promise of DesktopRpc whatever happens to the pipe, the
\* helper and the service: at most one effect per call, effects in the order of
\* the calls, and an outcome that tells the truth about the effect.
Desktop == INSTANCE DesktopRpc WITH
    MaxCalls <- MaxCalls, begun <- begun, outcome <- outcome, effects <- effects
RpcPromiseKept == Desktop!Spec

(* Liveness *)

\* A call never hangs the main task, whatever the pipe and the helper do.
EveryCallReturns == caller # "idle" ~> caller = "idle"

\* Nobody serves the pipe the helper is connected to: it connected before the
\* server listened, and was refused without the handle being closed.
Forsaken == helperOpen /\ serverOpen /\ srv \in Unserved

\* The server goes on with a session whose helper is gone: PeekNamedPipe's error
\* is discarded, and nothing is left to read that would end the session.
GoneUnnoticed ==
    /\ srv \in {"drain", "read"} /\ ~helperOpen
    /\ \A f \in Range(toServer) : f.kind # "truncated"

\* A helper that runs ends up served, whatever helpers died before it and however
\* often the service restarts: the hub shows its session.  The exceptions are the
\* helper that was refused, and the server that waits for one that is gone.
HelperServed ==
    HelperAlive ~> (values = inc \/ ~HelperAlive \/ Forsaken \/ GoneUnnoticed)

\* Session entities are unavailable until the helper is running: what a helper
\* that is gone reported does not stay in the hub for good.
GoneHelperForgotten == ~HelperAlive ~> (values = NoHelper \/ HelperAlive)
=============================================================================
