-------------------------- MODULE SessionHubProofs --------------------------
(* Theorems about SessionHub, for every number of calls, of helpers, of      *)
(* crashes and of restarts of the service, and every size of the pipe.       *)
EXTENDS SessionHub, SequenceTheorems, TLAPS

(* What the queues hold. *)

LEMMA TakeFacts ==
  ASSUME NEW S, NEW s \in Seq(S), s # <<>>
  PROVE  /\ Head(s) \in S /\ Tail(s) \in Seq(S)
         /\ Len(s) \in Nat /\ Len(s) >= 1 /\ s[1] = Head(s)
         /\ Len(Tail(s)) = Len(s) - 1
         /\ \A i \in 1..Len(Tail(s)) : Tail(s)[i] = s[i + 1]
         /\ Range(s) = {Head(s)} \cup Range(Tail(s))
<1>1. /\ Head(s) \in S /\ Tail(s) \in Seq(S) /\ Len(Tail(s)) = Len(s) - 1
      /\ \A i \in 1..Len(Tail(s)) : Tail(s)[i] = s[i + 1]
  BY HeadTailProperties
<1>2. Len(s) \in Nat /\ Len(s) >= 1 /\ s[1] = Head(s)
  BY EmptySeq, LenProperties
<1>3. Range(s) = {s[i] : i \in 1..Len(s)}
  BY RangeEquality
<1>4. Range(Tail(s)) = {Tail(s)[i] : i \in 1..Len(Tail(s))}
  BY <1>1, RangeEquality
<1>5. ASSUME NEW x \in Range(s) PROVE x \in {Head(s)} \cup Range(Tail(s))
  <2>1. PICK i \in 1..Len(s) : x = s[i]
    BY <1>3
  <2>2. CASE i = 1
    BY <2>1, <2>2, <1>2
  <2>3. CASE i # 1
    <3>1. i - 1 \in 1..Len(Tail(s)) /\ Tail(s)[i - 1] = s[i]
      BY <2>3, <1>1, <1>2
    <3>2. QED
      BY <3>1, <2>1, <1>4
  <2>4. QED
    BY <2>2, <2>3
<1>6. ASSUME NEW x \in Range(Tail(s)) PROVE x \in Range(s)
  <2>1. PICK i \in 1..Len(Tail(s)) : x = Tail(s)[i]
    BY <1>4
  <2>2. i + 1 \in 1..Len(s) /\ x = s[i + 1]
    BY <2>1, <1>1, <1>2
  <2>3. QED
    BY <2>2, <1>3
<1>7. Head(s) \in Range(s)
  BY <1>2, <1>3
<1>8. QED
  BY <1>1, <1>2, <1>5, <1>6, <1>7

LEMMA PutFacts ==
  ASSUME NEW S, NEW s \in Seq(S), NEW e \in S
  PROVE  /\ Append(s, e) \in Seq(S)
         /\ Len(s) \in Nat /\ Len(Append(s, e)) = Len(s) + 1
         /\ \A i \in 1..Len(s) : Append(s, e)[i] = s[i]
         /\ Append(s, e)[Len(s) + 1] = e
         /\ Range(Append(s, e)) = Range(s) \cup {e}
<1>1. /\ Append(s, e) \in Seq(S) /\ Len(Append(s, e)) = Len(s) + 1
      /\ Len(s) \in Nat
      /\ \A i \in 1..Len(s) : Append(s, e)[i] = s[i]
      /\ Append(s, e)[Len(s) + 1] = e
  BY AppendProperties, LenProperties
<1>2. /\ Range(s) = {s[i] : i \in 1..Len(s)}
      /\ Range(Append(s, e)) = {Append(s, e)[i] : i \in 1..Len(s) + 1}
  BY <1>1, RangeEquality
<1>3. 1..Len(s) + 1 = 1..Len(s) \cup {Len(s) + 1}
  BY <1>1
<1>4. QED
  BY <1>1, <1>2, <1>3

LEMMA NothingQueued == <<>> \in Seq({}) /\ Range(<<>>) = {}
<1>1. DOMAIN <<>> = {}
  OBVIOUS
<1>2. Range(<<>>) = {}
  BY <1>1, Zenon DEF Range
<1>3. QED
  BY <1>2

(* The types *)

LEMMA FrameTypes ==
  /\ \A h \in Helpers : [kind |-> "snapshot", from |-> h] \in Frame
  /\ \A r \in Rpc, b \in BOOLEAN :
         [kind |-> "result", rpc |-> r, ok |-> b] \in Frame
  /\ [kind |-> "truncated"] \in Frame
  /\ \A f \in Frame : f.kind = "snapshot" => f.from \in Helpers
  /\ \A f \in Frame : f.kind = "result" => f.rpc \in Rpc /\ f.ok \in BOOLEAN
  BY DEF Frame

LEMMA RpcTypes ==
  /\ \A i \in Ids, c \in Calls : [id |-> i, call |-> c] \in Rpc
  /\ NoRpc \notin Rpc
  /\ \A r \in Rpc : r.id \in Ids /\ r.call \in Calls
  BY BoundAssumption DEF Rpc, NoRpc, Ids

LEMMA InitTypeOK == Init => TypeOK
<1> SUFFICES ASSUME Init PROVE TypeOK
  OBVIOUS
<1> USE BoundAssumption DEF Init
<1>1. \A S : <<>> \in Seq(S)
  OBVIOUS
<1>2. CallsOK
  BY DEF CallsOK
<1>3. ServerOK
  BY <1>1 DEF ServerOK, Unserved
<1>4. PipeOK
  BY <1>1 DEF PipeOK
<1>5. HelperOK
  BY DEF HelperOK, NothingToReply
<1>6. HistoryOK
  BY <1>1 DEF HistoryOK
<1>7. QED
  BY <1>2, <1>3, <1>4, <1>5, <1>6 DEF TypeOK

\* A part that is left alone stays well typed.
LEMMA PartsUntouched ==
  ASSUME TypeOK
  PROVE  /\ UNCHANGED callVars => CallsOK'
         /\ UNCHANGED serverVars => ServerOK'
         /\ UNCHANGED pipeVars => PipeOK'
         /\ UNCHANGED helperVars => HelperOK'
         /\ UNCHANGED <<effects, boundVars>> => HistoryOK'
<1>1. UNCHANGED callVars => CallsOK'
  BY DEF TypeOK, CallsOK, callVars
<1>2. UNCHANGED serverVars => ServerOK'
  BY DEF TypeOK, ServerOK, serverVars
<1>3. UNCHANGED pipeVars => PipeOK'
  BY DEF TypeOK, PipeOK, pipeVars
<1>4. UNCHANGED helperVars => HelperOK'
  BY DEF TypeOK, HelperOK, helperVars
<1>5. UNCHANGED <<effects, boundVars>> => HistoryOK'
  BY DEF TypeOK, HistoryOK, boundVars
<1>6. QED
  BY <1>1, <1>2, <1>3, <1>4, <1>5

LEMMA AnswerType ==
  ASSUME CallsOK, NEW calls, NEW what \in {"ok", "failed", "dropped"},
         Answer(calls, what),
         UNCHANGED <<caller, begun, sender, next_id, outcome>>
  PROVE  CallsOK'
<1>1. reply' \in {"none", "ok", "failed", "dropped"}
  BY DEF CallsOK, Answer
<1>2. QED
  BY <1>1 DEF CallsOK

\* Setting one outcome.
LEMMA OutcomeType ==
  ASSUME CallsOK, NEW c, NEW what \in {"ok", "failed", "refused", "dropped",
                                       "timed out"},
         outcome' = [outcome EXCEPT ![c] = what]
  PROVE  outcome' \in [Calls -> {"none", "ok", "failed", "refused", "dropped",
                                 "timed out"}]
  BY DEF CallsOK

LEMMA CallTypes ==
  ASSUME TypeOK, BeginCall \/ CallStep
  PROVE  TypeOK'
<1> USE BoundAssumption
<1>a. UNCHANGED <<helperVars, pipeVars, effects, boundVars>>
  BY DEF CallStep, BeginCall, SendCall, CallReturns, CallTimesOut
<1>b. PipeOK' /\ HelperOK' /\ HistoryOK'
  BY <1>a, PartsUntouched
<1>1. CASE BeginCall
  <2>1. /\ begun' \in 0..MaxCalls
        /\ next_id' \in (IF caller' = "idle" THEN 1 ELSE 2)..begun' + 1
    <3>1. /\ begun \in 0..MaxCalls /\ begun < MaxCalls /\ next_id \in 1..begun + 1
          /\ begun' = begun + 1 /\ next_id' = next_id + 1
      BY <1>1 DEF TypeOK, CallsOK, BeginCall
    <3>2. QED
      BY <3>1
  <2>2. outcome' \in [Calls -> {"none", "ok", "failed", "refused", "dropped",
                                "timed out"}]
    BY <1>1, OutcomeType DEF TypeOK, CallsOK, BeginCall
  <2>3. caller' \in {"idle", "cloned"} /\ sender' \in Nat /\ reply' = "none"
    BY <1>1 DEF TypeOK, CallsOK, ServerOK, BeginCall
  <2>4. CallsOK'
    BY <2>1, <2>2, <2>3 DEF CallsOK
  <2>5. ServerOK'
    BY <1>1, PartsUntouched DEF BeginCall
  <2>6. QED
    BY <1>b, <2>4, <2>5 DEF TypeOK
<1>2. CASE SendCall
  <2>a. begun \in 0..MaxCalls /\ next_id \in 2..begun + 1
    BY <1>2 DEF TypeOK, CallsOK, SendCall
  <2>1. rx' \in Seq(Rpc) /\ (srv \in Unserved => rx' = <<>>)
    <3>1. CASE UNCHANGED rx
      BY <3>1 DEF TypeOK, ServerOK
    <3>2. CASE srv \notin Unserved /\ rx' = Append(rx, [id |-> next_id - 1, call |-> begun])
      <4>1. begun \in Calls /\ next_id - 1 \in Ids
        BY <2>a DEF Calls, Ids
      <4>2. QED
        BY <3>2, <4>1, RpcTypes, PutFacts DEF TypeOK, ServerOK
    <3>3. QED
      BY <1>2, <3>1, <3>2 DEF SendCall
  <2>2. outcome' \in [Calls -> {"none", "ok", "failed", "refused", "dropped",
                                "timed out"}]
    BY <1>2, OutcomeType DEF TypeOK, CallsOK, SendCall
  <2>3. /\ caller' \in {"idle", "waiting"} /\ next_id' = next_id
        /\ next_id' \in (IF caller' = "idle" THEN 1 ELSE 2)..begun' + 1
    BY <1>2, <2>a DEF SendCall
  <2>4. CallsOK'
    <3>1. /\ begun' \in 0..MaxCalls /\ sender' \in Nat
          /\ reply' \in {"none", "ok", "failed", "dropped"}
      BY <1>2 DEF SendCall, TypeOK, CallsOK
    <3>2. QED
      BY <2>2, <2>3, <3>1 DEF CallsOK
  <2>5. ServerOK'
    BY <1>2, <2>1 DEF TypeOK, ServerOK, SendCall
  <2>6. QED
    BY <1>b, <2>4, <2>5 DEF TypeOK
<1>3. CASE CallReturns \/ CallTimesOut
  <2>1. outcome' \in [Calls -> {"none", "ok", "failed", "refused", "dropped",
                                "timed out"}]
    BY <1>3, OutcomeType DEF TypeOK, CallsOK, CallReturns, CallTimesOut
  <2>2. CallsOK'
    <3>1. /\ caller' = "idle" /\ next_id \in 2..begun + 1
          /\ UNCHANGED <<begun, sender, reply, next_id>>
      BY <1>3 DEF TypeOK, CallsOK, CallReturns, CallTimesOut
    <3>2. begun \in 0..MaxCalls
      BY DEF TypeOK, CallsOK
    <3>3. begun' \in 0..MaxCalls /\ next_id' \in 1..begun' + 1
      BY <3>1, <3>2
    <3>4. QED
      BY <2>1, <3>1, <3>3 DEF TypeOK, CallsOK
  <2>3. ServerOK'
    BY <1>3, PartsUntouched DEF CallReturns, CallTimesOut
  <2>4. QED
    BY <1>b, <2>2, <2>3 DEF TypeOK
<1>4. QED
  BY <1>1, <1>2, <1>3 DEF CallStep

LEMMA ServerTypes ==
  ASSUME TypeOK, ServerStep \/ ConnectEarly \/ RestartService
  PROVE  TypeOK'
<1> USE BoundAssumption DEF Unserved
<1>1. CASE Accept \/ ConnectEarly
  <2>1. CallsOK' /\ HistoryOK'
    BY <1>1, PartsUntouched DEF Accept, ConnectEarly
  <2>2. ServerOK'
    BY <1>1 DEF TypeOK, ServerOK, Accept, ConnectEarly
  <2>3. PipeOK'
    <3>1. /\ serverOpen' = TRUE /\ helperOpen' = TRUE
          /\ toHelper' = <<>> /\ toServer' = <<>>
      BY <1>1 DEF Accept, ConnectEarly
    <3>2. QED
      BY <3>1 DEF PipeOK
  <2>4. HelperOK'
    BY <1>1 DEF TypeOK, HelperOK, Accept, ConnectEarly
  <2>5. QED
    BY <2>1, <2>2, <2>3, <2>4 DEF TypeOK
<1>2. CASE DrainRequest
  <2>1. CallsOK' /\ HistoryOK' /\ HelperOK'
    BY <1>2, PartsUntouched DEF DrainRequest
  <2>2. Head(rx) \in Rpc /\ Tail(rx) \in Seq(Rpc)
    BY <1>2, TakeFacts DEF TypeOK, ServerOK, DrainRequest
  <2>3. ServerOK'
    BY <1>2, <2>2 DEF TypeOK, ServerOK, DrainRequest
  <2>4. toHelper' \in Seq(Rpc)
    <3>1. toHelper \in Seq(Rpc)
      BY DEF TypeOK, PipeOK
    <3>2. Append(toHelper, Head(rx)) \in Seq(Rpc)
      BY <2>2, <3>1, PutFacts
    <3>3. QED
      BY <1>2, <3>1, <3>2 DEF DrainRequest
  <2>5. PipeOK'
    BY <1>2, <2>4 DEF TypeOK, PipeOK, DrainRequest
  <2>6. QED
    BY <2>1, <2>3, <2>5 DEF TypeOK
<1>3. CASE \/ CreateInstance \/ Listen \/ RefuseEarly
           \/ DrainDone \/ ReadNothing \/ ReadError \/ WithdrawSender
  <2>1. CallsOK' /\ HistoryOK' /\ HelperOK' /\ PipeOK'
    BY <1>3, PartsUntouched DEF CreateInstance, Listen, RefuseEarly, DrainDone,
       ReadNothing, ReadError, WithdrawSender
  <2>2. ServerOK'
    BY <1>3 DEF TypeOK, ServerOK, CreateInstance, Listen, RefuseEarly, DrainDone,
       ReadNothing, ReadError, WithdrawSender
  <2>3. QED
    BY <2>1, <2>2 DEF TypeOK
<1>4. CASE ReadSnapshot
  <2>1. CallsOK' /\ HistoryOK' /\ HelperOK'
    BY <1>4, PartsUntouched DEF ReadSnapshot
  <2>2. Head(toServer) \in Frame /\ Tail(toServer) \in Seq(Frame)
    BY <1>4, TakeFacts DEF TypeOK, PipeOK, ReadSnapshot
  <2>3. values' \in Helpers
    BY <1>4, <2>2, FrameTypes DEF ReadSnapshot
  <2>4. ServerOK'
    BY <1>4, <2>3 DEF TypeOK, ServerOK, ReadSnapshot
  <2>5. PipeOK'
    BY <1>4, <2>2 DEF TypeOK, PipeOK, ReadSnapshot
  <2>6. QED
    BY <2>1, <2>4, <2>5 DEF TypeOK
<1>5. CASE ReadResult
  <2>1. HistoryOK' /\ HelperOK'
    BY <1>5, PartsUntouched DEF ReadResult
  <2>2. Head(toServer) \in Frame /\ Tail(toServer) \in Seq(Frame)
    BY <1>5, TakeFacts DEF TypeOK, PipeOK, ReadResult
  <2>3. \E calls : \E what \in {"ok", "failed"} : Answer(calls, what)
    BY <1>5 DEF ReadResult
  <2>4. CallsOK'
    BY <1>5, <2>3, AnswerType DEF TypeOK, ReadResult
  <2>5. ServerOK'
    BY <1>5 DEF TypeOK, ServerOK, ReadResult
  <2>6. PipeOK'
    BY <1>5, <2>2 DEF TypeOK, PipeOK, ReadResult
  <2>7. QED
    BY <2>1, <2>4, <2>5, <2>6 DEF TypeOK
<1>6. CASE EndSession
  <2>1. HistoryOK' /\ HelperOK'
    BY <1>6, PartsUntouched DEF EndSession
  <2>2. CallsOK'
    BY <1>6, AnswerType DEF TypeOK, EndSession
  <2>3. ServerOK'
    BY <1>6 DEF TypeOK, ServerOK, EndSession
  <2>4. PipeOK'
    BY <1>6 DEF TypeOK, PipeOK, EndSession
  <2>5. QED
    BY <2>1, <2>2, <2>3, <2>4 DEF TypeOK
<1>7. CASE RestartService
  <2>1. HelperOK'
    BY <1>7, PartsUntouched DEF RestartService
  <2>2. CallsOK'
    <3>a. begun \in 0..MaxCalls
      BY DEF TypeOK, CallsOK
    <3>1. begun \in 0..MaxCalls /\ 1 \in 1..begun + 1
      BY <3>a
    <3>2. QED
      BY <1>7, <3>1 DEF TypeOK, CallsOK, RestartService
  <2>3. ServerOK'
    BY <1>7 DEF TypeOK, ServerOK, RestartService
  <2>4. PipeOK' /\ HistoryOK'
    <3>1. restarts' \in 0..MaxRestarts
      BY <1>7 DEF TypeOK, HistoryOK, RestartService
    <3>2. PipeOK'
      BY <1>7 DEF TypeOK, PipeOK, RestartService
    <3>3. HistoryOK'
      BY <1>7, <3>1 DEF TypeOK, HistoryOK, RestartService
    <3>4. QED
      BY <3>2, <3>3
  <2>5. QED
    BY <2>1, <2>2, <2>3, <2>4 DEF TypeOK
<1>8. QED
  BY <1>1, <1>2, <1>3, <1>4, <1>5, <1>6, <1>7 DEF ServerStep

LEMMA HelperTypes ==
  ASSUME TypeOK, \/ StartHelper \/ SendSnapshot \/ HandleRpc \/ WriteResult
                 \/ PollDone \/ HelperDies
  PROVE  TypeOK'
<1> USE BoundAssumption
<1>a. CallsOK' /\ ServerOK'
  BY PartsUntouched
  DEF StartHelper, SendSnapshot, HandleRpc, WriteResult, PollDone, HelperDies
<1>1. CASE StartHelper \/ PollDone
  <2>1. PipeOK' /\ HistoryOK'
    BY <1>1, PartsUntouched DEF StartHelper, PollDone
  <2>2. HelperOK'
    BY <1>1 DEF TypeOK, HelperOK, StartHelper, HelperAlive, PollDone
  <2>3. QED
    BY <1>a, <2>1, <2>2 DEF TypeOK
<1>2. CASE SendSnapshot
  <2>1. HistoryOK'
    BY <1>2, PartsUntouched DEF SendSnapshot
  <2>2. HelperOK'
    BY <1>2 DEF TypeOK, HelperOK, SendSnapshot
  <2>3. [kind |-> "snapshot", from |-> inc] \in Frame
    BY <1>2, FrameTypes DEF TypeOK, HelperOK, SendSnapshot, Helpers
  <2>4. toServer' \in Seq(Frame) /\ helperOpen' \in BOOLEAN
    <3>1. toServer \in Seq(Frame)
      BY DEF TypeOK, PipeOK
    <3>2. Append(toServer, [kind |-> "snapshot", from |-> inc]) \in Seq(Frame)
      BY <2>3, <3>1, PutFacts
    <3>3. QED
      BY <1>2, <3>1, <3>2 DEF TypeOK, PipeOK, SendSnapshot
  <2>5. PipeOK'
    BY <1>2, <2>4 DEF TypeOK, PipeOK, SendSnapshot
  <2>6. QED
    BY <1>a, <2>1, <2>2, <2>5 DEF TypeOK
<1>3. CASE HandleRpc
  <2>1. Head(toHelper) \in Rpc /\ Tail(toHelper) \in Seq(Rpc)
    BY <1>3, TakeFacts DEF TypeOK, PipeOK, HandleRpc
  <2>2. HelperOK'
    <3>1. /\ executing' \in [rpc : Rpc \cup {NoRpc}, ok : BOOLEAN]
          /\ executing'.rpc = Head(toHelper) /\ helper' = "reply" /\ inc' = inc
      BY <1>3, <2>1 DEF HandleRpc
    <3>2. QED
      BY <1>3, <2>1, <3>1, RpcTypes DEF TypeOK, HelperOK, HandleRpc
  <2>3. PipeOK'
    BY <1>3, <2>1 DEF TypeOK, PipeOK, HandleRpc
  <2>4. HistoryOK'
    <3>1. Append(effects, Head(toHelper).call) \in Seq(Calls)
      BY <2>1, RpcTypes, PutFacts DEF TypeOK, HistoryOK
    <3>2. effects' \in Seq(Calls)
      BY <1>3, <3>1 DEF HandleRpc, TypeOK, HistoryOK
    <3>3. QED
      BY <1>3, <3>2 DEF TypeOK, HistoryOK, HandleRpc, boundVars
  <2>5. QED
    BY <1>a, <2>2, <2>3, <2>4 DEF TypeOK
<1>4. CASE WriteResult
  <2>1. HistoryOK'
    BY <1>4, PartsUntouched DEF WriteResult
  <2>2. HelperOK'
    BY <1>4 DEF TypeOK, HelperOK, WriteResult, NothingToReply
  <2>3. executing.rpc \in Rpc /\ executing.ok \in BOOLEAN
    BY <1>4 DEF TypeOK, HelperOK, WriteResult
  <2>4. toServer' \in Seq(Frame) /\ helperOpen' \in BOOLEAN
    <3>1. toServer \in Seq(Frame)
      BY DEF TypeOK, PipeOK
    <3>2. [kind |-> "result", rpc |-> executing.rpc, ok |-> executing.ok] \in Frame
      BY <2>3, FrameTypes
    <3>3. Append(toServer, [kind |-> "result", rpc |-> executing.rpc,
                            ok |-> executing.ok]) \in Seq(Frame)
      BY <3>1, <3>2, PutFacts
    <3>4. QED
      BY <1>4, <3>1, <3>3 DEF TypeOK, PipeOK, WriteResult
  <2>5. PipeOK'
    BY <1>4, <2>4 DEF TypeOK, PipeOK, WriteResult
  <2>6. QED
    BY <1>a, <2>1, <2>2, <2>5 DEF TypeOK
<1>5. CASE HelperDies
  <2>1. HistoryOK'
    BY <1>5 DEF TypeOK, HistoryOK, HelperDies
  <2>2. HelperOK'
    BY <1>5 DEF TypeOK, HelperOK, HelperDies, NothingToReply
  <2>3. toServer' \in Seq(Frame)
    BY <1>5, FrameTypes, PutFacts DEF TypeOK, PipeOK, HelperDies
  <2>4. PipeOK'
    BY <1>5, <2>3 DEF TypeOK, PipeOK, HelperDies
  <2>5. QED
    BY <1>a, <2>1, <2>2, <2>4 DEF TypeOK
<1>6. QED
  BY <1>1, <1>2, <1>3, <1>4, <1>5

LEMMA NextTypeOK == TypeOK /\ [Next]_vars => TypeOK'
<1> SUFFICES ASSUME TypeOK, [Next]_vars PROVE TypeOK'
  OBVIOUS
<1>1. CASE UNCHANGED vars
  <2>1. UNCHANGED <<callVars, serverVars, pipeVars, helperVars, effects, boundVars>>
    BY <1>1 DEF vars
  <2>2. QED
    BY <2>1, PartsUntouched DEF TypeOK
<1>2. QED
  BY <1>1, CallTypes, ServerTypes, HelperTypes DEF Next, HelperStep

\* Every variable stays in its range: in particular the hub offers a sender
\* exactly while a session can take requests, and nothing of a session is left
\* when the server waits for the next one.
THEOREM TypeCorrect == Spec => []TypeOK
  BY InitTypeOK, NextTypeOK, PTL DEF Spec

(* The values of the hub *)

\* Snapshots on their way come from the helper that is connected, and only a
\* connected helper holds its end of the pipe.
ValuesInv ==
    /\ helperOpen => helper \in {"snapshot", "poll", "reply"}
    /\ serverOpen /\ helperOpen =>
           /\ values \in {NoHelper, inc}
           /\ \A f \in Range(toServer) : f.kind = "snapshot" => f.from = inc

LEMMA ValuesServer ==
  ASSUME TypeOK, ValuesInv, ServerStep \/ ConnectEarly \/ RestartService
  PROVE  ValuesInv'
<1>1. UNCHANGED inc
  BY DEF ServerStep, CreateInstance, Listen, RefuseEarly, Accept, ConnectEarly, DrainRequest, DrainDone, ReadNothing, ReadSnapshot,
         ReadResult, ReadError, WithdrawSender, EndSession, RestartService, helperVars
<1>2. CASE Accept \/ ConnectEarly
  <2>1. values' = NoHelper /\ Range(toServer') = {} /\ helper' = "snapshot"
    BY <1>2, NothingQueued DEF Accept, ConnectEarly, TypeOK, ServerOK, Unserved
  <2>2. QED
    BY <2>1 DEF ValuesInv
<1>3. CASE EndSession \/ RestartService
  BY <1>3 DEF EndSession, RestartService, ValuesInv, helperVars
<1>4. CASE ReadSnapshot \/ ReadResult
  <2>1. /\ toServer \in Seq(Frame) /\ toServer # <<>> /\ toServer' = Tail(toServer)
        /\ UNCHANGED <<helper, serverOpen, helperOpen>>
        /\ \/ values' = values
           \/ Head(toServer).kind = "snapshot" /\ values' = Head(toServer).from
    BY <1>4 DEF ReadSnapshot, ReadResult, TypeOK, PipeOK, helperVars
  <2>2. Range(toServer') \subseteq Range(toServer) /\ Head(toServer) \in Range(toServer)
    BY <2>1, TakeFacts
  <2>3. QED
    BY <1>1, <2>1, <2>2 DEF ValuesInv
<1>5. CASE \/ CreateInstance \/ Listen \/ RefuseEarly
           \/ DrainRequest \/ DrainDone \/ ReadNothing \/ ReadError \/ WithdrawSender
  <2>1. UNCHANGED <<values, toServer, helper, serverOpen, helperOpen>>
    BY <1>5 DEF CreateInstance, Listen, RefuseEarly, DrainRequest, DrainDone,
                ReadNothing, ReadError, WithdrawSender, helperVars, pipeVars
  <2>2. QED
    BY <1>1, <2>1 DEF ValuesInv
<1>6. QED
  BY <1>2, <1>3, <1>4, <1>5 DEF ServerStep

LEMMA ValuesHelper ==
  ASSUME TypeOK, ValuesInv, \/ StartHelper \/ SendSnapshot \/ HandleRpc \/ WriteResult
                            \/ PollDone \/ HelperDies
  PROVE  ValuesInv'
<1>1. UNCHANGED <<values, serverOpen>>
  BY DEF StartHelper, SendSnapshot, HandleRpc, WriteResult, PollDone,
         HelperDies, serverVars, pipeVars
<1>2. CASE StartHelper
  <2>1. ~helperOpen /\ ~helperOpen'
    BY <1>2 DEF StartHelper, ValuesInv, HelperAlive, pipeVars
  <2>2. QED
    BY <2>1 DEF ValuesInv
<1>3. CASE HandleRpc \/ PollDone
  BY <1>1, <1>3 DEF HandleRpc, PollDone, ValuesInv, pipeVars
<1>4. CASE HelperDies
  BY <1>4 DEF HelperDies, ValuesInv
<1>5. CASE SendSnapshot \/ WriteResult
  <2>1. CASE ~helperOpen'
    BY <2>1 DEF ValuesInv
  <2>2. CASE helperOpen'
    <3>1. PICK f \in Frame :
            /\ f.kind = "snapshot" => f.from = inc
            /\ helper' = "poll" /\ UNCHANGED <<inc, helperOpen>>
            /\ toServer' = Append(toServer, f)
      <4>1. CASE SendSnapshot
        <5>1. inc \in Helpers
          BY <4>1, BoundAssumption DEF SendSnapshot, TypeOK, HelperOK, Helpers
        <5>2. [kind |-> "snapshot", from |-> inc] \in Frame
          BY <5>1, FrameTypes
        <5>3. QED
          BY <2>2, <4>1, <5>2 DEF SendSnapshot
      <4>2. CASE WriteResult
        <5>1. executing.rpc \in Rpc /\ executing.ok \in BOOLEAN
          BY <4>2 DEF WriteResult, TypeOK, HelperOK
        <5>2. [kind |-> "result", rpc |-> executing.rpc, ok |-> executing.ok] \in Frame
          BY <5>1, FrameTypes
        <5>3. QED
          BY <2>2, <4>2, <5>2 DEF WriteResult
      <4>3. QED
        BY <1>5, <4>1, <4>2
    <3>2. Range(toServer') = Range(toServer) \cup {f}
      BY <3>1, PutFacts DEF TypeOK, PipeOK
    <3>3. QED
      BY <1>1, <3>1, <3>2 DEF ValuesInv
  <2>3. QED
    BY <2>1, <2>2
<1>6. QED
  BY <1>2, <1>3, <1>4, <1>5

\* The hub never shows the session of an earlier helper as that of the connected
\* one, for any number of helpers, crashes and restarts.
THEOREM ValuesOwn == Spec => []SessionValuesOwn
<1>1. Init => ValuesInv
  BY DEF Init, ValuesInv
<1>2. ASSUME TypeOK, ValuesInv, [Next]_vars PROVE ValuesInv'
  <2>1. CASE UNCHANGED <<serverVars, helperVars, pipeVars>>
    BY <1>2, <2>1 DEF ValuesInv, serverVars, helperVars, pipeVars
  <2>2. CASE BeginCall \/ CallStep
    <3>1. UNCHANGED <<values, inc, helper, toServer, serverOpen, helperOpen>>
      BY <2>2 DEF BeginCall, CallStep, SendCall, CallReturns, CallTimesOut, serverVars,
                  helperVars, pipeVars
    <3>2. QED
      BY <1>2, <3>1 DEF ValuesInv
  <2>3. QED
    BY <1>2, <2>1, <2>2, ValuesServer, ValuesHelper DEF Next, HelperStep, vars
<1>3. ValuesInv => SessionValuesOwn
  BY DEF ValuesInv, SessionValuesOwn
<1>4. QED
  BY <1>1, <1>2, <1>3, TypeCorrect, PTL DEF Spec
=============================================================================
