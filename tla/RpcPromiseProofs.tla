-------------------------- MODULE RpcPromiseProofs --------------------------
(* SessionHub implements DesktopRpc, for every number of calls, helpers,     *)
(* crashes and restarts: the inductive invariant PromiseInv, kept by every   *)
(* step, and the step of DesktopRpc that each step of the pipe takes.        *)
EXTENDS SessionHubProofs

\* Calls that took effect, requests on their way to the helper, and results on
\* their way back.
Took == Range(effects)
Outstanding == Range(toHelper) \cup Range(rx)
Results ==
    (IF helper = "reply" THEN {executing} ELSE {})
    \cup {[rpc |-> f.rpc, ok |-> f.ok] :
              f \in {g \in Range(toServer) : g.kind = "result"}}

Increasing(s) == \A i, j \in 1..Len(s) : i < j => s[i].call < s[j].call

\* What the main task knows of its current call.
CallerInv ==
    /\ \A c \in Calls : c > begun => outcome[c] = "none"
    /\ caller # "idle" => outcome[begun] = "none"
    /\ caller = "cloned" => reply = "none"
    /\ caller = "cloned" => \A r \in Outstanding : r.call # begun
    /\ caller = "cloned" => begun \notin Took
    /\ caller = "waiting" /\ reply \in {"ok", "failed"} =>
           /\ \A r \in Outstanding : r.call # begun
           /\ reply = "ok" <=> begun \in Took

\* The requests are in the order of their calls, after everything that took
\* effect, and none of them has been answered.
QueuesInv ==
    /\ Increasing(toHelper) /\ Increasing(rx)
    /\ \A a \in Range(toHelper), b \in Range(rx) : a.call < b.call

OutstandingInv ==
    \A r \in Outstanding :
        /\ r.call <= begun
        /\ \A e \in Took : e < r.call
        /\ outcome[r.call] \in {"none", "dropped", "timed out"}

TookInv == \A e \in Took : e <= begun

\* A result tells the truth, and about a call that is over.
ResultInv ==
    \A r \in Results :
        /\ r.ok <=> r.rpc.call \in Took
        /\ \A o \in Outstanding : r.rpc.call < o.call
        /\ r.rpc.call <= begun
        /\ caller = "cloned" => r.rpc.call # begun

\* Within a session the wire id determines the call.
Numbered(r) == r.call = r.id + begun + 1 - next_id
IdInv ==
    /\ \A r \in pending \cup Range(rx) : Numbered(r)
    /\ srv \notin Unserved => \A r \in Range(toHelper) : Numbered(r)
    /\ srv \notin Unserved => \A r \in Results : Numbered(r.rpc)

PromiseInv ==
    /\ CallerInv /\ QueuesInv /\ OutstandingInv /\ TookInv /\ ResultInv /\ IdInv

(* Types, as the steps below need them. *)

LEMMA CallFacts ==
  ASSUME TypeOK
  PROVE  /\ begun \in 0..MaxCalls /\ begun \in Nat /\ next_id \in Nat
         /\ Took \subseteq Calls /\ Took \subseteq Nat /\ Calls \subseteq Nat
         /\ Range(toHelper) \subseteq Rpc /\ Range(rx) \subseteq Rpc
         /\ Outstanding \subseteq Rpc /\ pending \subseteq Rpc
         /\ \A r \in Rpc : r.id \in Nat /\ r.call \in Nat /\ r.call \in Calls
<1>1. begun \in 0..MaxCalls /\ next_id \in (IF caller = "idle" THEN 1 ELSE 2)..begun + 1
  BY DEF TypeOK, CallsOK
<1>2. begun \in Nat /\ next_id \in Nat
  BY <1>1, BoundAssumption
<1>3. Calls \subseteq Nat /\ Ids \subseteq Nat
  BY BoundAssumption DEF Calls, Ids
<1>4. Took \subseteq Calls
  BY RangeOfSeq DEF TypeOK, HistoryOK, Took
<1>5. Range(toHelper) \subseteq Rpc /\ Range(rx) \subseteq Rpc /\ pending \subseteq Rpc
  BY RangeOfSeq DEF TypeOK, PipeOK, ServerOK
<1>6. \A r \in Rpc : r.id \in Nat /\ r.call \in Nat /\ r.call \in Calls
  BY <1>3, RpcTypes
<1>7. QED
  BY <1>1, <1>2, <1>3, <1>4, <1>5, <1>6 DEF Outstanding

LEMMA CallInProgress ==
  ASSUME TypeOK, caller # "idle"
  PROVE  begun \in Calls /\ begun > 0
<1>1. begun \in 0..MaxCalls /\ next_id \in 2..begun + 1
  BY DEF TypeOK, CallsOK
<1>2. begun \in 1..MaxCalls
  BY <1>1, BoundAssumption
<1>3. QED
  BY <1>2, BoundAssumption DEF Calls

LEMMA ResultFacts ==
  ASSUME TypeOK, NEW r \in Results
  PROVE  r.rpc \in Rpc /\ r.ok \in BOOLEAN
<1>1. CASE helper = "reply" /\ r = executing
  BY <1>1 DEF TypeOK, HelperOK
<1>2. CASE \E f \in Range(toServer) : f.kind = "result" /\ r = [rpc |-> f.rpc, ok |-> f.ok]
  <2>1. Range(toServer) \subseteq Frame
    BY RangeOfSeq DEF TypeOK, PipeOK
  <2>2. QED
    BY <1>2, <2>1, FrameTypes
<1>3. QED
  BY <1>1, <1>2 DEF Results

(* Queues in order. *)

LEMMA IncreasingTail ==
  ASSUME NEW s \in Seq(Rpc), s # <<>>, Increasing(s)
  PROVE  /\ Increasing(Tail(s))
         /\ \A x \in Range(Tail(s)) : Head(s).call < x.call
<1>1. /\ Tail(s) \in Seq(Rpc) /\ Len(s) \in Nat /\ Len(s) >= 1 /\ s[1] = Head(s)
      /\ Len(Tail(s)) = Len(s) - 1
      /\ \A i \in 1..Len(Tail(s)) : Tail(s)[i] = s[i + 1]
  BY TakeFacts
<1>2. Increasing(Tail(s))
  BY <1>1 DEF Increasing
<1>3. ASSUME NEW i \in 1..Len(Tail(s)) PROVE Head(s).call < Tail(s)[i].call
  <2>1. i + 1 \in 1..Len(s) /\ 1 \in 1..Len(s) /\ 1 < i + 1
    BY <1>1
  <2>2. s[1].call < s[i + 1].call
    BY <2>1 DEF Increasing
  <2>3. QED
    BY <1>1, <2>2
<1>4. Range(Tail(s)) = {Tail(s)[i] : i \in 1..Len(Tail(s))}
  BY <1>1, RangeEquality
<1>5. QED
  BY <1>2, <1>3, <1>4

LEMMA IncreasingAppend ==
  ASSUME NEW s \in Seq(Rpc), NEW e \in Rpc, Increasing(s),
         \A x \in Range(s) : x.call < e.call
  PROVE  Increasing(Append(s, e))
<1>1. /\ Len(s) \in Nat /\ Len(Append(s, e)) = Len(s) + 1
      /\ \A i \in 1..Len(s) : Append(s, e)[i] = s[i]
      /\ Append(s, e)[Len(s) + 1] = e
  BY PutFacts
<1>2. \A i \in 1..Len(s) : s[i] \in Range(s)
  BY RangeEquality
<1>3. ASSUME NEW i \in 1..Len(s) + 1, NEW j \in 1..Len(s) + 1, i < j
      PROVE  Append(s, e)[i].call < Append(s, e)[j].call
  <2>1. i \in 1..Len(s) /\ (j \in 1..Len(s) \/ j = Len(s) + 1)
    BY <1>1, <1>3
  <2>2. CASE j \in 1..Len(s)
    BY <1>1, <1>3, <2>1, <2>2 DEF Increasing
  <2>3. CASE j = Len(s) + 1
    BY <1>1, <1>2, <2>1, <2>3
  <2>4. QED
    BY <2>1, <2>2, <2>3
<1>4. QED
  BY <1>1, <1>3 DEF Increasing

LEMMA IncreasingEmpty == Increasing(<<>>)
  BY DEF Increasing

LEMMA PromiseInit == Init => PromiseInv
<1> SUFFICES ASSUME Init PROVE PromiseInv
  OBVIOUS
<1>1. /\ Took = {} /\ Outstanding = {} /\ Results = {} /\ pending = {} /\ Range(rx) = {}
      /\ Range(toHelper) = {}
  BY NothingQueued DEF Init, Took, Outstanding, Results
<1>2. QED
  BY <1>1, IncreasingEmpty
  DEF Init, PromiseInv, CallerInv, QueuesInv, OutstandingInv, TookInv, ResultInv, IdInv

(* A step that answers nothing and adds nothing to what is on its way. *)
LEMMA PromiseShrinks ==
  ASSUME PromiseInv, UNCHANGED <<callVars, effects>>,
         Outstanding' \subseteq Outstanding, Results' \subseteq Results,
         QueuesInv', IdInv'
  PROVE  PromiseInv'
<1>1. UNCHANGED <<caller, begun, reply, next_id, outcome>> /\ Took' = Took
  BY DEF callVars, Took
<1>2. CallerInv'
  BY <1>1 DEF PromiseInv, CallerInv
<1>3. OutstandingInv' /\ TookInv'
  BY <1>1 DEF PromiseInv, OutstandingInv, TookInv
<1>4. ResultInv'
  BY <1>1 DEF PromiseInv, ResultInv
<1>5. QED
  BY <1>2, <1>3, <1>4 DEF PromiseInv

(* The main task *)

LEMMA PromiseBegin ==
  ASSUME TypeOK, PromiseInv, BeginCall
  PROVE  PromiseInv'
<1> USE CallFacts
<1>1. /\ caller = "idle" /\ begun < MaxCalls
      /\ begun' = begun + 1 /\ next_id' = next_id + 1 /\ reply' = "none"
      /\ \/ caller' = caller /\ outcome' = [outcome EXCEPT ![begun + 1] = "refused"]
         \/ caller' = "cloned" /\ outcome' = outcome
      /\ UNCHANGED <<serverVars, helperVars, pipeVars, effects>>
  BY DEF BeginCall
<1>2. /\ Took' = Took /\ Outstanding' = Outstanding /\ Results' = Results
      /\ UNCHANGED <<toHelper, rx, pending, srv>>
  BY <1>1 DEF Took, Outstanding, Results, serverVars, helperVars, pipeVars
<1>3. begun + 1 \in Calls /\ DOMAIN outcome = Calls
  <2>1. begun \in 0..MaxCalls /\ begun < MaxCalls
    BY <1>1
  <2>2. begun + 1 \in Calls
    BY <2>1, BoundAssumption DEF Calls
  <2>3. DOMAIN outcome = Calls
    BY DEF TypeOK, CallsOK
  <2>4. QED
    BY <2>2, <2>3
<1>4. \A r \in Outstanding : r.call <= begun /\ r.call \in Calls /\ r.call \in Nat
  BY DEF PromiseInv, OutstandingInv
<1>5. \A e \in Took : e <= begun /\ e \in Nat
  BY DEF PromiseInv, TookInv
<1>6. \A c \in Calls : c # begun + 1 => outcome'[c] = outcome[c]
  BY <1>1, <1>3
<1>7. CallerInv'
  <2>0. \A c \in Calls : c > begun => outcome[c] = "none"
    BY DEF PromiseInv, CallerInv
  <2>1. \A c \in Calls : c > begun' => outcome'[c] = "none"
    BY <1>1, <1>6, <2>0
  <2>2. caller' # "idle" => outcome'[begun'] = "none"
    <3>1. outcome[begun + 1] = "none"
      BY <1>3, <2>0
    <3>2. QED
      BY <1>1, <3>1
  <2>3. \A r \in Outstanding' : r.call # begun'
    BY <1>1, <1>2, <1>4
  <2>4. begun' \notin Took'
    BY <1>1, <1>2, <1>5
  <2>5. QED
    BY <1>1, <2>1, <2>2, <2>3, <2>4 DEF CallerInv
<1>8. OutstandingInv' /\ TookInv' /\ QueuesInv'
  <2>1. OutstandingInv'
    <3>1. ASSUME NEW r \in Outstanding
          PROVE  /\ r.call <= begun'
                 /\ \A e \in Took : e < r.call
                 /\ outcome'[r.call] \in {"none", "dropped", "timed out"}
      <4>1. r.call \in Calls /\ r.call # begun + 1 /\ r.call <= begun + 1
        BY <1>4
      <4>2. outcome'[r.call] = outcome[r.call]
        BY <1>6, <4>1
      <4>3. QED
        BY <1>1, <4>1, <4>2 DEF PromiseInv, OutstandingInv
    <3>2. QED
      BY <1>2, <3>1 DEF OutstandingInv
  <2>2. TookInv'
    BY <1>1, <1>2, <1>5 DEF TookInv
  <2>3. QED
    BY <1>2, <2>1, <2>2 DEF PromiseInv, QueuesInv
<1>9. ResultInv'
  <2>1. \A r \in Results : r.rpc.call \in Nat
    BY ResultFacts
  <2>2. QED
    BY <1>1, <1>2, <2>1 DEF PromiseInv, ResultInv
<1>10. IdInv'
  <2>1. ASSUME NEW r \in Rpc, Numbered(r) PROVE Numbered(r)'
    BY <1>1, <2>1 DEF Numbered
  <2>2. QED
    BY <1>1, <1>2, <2>1, ResultFacts DEF PromiseInv, IdInv
<1>11. QED
  BY <1>7, <1>8, <1>9, <1>10 DEF PromiseInv

LEMMA PromiseSend ==
  ASSUME TypeOK, PromiseInv, SendCall
  PROVE  PromiseInv'
<1> USE CallFacts
<1>1. /\ caller = "cloned" /\ reply = "none" /\ outcome[begun] = "none"
      /\ begun \notin Took /\ \A r \in Outstanding : r.call # begun
      /\ UNCHANGED <<begun, reply, next_id, srv, pending, toHelper, effects>>
      /\ Took' = Took /\ Results' = Results
  BY DEF SendCall, PromiseInv, CallerInv, Took, Results, helperVars, pipeVars
<1>2. begun \in Calls /\ next_id - 1 \in Ids
  <2>1. next_id \in 2..begun + 1
    BY <1>1 DEF TypeOK, CallsOK
  <2>2. QED
    BY <2>1, BoundAssumption DEF Calls, Ids
<1>3. CASE rx' = Append(rx, [id |-> next_id - 1, call |-> begun])
          /\ caller' = "waiting" /\ outcome' = outcome
  <2>1. PICK e \in Rpc : e = [id |-> next_id - 1, call |-> begun]
    BY <1>2, RpcTypes
  <2>2. e.call = begun /\ e.id = next_id - 1 /\ rx' = Append(rx, e)
    BY <1>3, <2>1
  <2>3. /\ rx \in Seq(Rpc) /\ Range(rx') = Range(rx) \cup {e}
        /\ Outstanding' = Outstanding \cup {e}
    <3>1. rx \in Seq(Rpc)
      BY DEF TypeOK, ServerOK
    <3>2. Range(rx') = Range(rx) \cup {e}
      BY <2>2, <3>1, PutFacts
    <3>3. QED
      BY <1>1, <3>1, <3>2 DEF Outstanding
  <2>4. ASSUME NEW r \in Outstanding PROVE r.call < begun
    <3>1. r.call <= begun /\ r.call # begun /\ r.call \in Nat
      BY <1>1 DEF PromiseInv, OutstandingInv
    <3>2. QED
      BY <3>1
  <2>5. CallerInv'
    BY <1>1, <1>3 DEF PromiseInv, CallerInv
  <2>6. QueuesInv'
    <3>1. Increasing(rx')
      BY <2>2, <2>3, <2>4, IncreasingAppend DEF PromiseInv, QueuesInv, Outstanding
    <3>2. QED
      BY <1>1, <2>2, <2>3, <2>4, <3>1 DEF PromiseInv, QueuesInv, Outstanding
  <2>7. OutstandingInv' /\ TookInv'
    <3>1. \A t \in Took : t < begun
      BY <1>1 DEF PromiseInv, TookInv
    <3>2. ASSUME NEW r \in Outstanding'
          PROVE  /\ r.call <= begun
                 /\ \A t \in Took : t < r.call
                 /\ outcome[r.call] \in {"none", "dropped", "timed out"}
      <4>1. CASE r \in Outstanding
        BY <4>1 DEF PromiseInv, OutstandingInv
      <4>2. CASE r = e
        <5>1. r.call = begun /\ outcome[begun] = "none" /\ begun <= begun
          BY <1>1, <2>2, <4>2
        <5>2. QED
          BY <3>1, <5>1
      <4>3. QED
        BY <2>3, <4>1, <4>2
    <3>3. OutstandingInv'
      BY <1>1, <1>3, <3>2 DEF OutstandingInv
    <3>4. TookInv'
      BY <1>1 DEF PromiseInv, TookInv
    <3>5. QED
      BY <3>3, <3>4
  <2>8. ResultInv'
    <3>1. \A r \in Results : r.rpc.call < begun
      BY <1>1, ResultFacts DEF PromiseInv, ResultInv
    <3>2. QED
      BY <1>1, <1>3, <2>2, <2>3, <3>1 DEF PromiseInv, ResultInv
  <2>9. IdInv'
    <3>1. Numbered(e)
      BY <2>2 DEF Numbered
    <3>2. \A r : Numbered(r)' = Numbered(r)
      BY <1>1 DEF Numbered
    <3>3. QED
      BY <1>1, <2>3, <3>1, <3>2 DEF PromiseInv, IdInv
  <2>10. QED
    BY <2>5, <2>6, <2>7, <2>8, <2>9 DEF PromiseInv
<1>4. CASE rx' = rx /\ caller' = "idle"
          /\ outcome' = [outcome EXCEPT ![begun] = "refused"]
  <2>1. Outstanding' = Outstanding
    BY <1>1, <1>4 DEF Outstanding
  <2>2. \A c \in Calls : c # begun => outcome'[c] = outcome[c]
    BY <1>4 DEF TypeOK, CallsOK
  <2>3. CallerInv'
    BY <1>1, <1>4, <2>2 DEF PromiseInv, CallerInv
  <2>4. OutstandingInv'
    BY <1>1, <2>1, <2>2 DEF PromiseInv, OutstandingInv
  <2>5. ResultInv' /\ TookInv' /\ QueuesInv'
    BY <1>1, <1>4, <2>1 DEF PromiseInv, ResultInv, TookInv, QueuesInv
  <2>6. IdInv'
    BY <1>1, <1>4 DEF PromiseInv, IdInv, Numbered
  <2>7. QED
    BY <2>3, <2>4, <2>5, <2>6 DEF PromiseInv
<1>5. QED
  BY <1>3, <1>4 DEF SendCall

LEMMA PromiseReturn ==
  ASSUME TypeOK, PromiseInv, CallReturns \/ CallTimesOut
  PROVE  PromiseInv'
<1> USE CallFacts
<1>1. /\ caller = "waiting" /\ caller' = "idle"
      /\ UNCHANGED <<begun, reply, next_id, srv, rx, pending, toHelper, effects>>
      /\ Took' = Took /\ Results' = Results /\ Outstanding' = Outstanding
  BY DEF CallReturns, CallTimesOut, Took, Results, Outstanding, serverVars, helperVars,
         pipeVars
<1>2. PICK what : /\ outcome' = [outcome EXCEPT ![begun] = what]
                  /\ what \in {reply, "timed out"} \ {"none"}
  BY DEF CallReturns, CallTimesOut
<1>3. begun \in Calls /\ outcome'[begun] = what
      /\ \A c \in Calls : c # begun => outcome'[c] = outcome[c]
  <2>1. next_id \in 2..begun + 1
    BY <1>1 DEF TypeOK, CallsOK
  <2>2. begun \in Calls
    BY <2>1, BoundAssumption DEF Calls
  <2>3. QED
    BY <1>2, <2>2 DEF TypeOK, CallsOK
<1>4. CallerInv'
  BY <1>1, <1>3 DEF PromiseInv, CallerInv
<1>5. OutstandingInv'
  <2>1. ASSUME NEW r \in Outstanding
        PROVE  outcome'[r.call] \in {"none", "dropped", "timed out"}
    <3>1. CASE r.call # begun
      BY <1>3, <3>1 DEF PromiseInv, OutstandingInv
    <3>2. CASE r.call = begun
      <4>1. reply \notin {"ok", "failed"}
        BY <1>1, <3>2 DEF PromiseInv, CallerInv
      <4>2. reply \in {"none", "ok", "failed", "dropped"}
        BY DEF TypeOK, CallsOK
      <4>3. QED
        BY <1>2, <1>3, <3>2, <4>1, <4>2
    <3>3. QED
      BY <3>1, <3>2
  <2>2. QED
    BY <1>1, <2>1 DEF PromiseInv, OutstandingInv
<1>6. ResultInv' /\ TookInv' /\ QueuesInv'
  BY <1>1 DEF PromiseInv, ResultInv, TookInv, QueuesInv
<1>7. IdInv'
  BY <1>1 DEF PromiseInv, IdInv, Numbered
<1>8. QED
  BY <1>4, <1>5, <1>6, <1>7 DEF PromiseInv

(* The server thread and a restart of the service *)

LEMMA ResultsShrink ==
  ASSUME helper' = "reply" => helper = "reply" /\ executing' = executing,
         \A f \in Range(toServer') : f.kind = "result" => f \in Range(toServer)
  PROVE  Results' \subseteq Results
  BY DEF Results

LEMMA PromiseServerQuiet ==
  ASSUME TypeOK, PromiseInv,
         \/ CreateInstance \/ Listen \/ RefuseEarly \/ Accept \/ ConnectEarly
         \/ DrainDone \/ ReadNothing \/ ReadSnapshot \/ ReadError \/ WithdrawSender
  PROVE  PromiseInv'
<1> USE CallFacts DEF Unserved
<1>1. UNCHANGED <<callVars, effects, executing, begun, next_id>>
  BY DEF CreateInstance, Listen, RefuseEarly, Accept, ConnectEarly, DrainDone, ReadNothing, ReadSnapshot, ReadError, WithdrawSender,
         helperVars, callVars
<1>2. \A r : Numbered(r)' = Numbered(r)
  BY <1>1 DEF Numbered
<1>3. CASE Accept \/ ConnectEarly
  <2>0. Range(rx') = {} /\ pending' = {} /\ rx' = <<>>
    BY <1>3, NothingQueued DEF Accept, ConnectEarly, TypeOK, ServerOK
  <2>1. /\ Range(toHelper') = {} /\ Range(rx') = {} /\ pending' = {}
        /\ Range(toServer') = {} /\ helper' = "snapshot"
        /\ Increasing(toHelper') /\ Increasing(rx')
    BY <1>3, <2>0, NothingQueued, IncreasingEmpty DEF Accept, ConnectEarly
  <2>2. Outstanding' = {} /\ Results' = {}
    BY <2>1 DEF Outstanding, Results
  <2>3. QueuesInv' /\ IdInv'
    BY <2>1, <2>2 DEF QueuesInv, IdInv
  <2>4. QED
    BY <1>1, <2>2, <2>3, PromiseShrinks
<1>4. CASE CreateInstance \/ Listen \/ RefuseEarly
  <2>1. /\ UNCHANGED <<rx, pending, toHelper, toServer, helper>> /\ srv' \in Unserved
    BY <1>4 DEF CreateInstance, Listen, RefuseEarly, helperVars, pipeVars
  <2>2. Outstanding' = Outstanding /\ Results' = Results
    BY <1>1, <2>1 DEF Outstanding, Results
  <2>3. QueuesInv' /\ IdInv'
    BY <1>2, <2>1, <2>2 DEF PromiseInv, QueuesInv, IdInv
  <2>4. QED
    BY <1>1, <2>2, <2>3, PromiseShrinks
<1>5. CASE DrainDone \/ ReadNothing \/ ReadSnapshot \/ ReadError \/ WithdrawSender
  <2>1. /\ UNCHANGED <<rx, pending, toHelper, helper>> /\ srv \notin Unserved
        /\ \/ toServer' = toServer
           \/ toServer # <<>> /\ toServer' = Tail(toServer)
    BY <1>5 DEF DrainDone, ReadNothing, ReadSnapshot, ReadError, WithdrawSender,
                helperVars, pipeVars
  <2>2. Range(toServer') \subseteq Range(toServer)
    BY <2>1, TakeFacts DEF TypeOK, PipeOK
  <2>3. Outstanding' = Outstanding /\ Results' \subseteq Results
    BY <1>1, <2>1, <2>2, ResultsShrink DEF Outstanding
  <2>4. QueuesInv'
    BY <2>1 DEF PromiseInv, QueuesInv
  <2>5. IdInv'
    BY <1>2, <2>1, <2>3 DEF PromiseInv, IdInv
  <2>6. QED
    BY <1>1, <2>3, <2>4, <2>5, PromiseShrinks
<1>6. QED
  BY <1>3, <1>4, <1>5

LEMMA PromiseDrain ==
  ASSUME TypeOK, PromiseInv, DrainRequest
  PROVE  PromiseInv'
<1> USE CallFacts
<1> DEFINE h == Head(rx)
<1>1. /\ UNCHANGED <<callVars, effects, executing, begun, next_id, helper, toServer>>
      /\ srv = "drain" /\ srv \notin Unserved /\ rx # <<>> /\ rx' = Tail(rx) /\ rx \in Seq(Rpc)
      /\ toHelper \in Seq(Rpc)
  BY DEF DrainRequest, helperVars, callVars, TypeOK, ServerOK, PipeOK, Unserved
<1>2. /\ Range(rx) = {h} \cup Range(rx') /\ h \in Rpc
      /\ Increasing(rx') /\ \A x \in Range(rx') : h.call < x.call
  BY <1>1, TakeFacts, IncreasingTail DEF PromiseInv, QueuesInv
<1>3. /\ Range(toHelper') \subseteq Range(toHelper) \cup {h}
      /\ Increasing(toHelper')
  <2>1. \A x \in Range(toHelper) : x.call < h.call
    BY <1>2 DEF PromiseInv, QueuesInv
  <2>2. Increasing(toHelper)
    BY DEF PromiseInv, QueuesInv
  <2>3. CASE toHelper' = Append(toHelper, h)
    <3>1. Increasing(Append(toHelper, h))
      BY <1>1, <1>2, <2>1, <2>2, IncreasingAppend
    <3>2. Range(Append(toHelper, h)) = Range(toHelper) \cup {h}
      BY <1>1, <1>2, PutFacts
    <3>3. QED
      BY <2>3, <3>1, <3>2
  <2>4. QED
    BY <2>2, <2>3 DEF DrainRequest
<1>4. Outstanding' \subseteq Outstanding /\ Results' \subseteq Results
  BY <1>1, <1>2, <1>3, ResultsShrink DEF Outstanding
<1>5. QueuesInv'
  BY <1>2, <1>3 DEF PromiseInv, QueuesInv
<1>6. IdInv'
  <2>1. \A r : Numbered(r)' = Numbered(r)
    BY <1>1 DEF Numbered
  <2>2. pending' \subseteq pending \cup {h}
    BY DEF DrainRequest
  <2>3. QED
    BY <1>1, <1>2, <1>3, <1>4, <2>1, <2>2 DEF PromiseInv, IdInv
<1>7. QED
  BY <1>1, <1>4, <1>5, <1>6, PromiseShrinks

\* A result answers the call it is about: its id says which one is meant.
LEMMA PromiseResult ==
  ASSUME TypeOK, PromiseInv, ReadResult
  PROVE  PromiseInv'
<1> USE CallFacts
<1> DEFINE f == Head(toServer)
           answered == {p \in pending : p.id = f.rpc.id}
<1>1. /\ UNCHANGED <<caller, begun, next_id, outcome, effects, rx, toHelper,
                    helper, executing>>
      /\ srv \notin Unserved /\ srv' \notin Unserved
      /\ toServer # <<>> /\ toServer' = Tail(toServer)
      /\ toServer \in Seq(Frame) /\ pending' \subseteq pending /\ f.kind = "result"
  BY DEF ReadResult, helperVars, TypeOK, PipeOK, Unserved
<1>2. /\ Range(toServer') \subseteq Range(toServer) /\ f \in Range(toServer)
  BY <1>1, TakeFacts
<1>3. /\ Results' \subseteq Results /\ Outstanding' = Outstanding /\ Took' = Took
      /\ [rpc |-> f.rpc, ok |-> f.ok] \in Results
  BY <1>1, <1>2, ResultsShrink DEF Outstanding, Took, Results
<1>4. PICK r \in Results : r.rpc = f.rpc /\ r.ok = f.ok
  BY <1>3
<1>5. CASE reply' = reply
  <2>1. CallerInv'
    BY <1>1, <1>3, <1>5 DEF PromiseInv, CallerInv
  <2>2. OutstandingInv' /\ TookInv' /\ QueuesInv'
    BY <1>1, <1>3 DEF PromiseInv, OutstandingInv, TookInv, QueuesInv
  <2>3. ResultInv'
    BY <1>1, <1>3 DEF PromiseInv, ResultInv
  <2>4. IdInv'
    <3>1. \A q : Numbered(q)' = Numbered(q)
      BY <1>1 DEF Numbered
    <3>2. QED
      BY <1>1, <1>3, <3>1 DEF PromiseInv, IdInv
  <2>5. QED
    BY <2>1, <2>2, <2>3, <2>4 DEF PromiseInv
<1>6. CASE reply' # reply
  <2>1. /\ caller = "waiting" /\ reply' = IF f.ok THEN "ok" ELSE "failed"
        /\ \E p \in answered : p.call = begun
    BY <1>6 DEF ReadResult, Answer
  <2>2. r.rpc.call = begun
    <3>1. PICK p \in answered : p.call = begun
      BY <2>1
    <3>2. /\ p.id = r.rpc.id /\ Numbered(p) /\ Numbered(r.rpc)
      BY <1>1, <1>4 DEF PromiseInv, IdInv
    <3>3. r.rpc.id \in Nat /\ r.rpc.call \in Nat /\ p.id \in Nat /\ p.call \in Nat
      BY ResultFacts
    <3>4. QED
      BY <3>1, <3>2, <3>3 DEF Numbered
  <2>3. /\ r.ok <=> begun \in Took
        /\ \A o \in Outstanding : begun < o.call
    BY <2>2 DEF PromiseInv, ResultInv
  <2>4. /\ \A o \in Outstanding' : o.call # begun'
        /\ reply' = "ok" <=> begun' \in Took'
    <3>1. \A o \in Outstanding : o.call # begun
      BY <2>3
    <3>2. reply' = "ok" <=> begun \in Took
      BY <1>4, <2>1, <2>3
    <3>3. QED
      BY <1>1, <1>3, <3>1, <3>2
  <2>5. CallerInv'
    BY <1>1, <1>3, <2>1, <2>4 DEF PromiseInv, CallerInv
  <2>6. OutstandingInv' /\ TookInv' /\ QueuesInv'
    BY <1>1, <1>3 DEF PromiseInv, OutstandingInv, TookInv, QueuesInv
  <2>7. ResultInv'
    BY <1>1, <1>3 DEF PromiseInv, ResultInv
  <2>8. IdInv'
    <3>1. \A q : Numbered(q)' = Numbered(q)
      BY <1>1 DEF Numbered
    <3>2. QED
      BY <1>1, <1>3, <3>1 DEF PromiseInv, IdInv
  <2>9. QED
    BY <2>5, <2>6, <2>7, <2>8 DEF PromiseInv
<1>7. QED
  BY <1>5, <1>6

LEMMA PromiseEnd ==
  ASSUME TypeOK, PromiseInv, EndSession \/ RestartService
  PROVE  PromiseInv'
<1> USE CallFacts
<1>1. /\ UNCHANGED <<begun, outcome, effects, toHelper, toServer, helper, executing>>
      /\ rx' = <<>> /\ pending' = {} /\ srv' \in Unserved
      /\ caller' \in {caller, "idle"}
      /\ caller' # "idle" => reply' \in {reply, "dropped"}
      /\ caller' = "cloned" => reply' = reply
  BY DEF EndSession, RestartService, Answer, helperVars, Unserved
<1>2. Range(rx') = {} /\ Increasing(rx')
  BY <1>1, NothingQueued, IncreasingEmpty
<1>3. Results' = Results /\ Outstanding' \subseteq Outstanding /\ Took' = Took
  BY <1>1, <1>2 DEF Results, Outstanding, Took
<1>4. CallerInv'
  BY <1>1, <1>3 DEF PromiseInv, CallerInv
<1>5. OutstandingInv' /\ TookInv'
  BY <1>1, <1>3 DEF PromiseInv, OutstandingInv, TookInv
<1>6. ResultInv'
  BY <1>1, <1>3 DEF PromiseInv, ResultInv
<1>7. QueuesInv' /\ IdInv'
  BY <1>1, <1>2 DEF PromiseInv, QueuesInv, IdInv
<1>8. QED
  BY <1>4, <1>5, <1>6, <1>7 DEF PromiseInv

(* The session helper *)

LEMMA PromiseHelperQuiet ==
  ASSUME TypeOK, PromiseInv,
         StartHelper \/ SendSnapshot \/ PollDone \/ HelperDies \/ WriteResult
  PROVE  PromiseInv'
<1> USE CallFacts
<1>1. UNCHANGED <<callVars, effects, begun, next_id, toHelper, rx, pending, srv>>
  BY DEF StartHelper, SendSnapshot, PollDone, HelperDies, WriteResult, serverVars,
         pipeVars, callVars
<1>2. Results' \subseteq Results
  <2>1. toServer \in Seq(Frame)
    BY DEF TypeOK, PipeOK
  <2>2. CASE StartHelper \/ PollDone
    <3>1. toServer' = toServer /\ helper' # "reply"
      BY <2>2 DEF StartHelper, PollDone, pipeVars
    <3>2. QED
      BY <3>1, ResultsShrink
  <2>3. CASE SendSnapshot \/ HelperDies
    <3>1. PICK frame \in Frame :
            /\ helper' # "reply" /\ frame.kind # "result"
            /\ toServer' = toServer \/ toServer' = Append(toServer, frame)
      <4>1. CASE SendSnapshot
        <5>1. inc \in Helpers
          BY <4>1, BoundAssumption DEF SendSnapshot, TypeOK, HelperOK, Helpers
        <5>2. [kind |-> "snapshot", from |-> inc] \in Frame
          BY <5>1, FrameTypes
        <5>3. QED
          BY <4>1, <5>1, <5>2 DEF SendSnapshot
      <4>2. CASE HelperDies
        BY <4>2, FrameTypes DEF HelperDies
      <4>3. QED
        BY <2>3, <4>1, <4>2
    <3>2. Range(toServer') \subseteq Range(toServer) \cup {frame}
      <4>1. Range(Append(toServer, frame)) = Range(toServer) \cup {frame}
        BY <2>1, PutFacts
      <4>2. QED
        BY <3>1, <4>1
    <3>3. QED
      BY <3>1, <3>2, ResultsShrink
  <2>4. CASE WriteResult
    <3> DEFINE frame == [kind |-> "result", rpc |-> executing.rpc, ok |-> executing.ok]
    <3>1. /\ helper = "reply" /\ helper' # "reply"
          /\ toServer' = toServer \/ toServer' = Append(toServer, frame)
      BY <2>4 DEF WriteResult
    <3>2. frame \in Frame /\ executing = [rpc |-> frame.rpc, ok |-> frame.ok]
      <4>1. executing \in [rpc : Rpc \cup {NoRpc}, ok : BOOLEAN] /\ executing.rpc # NoRpc
        BY <3>1 DEF TypeOK, HelperOK
      <4>2. executing.rpc \in Rpc /\ executing.ok \in BOOLEAN
        BY <4>1
      <4>3. frame \in Frame
        BY <4>2, FrameTypes
      <4>4. QED
        BY <4>1, <4>3
    <3>3. Range(toServer') \subseteq Range(toServer) \cup {frame}
      <4> HIDE DEF frame
      <4>1. Range(Append(toServer, frame)) = Range(toServer) \cup {frame}
        BY <2>1, <3>2, PutFacts
      <4>2. QED
        BY <3>1, <4>1
    <3>4. [rpc |-> frame.rpc, ok |-> frame.ok] \in Results
      BY <3>1, <3>2 DEF Results
    <3>5. QED
      BY <3>1, <3>3, <3>4 DEF Results
  <2>5. QED
    BY <2>2, <2>3, <2>4
<1>3. Outstanding' = Outstanding /\ QueuesInv'
  BY <1>1 DEF Outstanding, PromiseInv, QueuesInv
<1>4. IdInv'
  <2>1. \A r : Numbered(r)' = Numbered(r)
    BY <1>1 DEF Numbered
  <2>2. QED
    BY <1>1, <1>2, <2>1 DEF PromiseInv, IdInv
<1>5. QED
  BY <1>1, <1>2, <1>3, <1>4, PromiseShrinks

\* The request the helper takes is later than everything that took effect and
\* than every result on its way, and earlier than every other request.
LEMMA NextRequest ==
  ASSUME TypeOK, PromiseInv, HandleRpc
  PROVE  /\ Head(toHelper) \in Outstanding /\ Head(toHelper) \in Rpc
         /\ \A e \in Took : e < Head(toHelper).call
         /\ \A r \in Results : r.rpc.call < Head(toHelper).call
         /\ Outstanding' \subseteq Outstanding
         /\ \A o \in Outstanding' : Head(toHelper).call < o.call
         /\ QueuesInv'
<1> DEFINE h == Head(toHelper)
<1>1. /\ toHelper \in Seq(Rpc) /\ toHelper # <<>> /\ toHelper' = Tail(toHelper)
      /\ rx' = rx
  BY DEF HandleRpc, TypeOK, PipeOK, serverVars
<1>2. /\ Range(toHelper) = {h} \cup Range(toHelper') /\ h \in Rpc
      /\ Increasing(toHelper') /\ \A x \in Range(toHelper') : h.call < x.call
  BY <1>1, TakeFacts, IncreasingTail DEF PromiseInv, QueuesInv
<1>3. Outstanding' \subseteq Outstanding /\ h \in Outstanding
  BY <1>1, <1>2 DEF Outstanding
<1>4. /\ \A e \in Took : e < h.call
      /\ \A r \in Results : r.rpc.call < h.call
  BY <1>3 DEF PromiseInv, OutstandingInv, ResultInv
<1>5. \A o \in Outstanding' : h.call < o.call
  BY <1>1, <1>2 DEF PromiseInv, QueuesInv, Outstanding
<1>6. QueuesInv'
  BY <1>1, <1>2 DEF PromiseInv, QueuesInv
<1>7. QED
  BY <1>2, <1>3, <1>4, <1>5, <1>6

LEMMA PromiseHandle ==
  ASSUME TypeOK, PromiseInv, HandleRpc
  PROVE  PromiseInv'
<1> USE CallFacts
<1> DEFINE h == Head(toHelper)
<1>1. PICK ok \in BOOLEAN :
        /\ executing' = [rpc |-> h, ok |-> ok]
        /\ effects' = IF ok THEN Append(effects, h.call) ELSE effects
  BY DEF HandleRpc
<1>2. /\ UNCHANGED <<caller, begun, reply, next_id, outcome, rx, pending, srv, toServer>>
      /\ helper = "poll" /\ helper' = "reply"
  BY DEF HandleRpc, callVars, serverVars
<1>3. /\ h \in Outstanding /\ h \in Rpc
      /\ \A e \in Took : e < h.call
      /\ \A r \in Results : r.rpc.call < h.call
      /\ Outstanding' \subseteq Outstanding
      /\ \A o \in Outstanding' : h.call < o.call
      /\ QueuesInv'
  BY NextRequest
<1>4. h.call \in Nat /\ h.call \in Calls /\ h.call <= begun
  BY <1>3 DEF PromiseInv, OutstandingInv
<1>5. Took' = IF ok THEN Took \cup {h.call} ELSE Took
  <2>1. effects \in Seq(Calls)
    BY DEF TypeOK, HistoryOK
  <2>2. Range(Append(effects, h.call)) = Range(effects) \cup {h.call}
    BY <1>4, <2>1, PutFacts
  <2>3. QED
    BY <1>1, <2>2 DEF Took
<1>6. Results' = Results \cup {[rpc |-> h, ok |-> ok]}
  BY <1>1, <1>2 DEF Results
<1>7. CallerInv'
  <2>1. CASE h.call = begun
    BY <1>2, <1>3, <2>1 DEF PromiseInv, CallerInv
  <2>2. CASE h.call # begun
    <3>1. begun \in Took' <=> begun \in Took
      BY <1>5, <2>2
    <3>2. QED
      BY <1>2, <1>3, <3>1 DEF PromiseInv, CallerInv
  <2>3. QED
    BY <2>1, <2>2
<1>8. OutstandingInv'
  <2>1. ASSUME NEW o \in Outstanding', NEW e \in Took' PROVE e < o.call
    BY <1>3, <1>5, <2>1 DEF PromiseInv, OutstandingInv
  <2>2. QED
    BY <1>2, <1>3, <2>1 DEF PromiseInv, OutstandingInv
<1>9. TookInv'
  BY <1>2, <1>4, <1>5 DEF PromiseInv, TookInv
<1>10. ResultInv'
  <2>1. ASSUME NEW r \in Results
        PROVE  /\ r.ok <=> r.rpc.call \in Took'
               /\ \A o \in Outstanding' : r.rpc.call < o.call
    <3>1. r.rpc.call < h.call /\ r.rpc.call \in Nat
      BY <1>3, ResultFacts
    <3>2. r.rpc.call # h.call
      BY <1>4, <3>1
    <3>3. QED
      BY <1>3, <1>5, <3>2 DEF PromiseInv, ResultInv
  <2>2. h.call \notin Took
    BY <1>3, <1>4
  <2>3. ok <=> h.call \in Took'
    BY <1>5, <2>2
  <2>4. caller = "cloned" => h.call # begun
    BY <1>3 DEF PromiseInv, CallerInv
  <2>5. ASSUME NEW r \in Results'
        PROVE  /\ r.ok <=> r.rpc.call \in Took'
               /\ \A o \in Outstanding' : r.rpc.call < o.call
               /\ r.rpc.call <= begun
               /\ caller = "cloned" => r.rpc.call # begun
    <3>1. CASE r \in Results
      BY <2>1, <3>1 DEF PromiseInv, ResultInv
    <3>2. CASE r = [rpc |-> h, ok |-> ok]
      <4>1. r.rpc = h /\ r.ok = ok
        BY <3>2
      <4>2. QED
        BY <1>3, <1>4, <2>3, <2>4, <4>1
    <3>3. QED
      BY <1>6, <3>1, <3>2
  <2>6. QED
    BY <1>2, <2>5 DEF ResultInv
<1>11. IdInv'
  <2>1. \A q : Numbered(q)' = Numbered(q)
    BY <1>2 DEF Numbered
  <2>2. /\ Range(toHelper') \subseteq Range(toHelper) /\ h \in Range(toHelper)
    <3>1. toHelper \in Seq(Rpc) /\ toHelper # <<>> /\ toHelper' = Tail(toHelper)
      BY DEF HandleRpc, TypeOK, PipeOK
    <3>2. QED
      BY <3>1, TakeFacts
  <2>3. ASSUME NEW r \in Results', srv \notin Unserved PROVE Numbered(r.rpc)
    <3>1. CASE r \in Results
      BY <2>3, <3>1 DEF PromiseInv, IdInv
    <3>2. CASE r = [rpc |-> h, ok |-> ok]
      <4>1. r.rpc = h
        BY <3>2
      <4>2. QED
        BY <2>2, <2>3, <4>1 DEF PromiseInv, IdInv
    <3>3. QED
      BY <1>6, <3>1, <3>2
  <2>4. QED
    BY <1>2, <2>1, <2>2, <2>3 DEF PromiseInv, IdInv
<1>12. QED
  BY <1>3, <1>7, <1>8, <1>9, <1>10, <1>11 DEF PromiseInv

LEMMA PromiseNext == TypeOK /\ PromiseInv /\ [Next]_vars => PromiseInv'
<1> SUFFICES ASSUME TypeOK, PromiseInv, [Next]_vars PROVE PromiseInv'
  OBVIOUS
<1>1. CASE UNCHANGED vars
  <2>1. UNCHANGED <<caller, begun, reply, next_id, outcome, srv, rx, pending, toHelper,
                    toServer, helper, executing, effects>>
    BY <1>1 DEF vars, callVars, serverVars, helperVars, pipeVars
  <2>2. Outstanding' = Outstanding /\ Results' = Results /\ Took' = Took
    BY <2>1 DEF Outstanding, Results, Took
  <2>3. CallerInv' /\ OutstandingInv' /\ TookInv' /\ ResultInv'
    BY <2>1, <2>2 DEF PromiseInv, CallerInv, OutstandingInv, TookInv, ResultInv
  <2>4. QueuesInv' /\ IdInv'
    BY <2>1, <2>2 DEF PromiseInv, QueuesInv, IdInv, Numbered
  <2>5. QED
    BY <2>3, <2>4 DEF PromiseInv
<1>2. CASE BeginCall \/ CallStep
  BY <1>2, PromiseBegin, PromiseSend, PromiseReturn DEF CallStep
<1>3. CASE ServerStep \/ ConnectEarly \/ RestartService
  BY <1>3, PromiseServerQuiet, PromiseDrain, PromiseResult, PromiseEnd DEF ServerStep
<1>4. CASE \/ StartHelper \/ SendSnapshot \/ HandleRpc \/ WriteResult \/ PollDone
           \/ HelperDies
  BY <1>4, PromiseHelperQuiet, PromiseHandle
<1>5. QED
  BY <1>1, <1>2, <1>3, <1>4 DEF Next, HelperStep

(* Refinement *)

LEMMA TookMeansTook == TypeOK => \A c : Desktop!Took(c) <=> c \in Took
<1> SUFFICES ASSUME TypeOK, NEW c PROVE Desktop!Took(c) <=> c \in Took
  OBVIOUS
<1>1. effects \in Seq(Calls)
  BY DEF TypeOK, HistoryOK
<1>2. Took = {effects[i] : i \in 1..Len(effects)}
  BY <1>1, RangeEquality DEF Took
<1>3. QED
  BY <1>2 DEF Desktop!Took

LEMMA PromiseRefines ==
  TypeOK /\ PromiseInv /\ [Next]_vars => [Desktop!Next]_<<begun, outcome, effects>>
<1> SUFFICES ASSUME TypeOK, PromiseInv, [Next]_vars
             PROVE  Desktop!Next \/ UNCHANGED <<begun, outcome, effects>>
  OBVIOUS
<1> USE CallFacts
<1>1. CASE BeginCall
  <2>1. Desktop!Begin
    BY <1>1 DEF BeginCall, Desktop!Begin
  <2>2. QED
    BY <2>1 DEF Desktop!Next
<1>2. CASE CallStep
  <2>1. CASE UNCHANGED outcome
    BY <1>2, <2>1 DEF CallStep, SendCall, CallReturns, CallTimesOut
  <2>2. CASE ~UNCHANGED outcome
    <3>1. PICK what \in {"refused", "timed out", reply} :
            /\ caller # "idle" /\ outcome' = [outcome EXCEPT ![begun] = what]
            /\ UNCHANGED <<begun, effects>>
            /\ what = "refused" => caller = "cloned"
            /\ what # "refused" => caller = "waiting"
            /\ what # "none"
      <4>1. CASE SendCall
        BY <2>2, <4>1 DEF SendCall
      <4>2. CASE CallReturns
        <5>1. reply \in {"none", "ok", "failed", "dropped"}
          BY DEF TypeOK, CallsOK
        <5>2. QED
          BY <4>2, <5>1 DEF CallReturns
      <4>3. CASE CallTimesOut
        BY <4>3 DEF CallTimesOut
      <4>4. QED
        BY <1>2, <4>1, <4>2, <4>3 DEF CallStep
    <3>2. what \in {"refused", "timed out", "ok", "failed", "dropped"}
      BY <3>1 DEF TypeOK, CallsOK
    <3>3. begun > 0 /\ outcome[begun] = "none"
      <4>1. begun > 0
        BY <3>1, CallInProgress
      <4>2. outcome[begun] = "none"
        BY <3>1 DEF PromiseInv, CallerInv
      <4>3. QED
        BY <4>1, <4>2
    <3>4. what = "ok" => begun \in Took
      BY <3>1 DEF PromiseInv, CallerInv
    <3>5. what \in {"failed", "refused"} => begun \notin Took
      BY <3>1 DEF PromiseInv, CallerInv
    <3>6. Desktop!Return
      BY <3>1, <3>2, <3>3, <3>4, <3>5, TookMeansTook
      DEF Desktop!Return, Desktop!Outcomes
    <3>7. QED
      BY <3>6 DEF Desktop!Next
  <2>3. QED
    BY <2>1, <2>2
<1>3. CASE HandleRpc
  <2> DEFINE h == Head(toHelper)
  <2>1. CASE UNCHANGED effects
    BY <1>3, <2>1 DEF HandleRpc, callVars
  <2>2. CASE ~UNCHANGED effects
    <3>1. effects' = Append(effects, h.call) /\ UNCHANGED <<begun, outcome>>
      BY <1>3, <2>2 DEF HandleRpc, callVars
    <3>2. h \in Outstanding /\ h \in Rpc /\ \A e \in Took : e < h.call
      BY <1>3, NextRequest
    <3>3. h.call \in 1..begun
      <4>1. h.call <= begun
        BY <3>2 DEF PromiseInv, OutstandingInv
      <4>2. h.call \in Nat /\ h.call \in Calls /\ begun \in Nat
        BY <3>2
      <4>3. \A b \in Nat, c \in 1..MaxCalls : c <= b => c \in 1..b
        OBVIOUS
      <4>4. QED
        BY <4>1, <4>2, <4>3 DEF Calls
    <3>4. outcome[h.call] \notin {"ok", "failed", "refused"}
      BY <3>2 DEF PromiseInv, OutstandingInv
    <3>5. \A i \in 1..Len(effects) : effects[i] < h.call
      <4>1. effects \in Seq(Calls)
        BY DEF TypeOK, HistoryOK
      <4>2. Took = {effects[i] : i \in 1..Len(effects)}
        BY <4>1, RangeEquality DEF Took
      <4>3. QED
        BY <3>2, <4>2
    <3>6. Desktop!TakeEffect
      BY <3>1, <3>3, <3>4, <3>5 DEF Desktop!TakeEffect
    <3>7. QED
      BY <3>6 DEF Desktop!Next
  <2>3. QED
    BY <2>1, <2>2
<1>4. CASE ServerStep \/ ConnectEarly \/ RestartService
  BY <1>4 DEF ServerStep, RestartService, CreateInstance, Listen, RefuseEarly, Accept,
              ConnectEarly, DrainRequest, DrainDone, ReadNothing, ReadSnapshot, ReadResult,
              ReadError, WithdrawSender, EndSession, callVars
<1>5. CASE StartHelper \/ SendSnapshot \/ WriteResult \/ PollDone \/ HelperDies
  BY <1>5 DEF StartHelper, SendSnapshot, WriteResult, PollDone, HelperDies, callVars
<1>6. CASE UNCHANGED vars
  BY <1>6 DEF vars, callVars
<1>7. QED
  BY <1>1, <1>2, <1>3, <1>4, <1>5, <1>6 DEF Next, HelperStep

\* SessionHub::call keeps the promise of DesktopRpc for any number of calls and
\* whatever happens to the pipe, the helper and the service: calls take effect at
\* most once and in order, and what a call returns is true.
THEOREM PromiseKept == Spec => RpcPromiseKept
<1>1. Init => Desktop!Init
  BY DEF Init, Desktop!Init, Calls, Desktop!Calls
<1>2. Spec => [](TypeOK /\ PromiseInv)
  <2>1. Init => TypeOK /\ PromiseInv
    BY InitTypeOK, PromiseInit
  <2>2. TypeOK /\ PromiseInv /\ [Next]_vars => (TypeOK /\ PromiseInv)'
    BY NextTypeOK, PromiseNext
  <2>3. QED
    BY <2>1, <2>2, PTL DEF Spec
<1>3. QED
  BY <1>1, <1>2, PromiseRefines, PTL DEF Spec, RpcPromiseKept, Desktop!Spec, Desktop!abstractVars
=============================================================================
