----------------------------- MODULE DesktopRpc -----------------------------
(***************************************************************************)
(* What the Windows service may rely on when it asks the session helper to *)
(* act on the desktop (SessionHub::call), whatever happens to the pipe and *)
(* to the two processes: calls take effect at most once and in the order   *)
(* they were made, `ok` is returned only for a call that took effect, and  *)
(* a call that was refused or that the helper reported as failed never     *)
(* does.  A call that was dropped or timed out may still take effect.      *)
(***************************************************************************)
EXTENDS Naturals, Sequences

CONSTANT MaxCalls   \* bound: calls made

Calls == 1..MaxCalls
Outcomes == {"none", "ok", "failed", "refused", "dropped", "timed out"}

VARIABLES begun,    \* calls made so far
          outcome,  \* what each call returned
          effects   \* the calls that took effect, in that order

abstractVars == <<begun, outcome, effects>>

Init ==
    /\ begun = 0
    /\ outcome = [c \in Calls |-> "none"]
    /\ effects = <<>>

Took(c) == \E i \in 1..Len(effects) : effects[i] = c

Begin ==
    /\ begun < MaxCalls
    /\ begun' = begun + 1
    /\ UNCHANGED effects
    /\ \/ UNCHANGED outcome
       \/ outcome' = [outcome EXCEPT ![begun + 1] = "refused"]

TakeEffect ==
    \E c \in 1..begun :
        /\ outcome[c] \notin {"ok", "failed", "refused"}
        /\ \A i \in 1..Len(effects) : effects[i] < c
        /\ effects' = Append(effects, c)
        /\ UNCHANGED <<begun, outcome>>

Return ==
    /\ begun > 0 /\ outcome[begun] = "none"
    /\ \E r \in Outcomes \ {"none"} :
           /\ r = "ok" => Took(begun)
           /\ r \in {"failed", "refused"} => ~Took(begun)
           /\ outcome' = [outcome EXCEPT ![begun] = r]
    /\ UNCHANGED <<begun, effects>>

Next == Begin \/ TakeEffect \/ Return
Spec == Init /\ [][Next]_abstractVars
=============================================================================
