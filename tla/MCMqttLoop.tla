----------------------------- MODULE MCMqttLoop -----------------------------
(* Small instances of MqttLoop for TLC; the values are in the .cfg files. *)
EXTENDS MqttLoop

NoneMalformed == {}
FirstMalformed == {1}

(* A broker outage of a running agent: everything it announced was delivered, *)
(* the connection broke, the broker has published the last will and the       *)
(* event-loop task sleeps before it connects again.  A reachable state, taken *)
(* as the start of the run that asks what happens when the broker comes back. *)
DuringOutage ==
    /\ main = "select" /\ handling = NoCommand /\ stop = FALSE
    /\ el = "sleep" /\ forwarding = NoCommand /\ conn = FALSE
    /\ respawned = [s \in {"subscribe", "online"} |-> 0]
    /\ reqs = <<>> /\ cmds = <<>> /\ pending = <<>> /\ wire = <<>>
    /\ outgoing = <<>>
    /\ link = "down"
    /\ broker = [session |-> TRUE, subscribed |-> TRUE, discovered |-> TRUE,
                 availability |-> "offline", willDue |-> FALSE]
    /\ queue = <<>> /\ unacked = <<>>
    /\ sent = 0 /\ executed = {} /\ lost = {} /\ published = 0
    /\ drops = MaxDrops /\ wipes = 0 /\ stops = 0

OutageSpec == DuringOutage /\ [][Next]_vars /\ Fairness
=============================================================================
