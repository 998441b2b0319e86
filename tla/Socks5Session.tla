--------------------------- MODULE Socks5Session ---------------------------
(***************************************************************************)
(* What the proxy promises each of its clients, after RFC 1928 as          *)
(* proxy/src implements it: the phases of a session come in order, a       *)
(* request gets one reply, data is relayed only after a successful one,    *)
(* and a session that relays is cut only when one of its two ends has      *)
(* gone.  Any earlier phase may be cut at any time.                        *)
(***************************************************************************)
CONSTANTS Clients, Returning

VARIABLES
  phase,   \* where the session of each client has got to
  broken   \* the sessions that have lost an end

vars == <<phase, broken>>

Phases == {"idle", "gone", "backlog", "greeting", "choice", "request",
           "connecting", "granted", "refused", "relay"}
Outside == {"idle", "gone"}

Init == /\ phase = [s \in Clients |-> "idle"]
        /\ broken = {}

\* The phases that may follow one in a session that goes on.
After == [idle |-> {"backlog"}, backlog |-> {"greeting"},
          greeting |-> {"choice"}, choice |-> {"request"},
          request |-> {"connecting"}, connecting |-> {"granted", "refused"},
          granted |-> {"relay"}, gone |-> {}, refused |-> {}, relay |-> {}]

Advance(s) == /\ \E next \in After[phase[s]] :
                   phase' = [phase EXCEPT ![s] = next]
              /\ UNCHANGED broken

\* An end of the session leaves.
Break(s) == /\ phase[s] \notin Outside
            /\ broken' = broken \cup {s}
            /\ UNCHANGED phase

Drop(s) == /\ phase[s] \notin Outside \cup {"backlog"}
           /\ phase[s] = "relay" => s \in broken
           /\ phase' = [phase EXCEPT ![s] =
                          IF s \in Returning THEN "idle" ELSE "gone"]
           /\ broken' = broken \ {s}

Next == \E s \in Clients : Advance(s) \/ Break(s) \/ Drop(s)

Spec == Init /\ [][Next]_vars
=============================================================================
