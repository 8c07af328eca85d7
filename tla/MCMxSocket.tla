----------------------------- MODULE MCMxSocket -----------------------------
(* MxSocket for TLC: two pages that watch and unwatch the same key, calls    *)
(* one of which is forbidden, and an event that may be subscribed to before  *)
(* it exists.                                                                *)
EXTENDS MxSocket
CONSTANTS w1, u1, w2, c1, c2, m1, key, evt

MCKind == [r \in Requests |-> CASE r \in {w1, w2} -> "watch" [] r = u1 -> "unwatch"
                                [] r = m1 -> "event" [] OTHER -> "call"]
MCEventOf == [r \in Requests |-> IF r \in {w1, u1, w2} THEN key ELSE evt]
=============================================================================
