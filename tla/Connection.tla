----------------------------- MODULE Connection -----------------------------
(***************************************************************************)
(* What the viewer promises about its connections, without threads,        *)
(* messages or windows: a connection is made, may ask for logon            *)
(* information several times, is established at most once, ends, and is    *)
(* discarded; a new attempt starts only when the previous connection has   *)
(* been discarded.  ViewerSession implements this module.                  *)
(***************************************************************************)
CONSTANT Conns

VARIABLE phase   \* of each connection

Phases == {"absent", "connecting", "asking", "ready", "finished", "gone"}

Init == phase = [c \in Conns |-> "absent"]

Become(c, p) == phase' = [phase EXCEPT ![c] = p]

Begin(c) == /\ phase[c] = "absent"
            /\ \A d \in Conns : phase[d] \in {"absent", "gone"}
            /\ Become(c, "connecting")

Ask(c) == phase[c] = "connecting" /\ Become(c, "asking")

GoOn(c) == phase[c] = "asking" /\ Become(c, "connecting")

Establish(c) == phase[c] = "connecting" /\ Become(c, "ready")

Finish(c) == phase[c] \in {"connecting", "ready"} /\ Become(c, "finished")

\* At any time: the user may cancel an attempt that is under way.
Discard(c) == phase[c] \notin {"absent", "gone"} /\ Become(c, "gone")

Next == \E c \in Conns : \/ Begin(c) \/ Ask(c) \/ GoOn(c) \/ Establish(c)
                         \/ Finish(c) \/ Discard(c)

Spec == Init /\ [][Next]_phase
=============================================================================
