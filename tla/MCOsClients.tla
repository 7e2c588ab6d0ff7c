------------------------------ MODULE MCOsClients ------------------------------
(* The client side of the object service: the calls of a remote client,    *)
(* its iterators, which share only the server's table of hosts with them,  *)
(* and the time cache over it.  An instance works on one of the three.     *)
EXTENDS OsRemote, OsRemoteStream, OsTimecache

VARIABLE part
allvars == <<vars, svars, tcvars, part>>

(* The parts not at work keep one of their initial states.                 *)
MCInit == /\ Init /\ InitStream /\ TcInit
          /\ part \in {"calls", "iterators", "cache"}
          /\ part # "cache" => tree = {}
MCNext == \/ part = "calls" /\ Next /\ UNCHANGED <<svars, tcvars, part>>
          \/ part = "iterators" /\ NextStream /\ UNCHANGED <<vars, tcvars, part>>
          \/ part = "cache" /\ TcNext /\ UNCHANGED <<vars, svars, part>>
MCSpec == MCInit /\ [][MCNext]_allvars /\ Fairness /\ TcFairness
=============================================================================
