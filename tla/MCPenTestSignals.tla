-------------------------- MODULE MCPenTestSignals --------------------------
(* Instances of PenTestSignals for TLC. *)
EXTENDS PenTestSignals, TLC

CONSTANTS s1, s2

Carrying(s, ts, sig, on, mail) ==
  [source |-> s, stamp |-> ts, signals |-> sig, enabled |-> on, email |-> mail]

(* A request that is given away and notified. *)
Unstamped == {Carrying(s1, NoStamp, {"zap"}, TRUE, TRUE)}

(* The same, among requests below the threshold at the host's time or at   *)
(* one the caller supplied out of order.                                   *)
StampedOrMailed ==
  {Carrying(s1, ts, {"header"}, TRUE, FALSE) : ts \in {NoStamp, 3}} \cup Unstamped

(* With them, one on another source with detection off. *)
Mixed == StampedOrMailed \cup {Carrying(s2, NoStamp, {"zap"}, FALSE, TRUE)}
=============================================================================
