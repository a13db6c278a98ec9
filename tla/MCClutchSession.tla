--------------------------- MODULE MCClutchSession ---------------------------
(***************************************************************************)
(* Two hand positions and up to two failures.  The worlds: every failure   *)
(* and an operator who squeezes anywhere, with the leader's clutch or the  *)
(* keyboard's; servers that answer or refuse and a client that dies, with  *)
(* a careful operator or any.                                              *)
(***************************************************************************)
EXTENDS ClutchSession

Anywhere == PC
\* The operator does not squeeze between the leader's commit and the first
\* action of the new reference.
OutsideRelatch == PC \ {"set_follower", "fetch"}
Refusals == {"not_ready", "unstable"}

MCWorlds ==
  { [failures |-> FailureKind, squeeze_at |-> Anywhere, source |-> "auto"],
    [failures |-> FailureKind, squeeze_at |-> Anywhere, source |-> "keyboard"],
    [failures |-> Refusals \cup {"client_dies"}, squeeze_at |-> OutsideRelatch,
     source |-> "auto"],
    [failures |-> Refusals \cup {"client_dies"}, squeeze_at |-> Anywhere,
     source |-> "auto"] }
MissedEdge ==
  { [failures |-> Refusals, squeeze_at |-> Anywhere, source |-> "auto"] }
=============================================================================
