------------------------------- MODULE Duplex -------------------------------
(***************************************************************************)
(* What a connection through the balancer promises its two peers: two byte *)
(* streams, each with an end.  A stream may be cut short, or broken, only  *)
(* by a peer that walks away from bytes sent to it.                        *)
(***************************************************************************)
EXTENDS Naturals

CONSTANT MaxBytes     \* bound on the bytes each peer sends

Peers == {"client", "backend"}
Other(p) == IF p = "client" THEN "backend" ELSE "client"

VARIABLES sent,    \* bytes each peer has written
          got,     \* bytes of each peer's stream that the other has read
          fin,     \* the peer writes no more
          left,    \* the peer neither writes nor reads any more
          end      \* what a peer knows of the other's stream: "open", "eof", "broken"

dvars == <<sent, got, fin, left, end>>

Init ==
  /\ sent = [p \in Peers |-> 0] /\ got = [p \in Peers |-> 0]
  /\ fin = [p \in Peers |-> FALSE] /\ left = [p \in Peers |-> FALSE]
  /\ end = [p \in Peers |-> "open"]

\* The peer walked away from bytes sent to it.
Unheard(p) == left[p] /\ got[Other(p)] < sent[Other(p)]

Send(p) ==
  /\ ~fin[p] /\ sent[p] < MaxBytes
  /\ sent' = [sent EXCEPT ![p] = @ + 1]
  /\ UNCHANGED <<got, fin, left, end>>

Finish(p) ==
  /\ ~fin[p]
  /\ fin' = [fin EXCEPT ![p] = TRUE]
  /\ UNCHANGED <<sent, got, left, end>>

Leave(p) ==
  /\ ~left[p]
  /\ fin' = [fin EXCEPT ![p] = TRUE] /\ left' = [left EXCEPT ![p] = TRUE]
  /\ UNCHANGED <<sent, got, end>>

Receive(p) ==
  /\ ~left[p] /\ end[p] = "open"
  /\ got[Other(p)] < sent[Other(p)]
  /\ got' = [got EXCEPT ![Other(p)] = @ + 1]
  /\ UNCHANGED <<sent, fin, left, end>>

\* The end of a stream comes after its last byte.
SeeEnd(p) ==
  /\ ~left[p] /\ end[p] = "open"
  /\ \/ fin[Other(p)] /\ got[Other(p)] = sent[Other(p)]
     \/ Unheard(Other(p))
  /\ end' = [end EXCEPT ![p] = "eof"]
  /\ UNCHANGED <<sent, got, fin, left>>

SeeBreak(p) ==
  /\ ~left[p] /\ end[p] = "open"
  /\ Unheard(Other(p))
  /\ end' = [end EXCEPT ![p] = "broken"]
  /\ UNCHANGED <<sent, got, fin, left>>

Next == \E p \in Peers : Send(p) \/ Finish(p) \/ Leave(p) \/ Receive(p) \/ SeeEnd(p) \/ SeeBreak(p)

Spec == Init /\ [][Next]_dvars
=============================================================================
