------------------------- MODULE LoadBalancer_proofs -------------------------
(***************************************************************************)
(* The two halves of proxy in cmd/lb, for any number of clients, backends  *)
(* and outages: the failover of Balancer, and Splice, which implements     *)
(* Abstract!Spec for every window and number of bytes.  A copy ends before *)
(* the end of its stream only on an error, the balancer closes nothing     *)
(* before both copies are over, and so the first error can only come from  *)
(* a peer that left with bytes unread: EndInv says so of each copy that    *)
(* has ended, ResetInv of each connection reset.                           *)
(***************************************************************************)
EXTENDS Balancer, Splice, FiniteSetTheorems, TLAPS

\* A backend that is down now has been missed by every connection, and a proxy
\* that dials again, or has given up, found its backends down.
MissedInv ==
  \A c \in 1..Len(conns) :
    /\ Backends \ up \subseteq conns[c].missed
    /\ conns[c].at \in {"redial", "dropped"} => First(c) \in conns[c].missed
    /\ conns[c].at = "dropped" => Second(c) \in conns[c].missed

BalancerInv == BalancerTypeOK /\ MissedInv

\* A counter value names a backend, and so does the next one.
LEMMA Targets ==
  ASSUME BalancerTypeOK, NEW c \in 1..Len(conns)
  PROVE  First(c) \in Backends /\ Second(c) \in Backends
<1>1. conns[c] \in Conn
  BY DEF BalancerTypeOK
<1>2. conns[c].n \in Nat /\ NumBackends \in Nat /\ NumBackends > 0
  BY <1>1, BalancerAssumption DEF Conn
<1>3. \A x \in Nat : x % NumBackends \in 0..(NumBackends - 1)
  BY <1>2
<1> QED
  BY <1>2, <1>3, SMTT(30) DEF First, Second, Backends

\* No client is there at the start.
LEMMA BalancerStart == Init => BalancerInv
BY BalancerAssumption DEF Init, BalancerInv, BalancerTypeOK, MissedInv

\* A dial settles one connection and leaves the others alone.
LEMMA TryStep ==
  ASSUME BalancerInv, NEW c \in 1..Len(conns), NEW here, NEW b, NEW failed,
         Try(c, here, b, failed),
         \/ here = "dial" /\ b = First(c) /\ failed = "redial"
         \/ here = "redial" /\ b = Second(c) /\ failed = "dropped"
  PROVE  BalancerInv'
<1>1. conns \in Seq(Conn) /\ conns[c] \in Conn /\ b \in Backends
  BY Targets DEF BalancerInv, BalancerTypeOK
<1> DEFINE at == IF b \in up THEN "spliced" ELSE failed
           moved == [conns[c] EXCEPT !.at = at, !.to = b]
<1>2. conns' = [conns EXCEPT ![c] = moved]
  BY <1>1 DEF Try, Move, Conn
<1>3. moved \in Conn /\ moved.at = at /\ moved.n = conns[c].n /\ moved.missed = conns[c].missed
  BY <1>1 DEF Conn
<1>4. conns' \in Seq(Conn) /\ Len(conns') = Len(conns)
  BY <1>1, <1>2, <1>3
<1>5. BalancerTypeOK'
  BY <1>4 DEF BalancerInv, BalancerTypeOK, Try
<1>6. \A d \in 1..Len(conns) :
        conns'[d].n = conns[d].n /\ conns'[d].missed = conns[d].missed
        /\ First(d)' = First(d) /\ Second(d)' = Second(d)
  BY <1>1, <1>2, <1>3 DEF First, Second
<1>7. ASSUME NEW d \in 1..Len(conns)
      PROVE  /\ Backends \ up \subseteq conns'[d].missed
             /\ conns'[d].at \in {"redial", "dropped"} => First(d) \in conns'[d].missed
             /\ conns'[d].at = "dropped" => Second(d) \in conns'[d].missed
  <2>1. CASE d # c
    BY <1>1, <1>2, <1>6, <2>1 DEF BalancerInv, MissedInv
  <2>2. CASE d = c
    <3>1. conns'[d].at = at
      BY <1>1, <1>2, <1>3, <2>2
    <3>2. b \in up \/ b \in conns[c].missed
      BY <1>1 DEF BalancerInv, MissedInv
    <3>3. conns[c].at = here
      BY DEF Try
    <3> QED
      BY <1>6, <2>2, <3>1, <3>2, <3>3 DEF BalancerInv, MissedInv
  <2> QED
    BY <2>1, <2>2
<1>8. up' = up
  BY DEF Try
<1> QED
  BY <1>4, <1>5, <1>6, <1>7, <1>8 DEF BalancerInv, MissedInv, Backends

\* A new connection has missed the backends that are down when it is accepted.
LEMMA AcceptStep ==
  ASSUME BalancerInv, Accept
  PROVE  BalancerInv'
<1> DEFINE fresh == [n |-> NextCount, at |-> "dial", to |-> 0, missed |-> Backends \ up]
<1>1. NextCount \in 0..(Wrap - 1)
  BY BalancerAssumption DEF BalancerInv, BalancerTypeOK, NextCount
<1>2. fresh \in Conn
  BY <1>1, BalancerAssumption DEF Conn, Backends
<1>3. conns \in Seq(Conn) /\ conns' = Append(conns, fresh)
  BY DEF BalancerInv, BalancerTypeOK, Accept
<1>4. /\ conns' \in Seq(Conn) /\ Len(conns') = Len(conns) + 1
      /\ conns'[Len(conns) + 1] = fresh /\ \A d \in 1..Len(conns) : conns'[d] = conns[d]
  BY <1>2, <1>3
<1>5. BalancerTypeOK'
  BY <1>1, <1>4, BalancerAssumption DEF BalancerInv, BalancerTypeOK, Accept
<1>6. ASSUME NEW d \in 1..Len(conns)'
      PROVE  MissedInv!(d)'
  <2>1. CASE d \in 1..Len(conns)
    BY <1>4, <2>1 DEF BalancerInv, MissedInv, First, Second, Accept, Backends
  <2>2. CASE d = Len(conns) + 1
    BY <1>4, <2>2 DEF Accept, Backends
  <2> QED
    BY <1>3, <1>4, <2>1, <2>2 DEF BalancerInv, BalancerTypeOK
<1> QED
  BY <1>5, <1>6 DEF BalancerInv, MissedInv

\* A backend that stops is missed by every connection there is.
LEMMA GoDownStep ==
  ASSUME BalancerInv, NEW b \in Backends, GoDown(b)
  PROVE  BalancerInv'
<1>1. conns \in Seq(Conn) /\ up \subseteq Backends
  BY DEF BalancerInv, BalancerTypeOK
<1>2. conns' = [c \in 1..Len(conns) |-> [conns[c] EXCEPT !.missed = @ \cup {b}]]
  BY DEF GoDown
<1>3. ASSUME NEW c \in 1..Len(conns)
      PROVE  /\ conns'[c] \in Conn /\ conns'[c].missed = conns[c].missed \cup {b}
             /\ conns'[c].at = conns[c].at /\ conns'[c].n = conns[c].n
  <2>1. conns[c] \in Conn /\ conns'[c] = [conns[c] EXCEPT !.missed = @ \cup {b}]
    BY <1>1, <1>2
  <2> QED
    BY <2>1 DEF Conn
<1>4. conns' \in Seq(Conn) /\ Len(conns') = Len(conns)
  BY <1>1, <1>2, <1>3
<1>5. BalancerTypeOK'
  <2>1. outages' \in 0..MaxOutages /\ up' \subseteq Backends
    BY <1>1, BalancerAssumption DEF BalancerInv, BalancerTypeOK, GoDown
  <2>2. /\ loop' \in {"accept", "sleep"} /\ waiting' \in 0..MaxConns
        /\ rr' \in 0..(Wrap - 1) /\ waiting' = waiting /\ Len(conns) + waiting <= MaxConns
    BY DEF BalancerInv, BalancerTypeOK, GoDown
  <2> QED
    BY <1>4, <2>1, <2>2 DEF BalancerTypeOK
<1>6. ASSUME NEW d \in 1..Len(conns)
      PROVE  MissedInv!(d)'
  BY <1>3 DEF BalancerInv, MissedInv, First, Second, GoDown, Backends
<1> QED
  BY <1>4, <1>5, <1>6 DEF BalancerInv, MissedInv

\* The invariant of the balancer is inductive.
LEMMA BalancerStep == BalancerInv /\ [Next]_vars => BalancerInv'
<1> SUFFICES ASSUME BalancerInv, [Next]_vars PROVE BalancerInv'
  OBVIOUS
<1>1. ASSUME Arrive \/ AcceptFails \/ Wake \/ UNCHANGED vars PROVE BalancerInv'
  BY <1>1, BalancerAssumption, SMTT(30)
  DEF BalancerInv, BalancerTypeOK, MissedInv, First, Second, Arrive, AcceptFails, Wake, vars
<1>2. ASSUME NEW b \in Backends, ComeUp(b) PROVE BalancerInv'
  BY <1>2 DEF BalancerInv, BalancerTypeOK, MissedInv, First, Second, ComeUp
<1>3. ASSUME NEW c \in 1..Len(conns), Proxy(c) PROVE BalancerInv'
  BY <1>3, TryStep DEF Proxy, Dial, Redial
<1> QED
  BY <1>1, <1>2, <1>3, AcceptStep, GoDownStep DEF Next

\* The invariant holds throughout every run of the balancer.
LEMMA BalancerInvariant == Spec => []BalancerInv
<1>1. Init => BalancerInv
  BY BalancerStart
<1>2. BalancerInv /\ [Next]_vars => BalancerInv'
  BY BalancerStep
<1> QED
  BY <1>1, <1>2, PTL DEF Spec

\* Type correctness of the balancer, for any number of backends and clients.
THEOREM BalancerTypeCorrect == Spec => []BalancerTypeOK
<1>1. BalancerInv => BalancerTypeOK
  BY DEF BalancerInv
<1> QED
  BY <1>1, BalancerInvariant, PTL

\* The two dials of proxy go to different backends, at any value of the wrapping
\* counter, so a client is turned away only after both were found down.
THEOREM Failover == Spec => []DropsOnlyIfBothMissed
<1>1. BalancerInv => DropsOnlyIfBothMissed
  <2> SUFFICES ASSUME BalancerInv, NumBackends = 2, NEW c \in 1..Len(conns), conns[c].at = "dropped"
               PROVE  conns[c].missed = Backends
    BY DEF DropsOnlyIfBothMissed
  <2>1. First(c) \in conns[c].missed /\ Second(c) \in conns[c].missed
    BY DEF BalancerInv, MissedInv
  <2>2. conns[c] \in Conn
    BY DEF BalancerInv, BalancerTypeOK
  <2>3. First(c) \in {0, 1} /\ Second(c) = (First(c) + 1) % 2 /\ Backends = 0..1
    BY <2>2, Targets DEF BalancerInv, Backends, Second
  <2>4. conns[c].missed \subseteq Backends
    BY <2>2 DEF Conn
  <2>5. (First(c) = 0 /\ Second(c) = 1) \/ (First(c) = 1 /\ Second(c) = 0)
    BY <2>3
  <2> QED
    BY <2>1, <2>3, <2>4, <2>5
<1> QED
  BY <1>1, BalancerInvariant, PTL

-----------------------------------------------------------------------------

\* The peer p left while bytes written to it were unread.
Walked(p) == left[p] /\ got[Other(p)] < put[Other(p)]

\* A copy that has ended passed on its whole stream, or a peer walked away.
EndInv == \A p \in Peers : copy[p] # "copy" => CopyEof(p) \/ Walked(p) \/ Walked(Other(p))

\* A connection is reset because a peer walked away.
ResetInv == \A p \in Peers : reset[p] => Walked(p) \/ (closed[p] /\ Walked(Other(p)))

\* A side is shut after the copy towards it, and closed after both copies.
OrderInv ==
  /\ \A p \in Peers : shut[p] => copy[Other(p)] \in {"signal", "over"}
  /\ main # "wait" \/ (\E p \in Peers : closed[p]) => \A p \in Peers : copy[p] = "over"

SpliceInv == SpliceTypeOK /\ EndInv /\ ResetInv /\ OrderInv

\* The functions of the type invariant, and its bounds on their values.
Shapes ==
  /\ sent \in [Peers -> Nat] /\ taken \in [Peers -> Nat]
  /\ put \in [Peers -> Nat] /\ got \in [Peers -> Nat]
  /\ fin \in [Peers -> BOOLEAN] /\ left \in [Peers -> BOOLEAN]
  /\ reset \in [Peers -> BOOLEAN] /\ shut \in [Peers -> BOOLEAN] /\ closed \in [Peers -> BOOLEAN]
  /\ end \in [Peers -> {"open", "eof", "broken"}]
  /\ copy \in [Peers -> {"copy", "shut", "signal", "over"}]
  /\ main \in {"wait", "backend", "client", "gone"}

Bounds ==
  \A s \in Peers : /\ 0 <= got[s] /\ got[s] <= put[s] /\ put[s] <= taken[s]
                   /\ taken[s] <= sent[s] /\ sent[s] <= MaxBytes
                   /\ sent[s] - taken[s] <= Window /\ put[s] - got[s] <= Window

OverCount == done = Cardinality({s \in Peers : copy[s] = "over"})

\* The type invariant is these three, before a step and after it.
LEMMA TypeParts ==
  /\ SpliceTypeOK <=> Shapes /\ Bounds /\ OverCount
  /\ SpliceTypeOK' <=> Shapes' /\ Bounds' /\ OverCount'
BY DEF SpliceTypeOK, Shapes, Bounds, OverCount

\* The other peer is a peer, and its other is the first again.
LEMMA OtherPeer ==
  \A p \in Peers : Other(p) \in Peers /\ Other(p) # p /\ Other(Other(p)) = p
BY DEF Peers, Other

\* A signal counts one copy more over, and two signals are both of them.
LEMMA OverCounts ==
  ASSUME NEW S \in SUBSET Peers
  PROVE  /\ \A s \in Peers \ S : Cardinality(S \cup {s}) = Cardinality(S) + 1
         /\ Cardinality(S) = 2 => S = Peers
<1>1. S = {} \/ S = {"client"} \/ S = {"backend"} \/ S = {"client"} \cup {"backend"}
  BY DEF Peers
<1>2. IsFiniteSet({}) /\ IsFiniteSet({"client"}) /\ IsFiniteSet({"backend"})
  BY FS_EmptySet, FS_Singleton
<1>3. IsFiniteSet(S)
  <2>1. IsFiniteSet({"client"} \cup {"backend"})
    BY <1>2, FS_AddElement
  <2> QED
    BY <1>1, <1>2, <2>1
<1>4. \A s \in Peers \ S : Cardinality(S \cup {s}) = Cardinality(S) + 1
  BY <1>3, FS_AddElement
<1>5. Cardinality({}) = 0 /\ Cardinality({"client"}) = 1 /\ Cardinality({"backend"}) = 1
  BY FS_EmptySet, FS_Singleton
<1>6. Cardinality(S) = 2 => S = Peers
  <2>1. {"client"} \cup {"backend"} = Peers
    BY DEF Peers
  <2> QED
    BY <1>1, <1>5, <2>1
<1> QED
  BY <1>4, <1>6

-----------------------------------------------------------------------------
\* A connection starts with nothing sent, shut or closed, both copies running.
LEMMA SpliceStart == SpliceInit => SpliceInv
<1> SUFFICES ASSUME SpliceInit
             PROVE  SpliceInv
  OBVIOUS
<1> USE DEF SpliceInit
<1>1. Shapes /\ Bounds
  BY SpliceAssumption DEF Shapes, Bounds
<1>2. OverCount
  <2>1. {s \in Peers : copy[s] = "over"} = {}
    OBVIOUS
  <2> QED
    BY <2>1, FS_EmptySet DEF OverCount
<1>3. EndInv /\ ResetInv /\ OrderInv
  BY DEF EndInv, ResetInv, OrderInv
<1> QED
  BY <1>1, <1>2, <1>3, TypeParts DEF SpliceInv

\* The steps of a peer keep the invariant: bytes sent to a closed socket are
\* answered by a reset only when a copy has ended early.
LEMMA PeerStep ==
  ASSUME SpliceInv, NEW s \in Peers, Peer(s)
  PROVE  SpliceInv'
<1> USE SpliceAssumption, TypeParts, OtherPeer DEF peerVars, lbVars, Set
<1>0. Shapes /\ Bounds /\ OverCount /\ EndInv /\ ResetInv /\ OrderInv
  BY DEF SpliceInv
<1>1. Shapes'
  <2>1. CASE Send(s) BY <1>0, <2>1 DEF Send, Shapes
  <2>2. CASE Finish(s) BY <1>0, <2>2 DEF Finish, Shapes
  <2>3. CASE Leave(s) BY <1>0, <2>3 DEF Leave, Shapes
  <2>4. CASE Receive(s) BY <1>0, <2>4 DEF Receive, Shapes
  <2>5. CASE SeeEnd(s) BY <1>0, <2>5 DEF SeeEnd, Shapes
  <2>6. CASE SeeBreak(s) BY <1>0, <2>6 DEF SeeBreak, Shapes
  <2> QED
    BY <2>1, <2>2, <2>3, <2>4, <2>5, <2>6 DEF Peer
<1>2. UNCHANGED lbVars
  BY DEF Peer, Send, Finish, Leave, Receive, SeeEnd, SeeBreak
<1>3. Bounds'
  <2>1. CASE Send(s) BY <1>0, <2>1 DEF Send, Shapes, Bounds
  <2>2. CASE Finish(s) BY <1>0, <2>2 DEF Finish, Bounds
  <2>3. CASE Leave(s) BY <1>0, <2>3 DEF Leave, Bounds
  <2>4. CASE Receive(s) BY <1>0, <2>4 DEF Receive, Shapes, Bounds
  <2>5. CASE SeeEnd(s) \/ SeeBreak(s) BY <1>0, <2>5 DEF SeeEnd, SeeBreak, Bounds
  <2> QED
    BY <2>1, <2>2, <2>3, <2>4, <2>5 DEF Peer
<1>4. OverCount' /\ OrderInv'
  BY <1>0, <1>2 DEF OverCount, OrderInv
<1>5. \A p \in Peers : Walked(p) => Walked(p)'
  <2>1. CASE Send(s) \/ Finish(s) \/ SeeEnd(s) \/ SeeBreak(s)
    BY <2>1 DEF Send, Finish, SeeEnd, SeeBreak, Walked
  <2>2. CASE Leave(s)
    BY <1>0, <2>2 DEF Leave, Shapes, Walked
  <2>3. CASE Receive(s)
    BY <1>0, <2>3 DEF Receive, Shapes, Walked
  <2> QED
    BY <2>1, <2>2, <2>3 DEF Peer
<1>6. \A p \in Peers : CopyEof(p) => CopyEof(p)'
  <2>1. CASE Send(s) BY <1>0, <2>1 DEF Send, Shapes, CopyEof, InHand
  <2>2. CASE Finish(s) BY <1>0, <2>2 DEF Finish, Shapes, CopyEof, InHand
  <2>3. CASE Leave(s) BY <1>0, <2>3 DEF Leave, Shapes, CopyEof, InHand
  <2>4. CASE Receive(s) BY <2>4 DEF Receive, CopyEof, InHand
  <2>5. CASE SeeEnd(s) \/ SeeBreak(s) BY <2>5 DEF SeeEnd, SeeBreak, CopyEof, InHand
  <2> QED
    BY <2>1, <2>2, <2>3, <2>4, <2>5 DEF Peer
<1>7. EndInv'
  BY <1>0, <1>2, <1>5, <1>6 DEF EndInv
<1>8. \A p \in Peers : reset'[p] /\ ~reset[p] => Walked(p)' \/ (closed[p] /\ Walked(Other(p)))
  <2>1. CASE Send(s)
    <3>1. closed[s] => Walked(s) \/ Walked(Other(s))
      BY <1>0, <2>1 DEF Send, OrderInv, EndInv, CopyEof
    <3>2. \A p \in Peers : reset'[p] /\ ~reset[p] => p = s /\ closed[s]
      BY <1>0, <2>1 DEF Send, Shapes
    <3> QED
      BY <1>5, <3>1, <3>2
  <2>2. CASE Leave(s)
    <3>1. \A p \in Peers : reset'[p] /\ ~reset[p] => p = s /\ got[Other(s)] < put[Other(s)]
      BY <1>0, <2>2 DEF Leave, Shapes
    <3> QED
      BY <1>0, <2>2, <3>1 DEF Leave, Shapes, Walked
  <2>3. CASE Finish(s) \/ Receive(s) \/ SeeEnd(s) \/ SeeBreak(s)
    BY <2>3 DEF Finish, Receive, SeeEnd, SeeBreak
  <2> QED
    BY <2>1, <2>2, <2>3 DEF Peer
<1>9. ResetInv'
  BY <1>0, <1>2, <1>5, <1>8 DEF ResetInv
<1> QED
  BY <1>1, <1>3, <1>4, <1>7, <1>9 DEF SpliceInv

\* The steps of a copy keep the invariant: nothing is closed while it runs, so
\* it ends early only on a reset, which a peer walking away has caused.
LEMMA CopyStep ==
  ASSUME SpliceInv, NEW s \in Peers, Copy(s)
  PROVE  SpliceInv'
<1> USE SpliceAssumption, TypeParts, OtherPeer DEF peerVars, Set
<1>0. Shapes /\ Bounds /\ OverCount /\ EndInv /\ ResetInv /\ OrderInv
  BY DEF SpliceInv
<1>1. UNCHANGED <<peerVars, closed, main>> /\ copy[s] # "over"
  BY DEF Copy, CopyRead, CopyWrite, CopyEnds, CloseWrite, Signal
<1>2. main = "wait" /\ \A p \in Peers : ~closed[p]
  BY <1>0, <1>1 DEF OrderInv
<1>3. CASE CopyRead(s)
  <2>1. Shapes' /\ Bounds'
    <3>1. PICK n \in 1..(sent[s] - taken[s]) : taken' = [taken EXCEPT ![s] = @ + n]
      BY <1>3 DEF CopyRead
    <3> QED
      BY <1>0, <1>3, <3>1 DEF CopyRead, Shapes, Bounds
  <2>2. taken' = [taken EXCEPT ![s] = taken'[s]]
    BY <1>0, <1>3 DEF CopyRead, Shapes
  <2>3. OverCount' /\ ResetInv' /\ OrderInv'
    BY <1>0, <1>3 DEF CopyRead, OverCount, ResetInv, OrderInv, Walked
  <2>4. EndInv'
    BY <1>0, <1>3, <2>2 DEF CopyRead, Shapes, EndInv, CopyEof, InHand, Walked
  <2> QED
    BY <2>1, <2>3, <2>4 DEF SpliceInv
<1>4. CASE CopyWrite(s)
  <2>1. Shapes' /\ Bounds'
    BY <1>0, <1>4 DEF CopyWrite, Shapes, Bounds, InHand
  <2>2. OverCount' /\ OrderInv'
    BY <1>0, <1>4 DEF CopyWrite, OverCount, OrderInv
  <2>3. \A p \in Peers : Walked(p) => Walked(p)'
    BY <1>0, <1>4 DEF CopyWrite, Shapes, Walked
  <2>4. EndInv'
    BY <1>0, <1>4, <2>3 DEF CopyWrite, Shapes, EndInv, CopyEof, InHand
  <2>5. left[Other(s)] => Walked(Other(s))'
    BY <1>0, <1>4 DEF CopyWrite, Shapes, Bounds, Walked
  <2>6. ResetInv'
    BY <1>0, <1>4, <2>3, <2>5 DEF CopyWrite, Shapes, ResetInv
  <2> QED
    BY <2>1, <2>2, <2>4, <2>6 DEF SpliceInv
<1>5. CASE CopyEnds(s)
  <2>1. Shapes' /\ Bounds'
    BY <1>0, <1>5 DEF CopyEnds, Shapes, Bounds
  <2>2. {p \in Peers : copy'[p] = "over"} = {p \in Peers : copy[p] = "over"}
    BY <1>0, <1>5 DEF CopyEnds, Shapes
  <2>3. OverCount' /\ ResetInv' /\ OrderInv'
    <3>1. OverCount'
      BY <1>0, <1>5, <2>2 DEF CopyEnds, OverCount
    <3>2. ResetInv'
      BY <1>0, <1>2, <1>5 DEF CopyEnds, Shapes, ResetInv, Walked
    <3>3. OrderInv'
      BY <1>0, <1>2, <1>5 DEF CopyEnds, Shapes, OrderInv
    <3> QED
      BY <3>1, <3>2, <3>3
  <2>4. CopyError(s) => Walked(s) \/ Walked(Other(s))
    BY <1>0, <1>2 DEF CopyError, Dead, ResetInv
  <2>5. EndInv'
    BY <1>0, <1>5, <2>4 DEF CopyEnds, Shapes, EndInv, CopyEof, InHand, Walked
  <2> QED
    BY <2>1, <2>3, <2>5 DEF SpliceInv
<1>6. CASE CloseWrite(s)
  <2>1. Shapes' /\ Bounds'
    BY <1>0, <1>6 DEF CloseWrite, Shapes, Bounds
  <2>2. {p \in Peers : copy'[p] = "over"} = {p \in Peers : copy[p] = "over"}
    BY <1>0, <1>6 DEF CloseWrite, Shapes
  <2>3. OverCount' /\ ResetInv' /\ OrderInv'
    <3>1. OverCount'
      BY <1>0, <1>6, <2>2 DEF CloseWrite, OverCount
    <3>2. ResetInv'
      BY <1>0, <1>2, <1>6 DEF CloseWrite, Shapes, ResetInv, Walked
    <3>3. OrderInv'
      BY <1>0, <1>2, <1>6 DEF CloseWrite, Shapes, OrderInv
    <3> QED
      BY <3>1, <3>2, <3>3
  <2>4. EndInv'
    BY <1>0, <1>6 DEF CloseWrite, Shapes, EndInv, CopyEof, InHand, Walked
  <2> QED
    BY <2>1, <2>3, <2>4 DEF SpliceInv
<1>7. CASE Signal(s)
  <2>1. Bounds'
    BY <1>0, <1>7 DEF Signal, Bounds
  <2>2. Shapes'
    BY <1>0, <1>7 DEF Signal, Shapes
  <2>3. {p \in Peers : copy'[p] = "over"} = {p \in Peers : copy[p] = "over"} \cup {s}
    BY <1>0, <1>7 DEF Signal, Shapes
  <2>4. OverCount'
    <3>1. s \in Peers \ {p \in Peers : copy[p] = "over"}
      BY <1>1
    <3> QED
      BY <1>0, <1>7, <2>3, <3>1, OverCounts DEF Signal, OverCount
  <2>5. EndInv' /\ ResetInv' /\ OrderInv'
    BY <1>0, <1>2, <1>7
    DEF Signal, Shapes, EndInv, ResetInv, OrderInv, CopyEof, InHand, Walked
  <2> QED
    BY <2>1, <2>2, <2>4, <2>5 DEF SpliceInv
<1> QED
  BY <1>3, <1>4, <1>5, <1>6, <1>7 DEF Copy

\* The steps of proxy keep the invariant: it closes after both signals, and
\* bytes left unread then are those of a copy that ended early.
LEMMA CloseStep ==
  ASSUME SpliceInv, WaitAndClose
  PROVE  SpliceInv'
<1> USE SpliceAssumption, TypeParts, OtherPeer DEF peerVars, Set
<1>0. Shapes /\ Bounds /\ OverCount /\ EndInv /\ ResetInv /\ OrderInv
  BY DEF SpliceInv
<1>1. UNCHANGED <<peerVars, taken, put, shut, copy, done>>
  BY DEF WaitAndClose, Join, CloseBackend, CloseClient, Close
<1>2. \A p \in Peers : copy[p] = "over"
  <2>1. CASE Join
    BY <1>0, <2>1, OverCounts DEF Join, Drained, OverCount
  <2>2. CASE CloseBackend \/ CloseClient
    BY <1>0, <2>2 DEF CloseBackend, CloseClient, OrderInv
  <2> QED
    BY <2>1, <2>2 DEF WaitAndClose
<1>3. Shapes'
  <2>1. CASE Join
    BY <1>0, <2>1 DEF Join, Shapes
  <2>2. ASSUME NEW p \in Peers, Close(p), main' \in {"client", "gone"}
        PROVE  Shapes'
    BY <1>0, <2>2 DEF Close, Shapes
  <2> QED
    BY <2>1, <2>2 DEF WaitAndClose, CloseBackend, CloseClient, Peers
<1>4. Bounds' /\ OverCount'
  BY <1>0, <1>1 DEF Bounds, OverCount
<1>5. EndInv' /\ OrderInv'
  BY <1>0, <1>1, <1>2 DEF EndInv, OrderInv, CopyEof, InHand, Walked
<1>6. ASSUME NEW p \in Peers, Close(p)
      PROVE  ResetInv'
  <2>1. taken[p] < sent[p] => Walked(p) \/ Walked(Other(p))
    BY <1>0, <1>2 DEF Shapes, EndInv, CopyEof
  <2>2. \A q \in Peers : closed'[q] = (closed[q] \/ q = p)
    BY <1>0, <1>6 DEF Close, Shapes
  <2>3. \A q \in Peers : reset'[q] = (reset[q] \/ (q = p /\ taken[p] < sent[p]))
    BY <1>0, <1>6 DEF Close, Shapes
  <2> QED
    BY <1>0, <1>1, <2>1, <2>2, <2>3 DEF ResetInv, Walked
<1>7. ResetInv'
  <2>1. CASE Join
    BY <1>0, <2>1 DEF Join, ResetInv, Walked
  <2>2. CASE CloseBackend \/ CloseClient
    BY <1>6, <2>2 DEF CloseBackend, CloseClient, Peers
  <2> QED
    BY <2>1, <2>2 DEF WaitAndClose
<1> QED
  BY <1>3, <1>4, <1>5, <1>7 DEF SpliceInv

\* The invariant is inductive.
LEMMA SpliceInvariant == SpliceSpec => []SpliceInv
<1>1. SpliceInv /\ [SpliceNext]_spliceVars => SpliceInv'
  <2>1. SpliceInv /\ UNCHANGED spliceVars => SpliceInv'
    BY DEF SpliceInv, SpliceTypeOK, EndInv, ResetInv, OrderInv, CopyEof, InHand, Walked,
           spliceVars, peerVars, lbVars
  <2> QED
    BY <2>1, PeerStep, CopyStep, CloseStep DEF SpliceNext
<1> QED
  BY SpliceStart, <1>1, PTL DEF SpliceSpec

\* What the balancer keeps of a connection is well formed: it never writes more
\* than it read, holds a window of bytes at most, and counts its signals.
THEOREM SpliceTypeCorrect == SpliceSpec => []SpliceTypeOK
<1>1. SpliceInv => SpliceTypeOK
  BY DEF SpliceInv
<1> QED
  BY SpliceInvariant, <1>1, PTL

-----------------------------------------------------------------------------
\* An end or a reset that a peer sees is the duplex promise's: its stream is
\* complete, or the other peer walked away.
LEMMA WalkedIsUnheard ==
  ASSUME SpliceInv, NEW p \in Peers, Walked(p)
  PROVE  Abstract!Unheard(p)
BY TypeParts, OtherPeer DEF SpliceInv, Shapes, Bounds, Walked, Abstract!Unheard, Abstract!Other, Other

\* Every step of the splice is a step of the duplex promise, or leaves what it
\* speaks of unchanged.
LEMMA StepImplements ==
  ASSUME SpliceInv, [SpliceNext]_spliceVars
  PROVE  [Abstract!Next]_(Abstract!dvars)
<1> USE DEF Abstract!Peers, Abstract!dvars
<1>0. Shapes /\ Bounds /\ EndInv /\ ResetInv /\ OrderInv
  BY TypeParts DEF SpliceInv
<1>1. CASE UNCHANGED peerVars
  BY <1>1 DEF peerVars
<1>2. ASSUME NEW s \in Peers, Peer(s)
      PROVE  Abstract!Next
  <2>1. CASE Send(s)
    BY <2>1 DEF Send, Abstract!Send, Abstract!Next, Peers, lbVars
  <2>2. CASE Finish(s)
    BY <2>2 DEF Finish, Abstract!Finish, Abstract!Next, Peers, Set
  <2>3. CASE Leave(s)
    BY <2>3 DEF Leave, Abstract!Leave, Abstract!Next, Peers, Set
  <2>4. CASE Receive(s)
    <3>1. got[Other(s)] < sent[Other(s)]
      BY <1>0, <2>4, OtherPeer DEF Receive, Shapes, Bounds
    <3> QED
      BY <2>4, <3>1 DEF Receive, Abstract!Receive, Abstract!Next, Abstract!Other, Other, Peers
  <2>5. CASE SeeEnd(s)
    <3>1. copy[Other(s)] # "copy"
      BY <1>0, <2>5, OtherPeer DEF SeeEnd, OrderInv
    <3>2. CopyEof(Other(s)) \/ Walked(Other(s))
      BY <1>0, <2>5, <3>1, OtherPeer DEF SeeEnd, EndInv, Walked
    <3>3. CopyEof(Other(s)) => fin[Other(s)] /\ got[Other(s)] = sent[Other(s)]
      BY <1>0, <2>5, OtherPeer DEF SeeEnd, CopyEof, InHand, Shapes
    <3>4. (fin[Other(s)] /\ got[Other(s)] = sent[Other(s)]) \/ Abstract!Unheard(Other(s))
      BY <3>2, <3>3, OtherPeer, WalkedIsUnheard
    <3>5. Abstract!SeeEnd(s)
      BY <2>5, <3>4 DEF SeeEnd, Abstract!SeeEnd, Abstract!Other, Other
    <3> QED
      BY <3>5 DEF Abstract!Next, Peers
  <2>6. CASE SeeBreak(s)
    <3>1. Walked(Other(s))
      BY <1>0, <2>6 DEF SeeBreak, ResetInv, Walked
    <3>2. Abstract!Unheard(Other(s))
      BY <3>1, OtherPeer, WalkedIsUnheard
    <3>3. Abstract!SeeBreak(s)
      BY <2>6, <3>2 DEF SeeBreak, Abstract!SeeBreak, Abstract!Other, Other
    <3> QED
      BY <3>3 DEF Abstract!Next, Peers
  <2> QED
    BY <1>2, <2>1, <2>2, <2>3, <2>4, <2>5, <2>6 DEF Peer
<1>3. ASSUME NEW s \in Peers, Copy(s)
      PROVE  UNCHANGED peerVars
  BY <1>3 DEF Copy, CopyRead, CopyWrite, CopyEnds, CloseWrite, Signal
<1>4. WaitAndClose => UNCHANGED peerVars
  BY DEF WaitAndClose, Join, CloseBackend, CloseClient, Close
<1> QED
  BY <1>1, <1>2, <1>3, <1>4 DEF SpliceNext, spliceVars

\* A connection through the balancer is two streams with an end each: the end
\* comes after the last byte, and a stream is cut short or broken only by a
\* peer that closed with bytes unread.
THEOREM ImplementsDuplex == SpliceSpec => KeepsDuplex
<1>1. SpliceInit => Abstract!Init
  BY DEF SpliceInit, Abstract!Init, Abstract!Peers, Peers
<1>2. SpliceInv /\ [SpliceNext]_spliceVars => [Abstract!Next]_(Abstract!dvars)
  BY StepImplements
<1> QED
  BY SpliceInvariant, <1>1, <1>2, PTL DEF SpliceSpec, KeepsDuplex, Abstract!Spec
=============================================================================
