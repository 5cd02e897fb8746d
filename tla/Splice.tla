------------------------------- MODULE Splice -------------------------------
(***************************************************************************)
(* One connection of the balancer once its backend is dialled: the rest of *)
(* proxy in cmd/lb/main.go.  Two goroutines copy, one per direction, and   *)
(* half-close the other side when their stream ends; proxy waits for both  *)
(* and then closes the sockets.  The peers and the kernels between them    *)
(* are modelled as the balancer uses them: bytes are counted, a socket     *)
(* buffers a window of them, and a reset answers bytes nobody will read.   *)
(***************************************************************************)
EXTENDS Naturals, FiniteSets

CONSTANTS MaxBytes,    \* bound on the bytes each peer sends
          Window       \* bytes buffered per direction and socket

ASSUME SpliceAssumption == MaxBytes \in Nat /\ Window \in Nat \ {0}

Peers == {"client", "backend"}
Other(s) == IF s = "client" THEN "backend" ELSE "client"

VARIABLES
  sent,      \* bytes the peer s has written
  taken,     \* of these, bytes its copy has read: sent - taken wait at the balancer
  put,       \* of these, bytes its copy has written on: taken - put are in its hands
  got,       \* of these, bytes the other peer has read
  fin,       \* s has shut down its write side, or closed
  left,      \* s has closed: it reads no more
  end,       \* what s knows of the other's stream: "open", "eof" or "broken"
  reset,     \* the connection between s and the balancer has been reset
  shut,      \* the balancer has shut down its write side towards s
  closed,    \* the balancer has closed its socket to s
  copy,      \* the goroutine reading from s: "copy", "shut", "signal" or "over"
  done,      \* signals in the done channel
  main       \* proxy itself: "wait", "backend", "client" (next to close) or "gone"

peerVars == <<sent, got, fin, left, end>>
lbVars == <<taken, put, shut, closed, copy, done, main>>
spliceVars == <<peerVars, lbVars, reset>>

SpliceTypeOK ==
  /\ \A s \in Peers : /\ 0 <= got[s] /\ got[s] <= put[s] /\ put[s] <= taken[s]
                      /\ taken[s] <= sent[s] /\ sent[s] <= MaxBytes
                      /\ sent[s] - taken[s] <= Window /\ put[s] - got[s] <= Window
  /\ {sent, taken, put, got} \subseteq [Peers -> Nat]
  /\ {fin, left, reset, shut, closed} \subseteq [Peers -> BOOLEAN]
  /\ end \in [Peers -> {"open", "eof", "broken"}]
  /\ copy \in [Peers -> {"copy", "shut", "signal", "over"}]
  /\ done = Cardinality({s \in Peers : copy[s] = "over"})
  /\ main \in {"wait", "backend", "client", "gone"}

SpliceInit ==
  /\ sent = [s \in Peers |-> 0] /\ taken = sent /\ put = sent /\ got = sent
  /\ fin = [s \in Peers |-> FALSE] /\ left = fin /\ reset = fin /\ shut = fin /\ closed = fin
  /\ end = [s \in Peers |-> "open"]
  /\ copy = [s \in Peers |-> "copy"] /\ done = 0 /\ main = "wait"

Set(f, s) == [f EXCEPT ![s] = TRUE]

-----------------------------------------------------------------------------
\* The peers and their kernels.

\* A byte sent to a socket the balancer has closed is answered by a reset.
Send(s) ==
  /\ ~fin[s] /\ ~reset[s] /\ sent[s] < MaxBytes /\ sent[s] - taken[s] < Window
  /\ sent' = [sent EXCEPT ![s] = @ + 1]
  /\ reset' = IF closed[s] THEN Set(reset, s) ELSE reset
  /\ UNCHANGED <<got, fin, left, end, lbVars>>

Finish(s) ==
  /\ ~fin[s]
  /\ fin' = Set(fin, s)
  /\ UNCHANGED <<sent, got, left, end, reset, lbVars>>

\* A peer that closes with bytes unread resets the connection.
Leave(s) ==
  /\ ~left[s]
  /\ fin' = Set(fin, s) /\ left' = Set(left, s)
  /\ reset' = IF got[Other(s)] < put[Other(s)] THEN Set(reset, s) ELSE reset
  /\ UNCHANGED <<sent, got, end, lbVars>>

\* What has arrived may still be read after a reset, or may not.
Receive(s) ==
  /\ ~left[s] /\ end[s] = "open" /\ got[Other(s)] < put[Other(s)]
  /\ got' = [got EXCEPT ![Other(s)] = @ + 1]
  /\ UNCHANGED <<sent, fin, left, end, reset, lbVars>>

SeeEnd(s) ==
  /\ ~left[s] /\ end[s] = "open" /\ ~reset[s]
  /\ shut[s] \/ closed[s]
  /\ got[Other(s)] = put[Other(s)]
  /\ end' = [end EXCEPT ![s] = "eof"]
  /\ UNCHANGED <<sent, got, fin, left, reset, lbVars>>

SeeBreak(s) ==
  /\ ~left[s] /\ end[s] = "open" /\ reset[s]
  /\ end' = [end EXCEPT ![s] = "broken"]
  /\ UNCHANGED <<sent, got, fin, left, reset, lbVars>>

-----------------------------------------------------------------------------
\* The two copies: io.Copy(Other(s), s), CloseWrite, done <- struct{}{}.

Dead(s) == reset[s] \/ closed[s]
InHand(s) == taken[s] - put[s]

\* A read takes some of the bytes that wait.
CopyRead(s) ==
  /\ copy[s] = "copy" /\ InHand(s) = 0 /\ ~closed[s]
  /\ \E n \in 1..(sent[s] - taken[s]) : taken' = [taken EXCEPT ![s] = @ + n]
  /\ UNCHANGED <<peerVars, put, shut, closed, copy, done, main, reset>>

\* A write passes on what fits; a peer that has closed answers with a reset.
CopyWrite(s) ==
  /\ copy[s] = "copy" /\ InHand(s) > 0 /\ ~Dead(Other(s))
  /\ put[s] - got[s] < Window
  /\ put' = [put EXCEPT ![s] = @ + 1]
  /\ reset' = IF left[Other(s)] THEN Set(reset, Other(s)) ELSE reset
  /\ UNCHANGED <<peerVars, taken, shut, closed, copy, done, main>>

CopyEof(s) == InHand(s) = 0 /\ fin[s] /\ taken[s] = sent[s]

CopyError(s) == IF InHand(s) = 0 THEN Dead(s) ELSE Dead(Other(s))

\* io.Copy returns, at the end of the stream or on an error, which is ignored.
CopyEnds(s) ==
  /\ copy[s] = "copy" /\ (CopyEof(s) \/ CopyError(s))
  /\ copy' = [copy EXCEPT ![s] = "shut"]
  /\ UNCHANGED <<peerVars, taken, put, shut, closed, done, main, reset>>

CloseWriteNot(s) ==                               \* mutant: the end is not passed on
  /\ copy[s] = "shut"
  /\ copy' = [copy EXCEPT ![s] = "signal"]
  /\ UNCHANGED <<peerVars, taken, put, shut, closed, done, main, reset>>

CloseWriteOfSource(s) ==                          \* mutant: the wrong peer
  /\ copy[s] = "shut"
  /\ shut' = Set(shut, s)
  /\ copy' = [copy EXCEPT ![s] = "signal"]
  /\ UNCHANGED <<peerVars, taken, put, closed, done, main, reset>>

\* CloseWrite on the other peer's socket.
CloseWrite(s) ==
  /\ copy[s] = "shut"
  /\ shut' = Set(shut, Other(s))
  /\ copy' = [copy EXCEPT ![s] = "signal"]
  /\ UNCHANGED <<peerVars, taken, put, closed, done, main, reset>>

SignalTwice(s) ==                                 \* mutant: a deferred signal besides
  /\ copy[s] = "signal"
  /\ copy' = [copy EXCEPT ![s] = "over"] /\ done' = done + 2
  /\ UNCHANGED <<peerVars, taken, put, shut, closed, main, reset>>

\* The channel has room for both signals.
Signal(s) ==
  /\ copy[s] = "signal"
  /\ copy' = [copy EXCEPT ![s] = "over"] /\ done' = done + 1
  /\ UNCHANGED <<peerVars, taken, put, shut, closed, main, reset>>

-----------------------------------------------------------------------------
\* proxy.

DrainedNever == done > 2                          \* mutant: a third <-done

\* <-done, twice.
Drained == done = 2

Join ==
  /\ main = "wait" /\ Drained
  /\ main' = "backend"
  /\ UNCHANGED <<peerVars, taken, put, shut, closed, copy, done, reset>>

\* A deferred Close: it sends the end after what was put, or a reset when bytes
\* of the peer are left unread.
Close(s) ==
  /\ closed' = Set(closed, s)
  /\ reset' = IF taken[s] < sent[s] THEN Set(reset, s) ELSE reset
  /\ UNCHANGED <<peerVars, taken, put, shut, copy, done>>

CloseBackend == main = "backend" /\ main' = "client" /\ Close("backend")

CloseClient == main = "client" /\ main' = "gone" /\ Close("client")

Peer(s) == Send(s) \/ Finish(s) \/ Leave(s) \/ Receive(s) \/ SeeEnd(s) \/ SeeBreak(s)

CopyInTurn(s) ==                                  \* mutant: one goroutine, the request first
  /\ s = "client" \/ copy["client"] = "over"
  /\ CopyRead(s) \/ CopyWrite(s) \/ CopyEnds(s) \/ CloseWrite(s) \/ Signal(s)

Copy(s) == CopyRead(s) \/ CopyWrite(s) \/ CopyEnds(s) \/ CloseWrite(s) \/ Signal(s)

WaitAndClose == Join \/ CloseBackend \/ CloseClient

SpliceNext == (\E s \in Peers : Peer(s) \/ Copy(s)) \/ WaitAndClose

\* The balancer's goroutines run on, and a peer that has not left reads what
\* arrives; nobody has to send, to finish or to leave.
SpliceSpec ==
  /\ SpliceInit /\ [][SpliceNext]_spliceVars /\ WF_spliceVars(WaitAndClose)
  /\ \A s \in Peers : /\ WF_spliceVars(Copy(s))
                      /\ WF_spliceVars(Receive(s) \/ SeeEnd(s) \/ SeeBreak(s))

-----------------------------------------------------------------------------
\* The splice keeps the duplex promise: an end comes after the last byte, and
\* nothing is cut short or broken unless a peer walks away from bytes sent to it.
Abstract == INSTANCE Duplex
KeepsDuplex == Abstract!Spec

\* A byte sent is read in the end, whatever the other direction does, unless a
\* peer leaves.
EveryByteArrives ==
  \A s \in Peers : \A n \in 1..MaxBytes :
    sent[s] = n ~> (got[s] >= n \/ \E p \in Peers : left[p])

\* The end of a request stream reaches the backend while the response is still
\* open, and the other way round.
HalfClosePassesOn ==
  \A s \in Peers : fin[s] ~> (end[Other(s)] # "open" \/ left[Other(s)])

\* Once both peers have finished, both goroutines and both sockets are released.
ProxyEnds == (\A s \in Peers : fin[s]) ~> main = "gone"
=============================================================================
