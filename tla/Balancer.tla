------------------------------ MODULE Balancer ------------------------------
(***************************************************************************)
(* The accept loop of cmd/lb/main.go and the dialling part of proxy: each  *)
(* connection gets the next value of the round-robin counter, dials that   *)
(* backend and, once, the one after it.  What follows a successful dial is *)
(* module Splice.                                                          *)
(***************************************************************************)
EXTENDS Naturals, Sequences

CONSTANTS NumBackends,   \* len(backends)
          Wrap,          \* rr is a counter modulo Wrap: 2^64
          MaxConns,      \* bound on the clients that connect
          MaxOutages     \* bound on the times a backend stops answering

ASSUME BalancerAssumption == {NumBackends, Wrap} \subseteq Nat \ {0} /\ {MaxConns, MaxOutages} \subseteq Nat

Backends == 0..(NumBackends - 1)

VARIABLES
  loop,      \* the accept loop: "accept" or "sleep"
  waiting,   \* clients in the listen backlog
  rr,        \* the counter
  conns,     \* the accepted connections, in order
  up,        \* the backends that answer a dial within a second
  outages    \* how often one has stopped

vars == <<loop, waiting, rr, conns, up, outages>>

\* n: the counter value proxy was given; missed: history, the backends that
\* were down at some moment since the connection was accepted.
Conn == [n : 0..(Wrap - 1), at : {"dial", "redial", "spliced", "dropped"},
         to : Backends, missed : SUBSET Backends]

BalancerTypeOK ==
  /\ loop \in {"accept", "sleep"} /\ waiting \in 0..MaxConns
  /\ rr \in 0..(Wrap - 1) /\ conns \in Seq(Conn) /\ Len(conns) + waiting <= MaxConns
  /\ up \subseteq Backends /\ outages \in 0..MaxOutages

Init ==
  /\ loop = "accept" /\ waiting = 0 /\ rr = 0 /\ conns = <<>>
  /\ up \in SUBSET Backends /\ outages = 0

-----------------------------------------------------------------------------
Arrive ==
  /\ Len(conns) + waiting < MaxConns
  /\ waiting' = waiting + 1
  /\ UNCHANGED <<loop, rr, conns, up, outages>>

\* atomic.AddUint64(&rr, 1)
NextCount == (rr + 1) % Wrap

\* Accept, count and go proxy: the goroutine keeps the counter value
\* it was started with.
Accept ==
  /\ loop = "accept" /\ waiting > 0
  /\ waiting' = waiting - 1
  /\ rr' = NextCount
  /\ conns' = Append(conns, [n |-> NextCount, at |-> "dial", to |-> 0, missed |-> Backends \ up])
  /\ UNCHANGED <<loop, up, outages>>

\* A transient accept error: back off, keep serving.
AcceptFails ==
  /\ loop = "accept"
  /\ loop' = "sleep"
  /\ UNCHANGED <<waiting, rr, conns, up, outages>>

WakeNever == FALSE                                \* mutant: return for continue

Wake ==
  /\ loop = "sleep"
  /\ loop' = "accept"
  /\ UNCHANGED <<waiting, rr, conns, up, outages>>

-----------------------------------------------------------------------------
First(c) == conns[c].n % NumBackends

SecondUnreduced(c) == First(c) + 1                \* mutant: backends[idx+1]

SecondIsFirst(c) == First(c)                      \* mutant: the same backend again

Second(c) == (First(c) + 1) % NumBackends

Move(c, at, b) == conns' = [conns EXCEPT ![c].at = at, ![c].to = b]

\* A dial of backend b reaches it, or fails.
Try(c, here, b, failed) ==
  /\ conns[c].at = here
  /\ Move(c, IF b \in up THEN "spliced" ELSE failed, b)
  /\ UNCHANGED <<loop, waiting, rr, up, outages>>

DialGivesUp(c) == Try(c, "dial", First(c), "dropped")    \* mutant: no failover

Dial(c) == Try(c, "dial", First(c), "redial")

Redial(c) == Try(c, "redial", Second(c), "dropped")

GoDown(b) ==
  /\ b \in up /\ outages < MaxOutages
  /\ up' = up \ {b} /\ outages' = outages + 1
  /\ conns' = [c \in 1..Len(conns) |-> [conns[c] EXCEPT !.missed = @ \cup {b}]]
  /\ UNCHANGED <<loop, waiting, rr>>

ComeUp(b) ==
  /\ b \notin up
  /\ up' = up \cup {b}
  /\ UNCHANGED <<loop, waiting, rr, conns, outages>>

Proxy(c) == Dial(c) \/ Redial(c)

Next ==
  \/ Arrive \/ Accept \/ AcceptFails \/ Wake
  \/ \E c \in 1..Len(conns) : Proxy(c)
  \/ \E b \in Backends : GoDown(b) \/ ComeUp(b)

\* The loop goes on after each pause, an accept that could succeed again and
\* again does, and a dial ends within its timeout.
Spec == /\ Init /\ [][Next]_vars
        /\ WF_vars(Wake) /\ SF_vars(Accept)
        /\ \A c \in 1..MaxConns : WF_vars(c <= Len(conns) /\ Proxy(c))

-----------------------------------------------------------------------------
\* With two backends a client is turned away only if each of them was down at
\* some moment while it waited.
DropsOnlyIfBothMissed ==
  \A c \in 1..Len(conns) :
    conns[c].at = "dropped" /\ NumBackends = 2 => conns[c].missed = Backends

\* An accepted client is spliced or turned away, and accept errors never keep
\* one waiting for ever.
EveryClientSettles ==
  /\ \A k \in 1..MaxConns : waiting >= k ~> Len(conns) >= k
  /\ \A c \in 1..MaxConns : Len(conns) >= c ~> (Len(conns) >= c /\ conns[c].at \in {"spliced", "dropped"})
=============================================================================
