------------------------------- MODULE Server -------------------------------
(***************************************************************************)
(* One API process, main.go: the startup goroutine that loads or builds    *)
(* the index, tunes it and publishes it, concurrently with the HTTP        *)
(* server's handlers, one goroutine per request, which share the index     *)
(* pointer and the pool of body buffers.  The search is one step: it reads *)
(* only the published index and its own stack (modules Engine, Search).    *)
(***************************************************************************)
EXTENDS Naturals, Sequences

CONSTANTS Handlers,     \* request slots of the HTTP server
          Buffers,      \* body buffers that may exist at once
          WellFormed,   \* bodies VectorizeJSON accepts
          Malformed,    \* bodies it refuses
          Torn,         \* what a read that fails leaves in the buffer
          Nil,          \* no index, no buffer, no answer
          NumKnobs      \* setters tune calls: 8

Bodies == WellFormed \cup Malformed
Origins == {"file", "dataset"}

ASSUME ServerAssumption ==
  /\ WellFormed \cap Malformed = {} /\ Torn \notin Bodies
  /\ Nil \notin Origins /\ Nil \notin Buffers /\ Nil \notin Bodies
  /\ NumKnobs \in Nat \ {0}

VARIABLES
  boot,       \* the startup goroutine: "load", "build", "tune", "store", "announce", "up"
  fresh,      \* its local index, by origin, and
  knobs,      \* how many setters have written to it
  ix,         \* server.ix, the published pointer
  ready,      \* server.ready
  seen200,    \* history: a probe of /ready has been answered 200
  exited,     \* log.Fatalf ended the process
  pool,       \* bufPool: the buffers free to be reused
  content,    \* bytes of each buffer, as the bodies written one after the other
  pc,         \* where each handler is
  body,       \* its request's body
  late,       \* history: the request began after a probe was answered 200
  held,       \* buf
  query,      \* q: the body the vector was computed from
  using,      \* ix as the handler loaded it
  wrote,      \* what writeBody has been called with
  cause       \* history: why the handler answers with the fallback

bootVars == <<boot, fresh, knobs, ix, ready>>
bufVars == <<pool, content>>
reqVars == <<body, late, held, query, using, wrote, cause>>
vars == <<bootVars, seen200, exited, bufVars, pc, reqVars>>

Fallback == [kind |-> "fallback", of |-> Nil, by |-> Nil]
Scored(b, i) == [kind |-> "score", of |-> b, by |-> i]
Answers == {Fallback} \cup {Scored(b, i) : b \in Bodies \cup {Torn}, i \in Origins}

Places == {"idle", "get", "read", "parse", "load", "search", "score", "fallback",
           "return", "unwind", "recover", "answered"}
Causes == {"none", "read", "parse", "noindex", "panic"}

ServerTypeOK ==
  /\ boot \in {"load", "build", "tune", "store", "announce", "up"}
  /\ fresh \in Origins \cup {Nil} /\ ix \in Origins \cup {Nil}
  /\ knobs \in 0..NumKnobs
  /\ ready \in BOOLEAN /\ seen200 \in BOOLEAN /\ exited \in BOOLEAN
  /\ pool \subseteq Buffers
  /\ content \in [Buffers -> Seq(Bodies \cup {Torn})]
  /\ pc \in [Handlers -> Places]
  /\ body \in [Handlers -> Bodies]
  /\ late \in [Handlers -> BOOLEAN]
  /\ held \in [Handlers -> Buffers \cup {Nil}]
  /\ query \in [Handlers -> Bodies \cup {Torn, Nil}]
  /\ using \in [Handlers -> Origins \cup {Nil}]
  /\ wrote \in [Handlers -> Seq(Answers)]
  /\ cause \in [Handlers -> Causes]

Init ==
  /\ boot = "load" /\ fresh = Nil /\ knobs = 0 /\ ix = Nil /\ ready = FALSE
  /\ seen200 = FALSE /\ exited = FALSE
  /\ pool = {} /\ content = [b \in Buffers |-> <<>>]
  /\ pc = [h \in Handlers |-> "idle"]
  /\ body \in [Handlers -> Bodies]
  /\ late = [h \in Handlers |-> FALSE]
  /\ held = [h \in Handlers |-> Nil]
  /\ query = [h \in Handlers |-> Nil]
  /\ using = [h \in Handlers |-> Nil]
  /\ wrote = [h \in Handlers |-> <<>>]
  /\ cause = [h \in Handlers |-> "none"]

-----------------------------------------------------------------------------
\* The startup goroutine.

LoadFilePublishes ==                              \* mutant: published before tune
  /\ boot = "load"
  /\ fresh' = "file" /\ ix' = "file" /\ boot' = "tune"
  /\ UNCHANGED <<knobs, ready, seen200, exited, bufVars, pc, reqVars>>

\* INDEX_PATH is set and LoadIndex reads it.
LoadFile ==
  /\ boot = "load"
  /\ fresh' = "file" /\ boot' = "tune"
  /\ UNCHANGED <<knobs, ix, ready, seen200, exited, bufVars, pc, reqVars>>

\* INDEX_PATH is not set, or its file is missing or refused.
NoFile ==
  /\ boot = "load"
  /\ boot' = "build"
  /\ UNCHANGED <<fresh, knobs, ix, ready, seen200, exited, bufVars, pc, reqVars>>

\* dataset.Load succeeds.
BuildIndex ==
  /\ boot = "build"
  /\ fresh' = "dataset" /\ boot' = "tune"
  /\ UNCHANGED <<knobs, ix, ready, seen200, exited, bufVars, pc, reqVars>>

\* dataset.Load fails: log.Fatalf, whatever the handlers are doing.
BuildFails ==
  /\ boot = "build"
  /\ exited' = TRUE
  /\ UNCHANGED <<bootVars, seen200, bufVars, pc, reqVars>>

TuneOnceMore ==                                   \* mutant: one setter too many
  /\ boot = "tune"
  /\ knobs' = knobs + 1
  /\ boot' = IF knobs = NumKnobs THEN "store" ELSE "tune"
  /\ UNCHANGED <<fresh, ix, ready, seen200, exited, bufVars, pc, reqVars>>

\* tune: one setter at a time.
Tune ==
  /\ boot = "tune"
  /\ knobs' = knobs + 1
  /\ boot' = IF knobs + 1 = NumKnobs THEN "store" ELSE "tune"
  /\ UNCHANGED <<fresh, ix, ready, seen200, exited, bufVars, pc, reqVars>>

StoreForgotten ==                                 \* mutant: ready without Store
  /\ boot = "store" /\ boot' = "announce"
  /\ UNCHANGED <<fresh, knobs, ix, ready, seen200, exited, bufVars, pc, reqVars>>

\* s.ix.Store(ix)
Store ==
  /\ boot = "store"
  /\ ix' = fresh /\ boot' = "announce"
  /\ UNCHANGED <<fresh, knobs, ready, seen200, exited, bufVars, pc, reqVars>>

\* s.ready.Store(true)
Announce ==
  /\ boot = "announce"
  /\ ready' = TRUE /\ boot' = "up"
  /\ UNCHANGED <<fresh, knobs, ix, seen200, exited, bufVars, pc, reqVars>>

Startup == LoadFile \/ NoFile \/ BuildIndex \/ BuildFails \/ Tune \/ Store \/ Announce

-----------------------------------------------------------------------------
\* handleReady: a 503 leaves no trace.
Probe ==
  /\ ready /\ ~seen200
  /\ seen200' = TRUE
  /\ UNCHANGED <<bootVars, exited, bufVars, pc, reqVars>>

\* ListenAndServe returns: log.Fatalf.
ListenerFails ==
  /\ exited' = TRUE
  /\ UNCHANGED <<bootVars, seen200, bufVars, pc, reqVars>>

-----------------------------------------------------------------------------
\* A handler of /fraud-score.

At(h, here, there) == pc[h] = here /\ pc' = [pc EXCEPT ![h] = there]

\* The HTTP server starts handleScore on a new request.
Accept(h, b) ==
  /\ pc[h] \in {"idle", "answered"}
  /\ pc' = [pc EXCEPT ![h] = "get"]
  /\ body' = [body EXCEPT ![h] = b]
  /\ late' = [late EXCEPT ![h] = seen200]
  /\ query' = [query EXCEPT ![h] = Nil]
  /\ using' = [using EXCEPT ![h] = Nil]
  /\ wrote' = [wrote EXCEPT ![h] = <<>>]
  /\ cause' = [cause EXCEPT ![h] = "none"]
  /\ UNCHANGED <<bootVars, seen200, exited, bufVars, held>>

NoReset(b) == content                             \* mutant: the old bytes stay

\* buf.Reset
Reset(b) == [content EXCEPT ![b] = <<>>]

\* bufPool.Get finds a buffer.
GetPooled(h, b) ==
  /\ b \in pool
  /\ At(h, "get", "read")
  /\ pool' = pool \ {b}
  /\ held' = [held EXCEPT ![h] = b]
  /\ content' = Reset(b)
  /\ UNCHANGED <<bootVars, seen200, exited, body, late, query, using, wrote, cause>>

GetNewNever(h, b) == FALSE                        \* mutant: a pool without New

\* bufPool.Get calls New, which it may do whatever the pool holds.
GetNew(h, b) ==
  /\ b \notin pool /\ \A g \in Handlers : held[g] # b
  /\ At(h, "get", "read")
  /\ held' = [held EXCEPT ![h] = b]
  /\ content' = [content EXCEPT ![b] = <<>>]
  /\ UNCHANGED <<bootVars, seen200, exited, pool, body, late, query, using, wrote, cause>>

\* The garbage collector empties a sync.Pool when it likes.
DropPooled(b) ==
  /\ b \in pool
  /\ pool' = pool \ {b}
  /\ UNCHANGED <<bootVars, seen200, exited, content, pc, reqVars>>

Filled(h, bytes) == [content EXCEPT ![held[h]] = @ \o <<bytes>>]

ReadBodyPutsBack(h) ==                            \* mutant: Put as soon as it is read
  /\ At(h, "read", "parse")
  /\ content' = Filled(h, body[h])
  /\ pool' = pool \cup {held[h]}
  /\ UNCHANGED <<bootVars, seen200, exited, reqVars>>

\* buf.ReadFrom gets the whole body.
ReadBody(h) ==
  /\ At(h, "read", "parse")
  /\ content' = Filled(h, body[h])
  /\ UNCHANGED <<bootVars, seen200, exited, pool, reqVars>>

FallBack(h, here, why) ==
  /\ At(h, here, "fallback")
  /\ cause' = [cause EXCEPT ![h] = why]
  /\ UNCHANGED <<bootVars, seen200, exited, pool, body, late, held, query, using, wrote>>

\* ReadTimeout, or the client is gone: part of the body is in the buffer.
ReadFails(h) ==
  /\ FallBack(h, "read", "read")
  /\ content' = Filled(h, Torn)

\* VectorizeJSON: each field is taken where its name first occurs.
Parse(h) ==
  /\ At(h, "parse", "load")
  /\ Head(content[held[h]]) \in WellFormed
  /\ query' = [query EXCEPT ![h] = Head(content[held[h]])]
  /\ UNCHANGED <<bootVars, seen200, exited, bufVars, body, late, held, using, wrote, cause>>

ParseFails(h) ==
  /\ FallBack(h, "parse", "parse")
  /\ Head(content[held[h]]) \notin WellFormed
  /\ UNCHANGED content

\* s.ix.Load
LoadIndex(h) ==
  /\ ix # Nil
  /\ At(h, "load", "search")
  /\ using' = [using EXCEPT ![h] = ix]
  /\ UNCHANGED <<bootVars, seen200, exited, bufVars, body, late, held, query, wrote, cause>>

NoIndex(h) ==
  /\ ix = Nil
  /\ FallBack(h, "load", "noindex")
  /\ UNCHANGED content

\* ScoreCount
Search(h) ==
  /\ At(h, "search", "score")
  /\ UNCHANGED <<bootVars, seen200, exited, bufVars, reqVars>>

\* ReadFrom, VectorizeJSON or ScoreCount panics.
Panic(h) ==
  /\ \E here \in {"read", "parse", "search"} : At(h, here, "unwind")
  /\ cause' = [cause EXCEPT ![h] = "panic"]
  /\ UNCHANGED <<bootVars, seen200, exited, bufVars, body, late, held, query, using, wrote>>

\* writeBody
Write(h, here, there, answer) ==
  /\ At(h, here, there)
  /\ wrote' = [wrote EXCEPT ![h] = Append(@, answer)]
  /\ UNCHANGED <<bootVars, seen200, exited, bufVars, body, late, held, query, using, cause>>

WriteScore(h) == Write(h, "score", "return", Scored(query[h], using[h]))

WriteFallback(h) == Write(h, "fallback", "return", Fallback)

\* The deferred bufPool.Put, on return and while a panic unwinds.
PutBuffer(h) ==
  /\ At(h, "return", "answered") \/ At(h, "unwind", "recover")
  /\ pool' = pool \cup {held[h]}
  /\ held' = [held EXCEPT ![h] = Nil]
  /\ UNCHANGED <<bootVars, seen200, exited, content, body, late, query, using, wrote, cause>>

RecoverSilently(h) ==                             \* mutant: logs and writes nothing
  /\ At(h, "recover", "answered")
  /\ UNCHANGED <<bootVars, seen200, exited, bufVars, reqVars>>

\* The deferred function registered first runs last: recover and answer.
Recover(h) == Write(h, "recover", "answered", Fallback)

Handle(h) ==
  \/ \E b \in Buffers : GetPooled(h, b) \/ GetNew(h, b)
  \/ ReadBody(h) \/ ReadFails(h) \/ Parse(h) \/ ParseFails(h) \/ LoadIndex(h) \/ NoIndex(h)
  \/ Search(h) \/ Panic(h) \/ WriteScore(h) \/ WriteFallback(h) \/ PutBuffer(h) \/ Recover(h)

Next ==
  /\ ~exited
  /\ \/ Startup \/ Probe \/ ListenerFails
     \/ \E h \in Handlers : Handle(h) \/ \E b \in Bodies : Accept(h, b)
     \/ \E b \in Buffers : DropPooled(b)

\* Each goroutine runs on while it can; a read ends by itself or by the 2 s
\* ReadTimeout.  Nothing makes a request or a probe arrive.
Spec == /\ Init /\ [][Next]_vars
        /\ WF_vars(~exited /\ Startup)
        /\ \A h \in Handlers : WF_vars(~exited /\ Handle(h))

-----------------------------------------------------------------------------
\* handleScore answers exactly once: no path writes twice, and none, a panic
\* included, returns without an answer.
ExactlyOneAnswer ==
  \A h \in Handlers :
    Len(wrote[h]) = IF pc[h] \in {"return", "answered"} THEN 1 ELSE 0

\* The score a request gets was computed from its own body, which was well
\* formed, on the published index: a reused buffer never lends the bytes of
\* another request.
AnswersItsOwnRequest ==
  \A h \in Handlers : \A i \in 1..Len(wrote[h]) :
    wrote[h][i].kind = "score" =>
      wrote[h][i].of = body[h] /\ body[h] \in WellFormed /\ wrote[h][i].by = ix

\* A buffer belongs to one handler or to the pool, also after a panic.
BufferHeldByOne ==
  /\ \A g, h \in Handlers : g # h /\ held[g] # Nil => held[g] # held[h]
  /\ \A h \in Handlers : held[h] \notin pool

\* /ready answers 200 only when scoring works: a request that begins after it
\* never falls back for want of an index.
ReadyMeansIndexed == \A h \in Handlers : late[h] => cause[h] # "noindex"

\* A handler searches an index nobody writes any more: every knob is set
\* before the pointer is published.
SearchesAFinalIndex ==
  \A h \in Handlers : pc[h] = "search" => using[h] = fresh /\ knobs = NumKnobs

\* Every request is answered, unless the process exits.
EveryRequestAnswered ==
  \A h \in Handlers : (pc[h] = "get") ~> (pc[h] = "answered" \/ exited)
=============================================================================
