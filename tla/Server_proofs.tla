---------------------------- MODULE Server_proofs ----------------------------
(***************************************************************************)
(* The safety of Server for any number of handlers, buffers and bodies.    *)
(***************************************************************************)
EXTENDS Server, TLAPS

Holding == {"read", "parse", "load", "search", "score", "fallback", "return", "unwind"}

\* The startup goroutine owns the index until every setter has run.
BootInv ==
  /\ boot \in {"load", "build"} => knobs = 0
  /\ boot = "tune" => fresh # Nil /\ knobs < NumKnobs
  /\ boot \in {"store", "announce", "up"} => fresh # Nil /\ knobs = NumKnobs
  /\ boot \in {"load", "build", "tune", "store"} => ix = Nil /\ ~ready
  /\ boot \in {"announce", "up"} => ix = fresh
  /\ seen200 => ready

HeldInv ==
  \A h \in Handlers : pc[h] \in Holding <=> held[h] # Nil

BytesInv ==
  \A h \in Handlers :
    /\ pc[h] = "read" => content[held[h]] = <<>>
    /\ pc[h] = "parse" => content[held[h]] = <<body[h]>>

QueryInv ==
  \A h \in Handlers :
    /\ pc[h] \in {"load", "search", "score"} => query[h] = body[h] /\ body[h] \in WellFormed
    /\ pc[h] \in {"search", "score"} => using[h] = ix /\ ix # Nil

LateInv ==
  \A h \in Handlers : late[h] => seen200 /\ cause[h] # "noindex"

\* What one handler has written so far.
Answer(h, a) ==
  /\ wrote[h] = <<a>> /\ a \in Answers
  /\ a.kind = "score" => a.of = body[h] /\ body[h] \in WellFormed /\ a.by = ix /\ ix # Nil

WroteInv ==
  \A h \in Handlers :
    IF pc[h] \in {"return", "answered"} THEN \E a \in Answers : Answer(h, a) ELSE wrote[h] = <<>>

IInv ==
  /\ ServerTypeOK /\ BootInv /\ HeldInv /\ BufferHeldByOne
  /\ BytesInv /\ QueryInv /\ LateInv /\ WroteInv

-----------------------------------------------------------------------------
\* A process starts with nothing published and no request under way.
LEMMA InitIInv == Init => IInv
<1> SUFFICES ASSUME Init PROVE IInv
  OBVIOUS
<1> USE DEF Init
<1>1. ServerTypeOK
  <2>1. content \in [Buffers -> Seq(Bodies \cup {Torn})] /\ wrote \in [Handlers -> Seq(Answers)]
    OBVIOUS
  <2>2. knobs \in 0..NumKnobs
    BY ServerAssumption
  <2> QED
    BY <2>1, <2>2 DEF ServerTypeOK, Places, Causes
<1>2. BootInv /\ HeldInv /\ BufferHeldByOne /\ BytesInv /\ QueryInv /\ LateInv /\ WroteInv
  BY ServerAssumption DEF BootInv, HeldInv, Holding, BufferHeldByOne, BytesInv, QueryInv, LateInv, WroteInv
<1> QED
  BY <1>1, <1>2 DEF IInv

\* The startup goroutine, the probes and the listener.
LEMMA StartupIInv ==
  ASSUME IInv, Startup \/ Probe \/ ListenerFails
  PROVE  IInv'
<1> USE ServerAssumption DEF IInv, bufVars, reqVars, bootVars, Startup, LoadFile, NoFile,
        BuildIndex, BuildFails, Tune, Store, Announce, Probe, ListenerFails
<1>1. ServerTypeOK'
  <2>1. knobs' \in 0..NumKnobs
    BY DEF ServerTypeOK, BootInv
  <2>2. UNCHANGED <<content, pool, pc, body, late, held, query, using, wrote, cause>>
    OBVIOUS
  <2>3. /\ boot' \in {"load", "build", "tune", "store", "announce", "up"}
        /\ fresh' \in Origins \cup {Nil} /\ ix' \in Origins \cup {Nil}
        /\ ready' \in BOOLEAN /\ seen200' \in BOOLEAN /\ exited' \in BOOLEAN
    BY ZenonT(60) DEF ServerTypeOK, Origins
  <2> QED
    BY <2>1, <2>2, <2>3 DEF ServerTypeOK
<1>2. BootInv'
  BY DEF ServerTypeOK, BootInv, Origins
<1>3. HeldInv' /\ BufferHeldByOne' /\ BytesInv'
  BY DEF HeldInv, BufferHeldByOne, BytesInv
<1>4. ix' = ix \/ ix = Nil
  BY DEF BootInv
<1>5. QueryInv' /\ LateInv'
  BY <1>4 DEF QueryInv, LateInv
<1>6. WroteInv'
  BY <1>4 DEF WroteInv, Answer, Answers
<1> QED
  BY <1>1, <1>2, <1>3, <1>5, <1>6

\* A new request overwrites the slot of an answered one.
LEMMA AcceptIInv ==
  ASSUME IInv, NEW h \in Handlers, NEW b \in Bodies, Accept(h, b)
  PROVE  IInv'
<1> USE ServerAssumption DEF IInv, bufVars, reqVars, bootVars, At, Accept
<1>1. ServerTypeOK'
  BY DEF ServerTypeOK, HeldInv, Holding, Places, Causes
<1>2. BootInv'
  BY DEF BootInv
<1>3. HeldInv' /\ BufferHeldByOne'
  BY DEF ServerTypeOK, HeldInv, Holding, BufferHeldByOne
<1>4. BytesInv'
  BY DEF ServerTypeOK, HeldInv, Holding, BufferHeldByOne, BytesInv
<1>5. QueryInv' /\ LateInv'
  BY DEF ServerTypeOK, BootInv, QueryInv, LateInv
<1>6. WroteInv'
  BY DEF ServerTypeOK, WroteInv, Answer
<1> QED
  BY <1>1, <1>2, <1>3, <1>4, <1>5, <1>6

\* A buffer from the pool, emptied.
LEMMA GetPooledIInv ==
  ASSUME IInv, NEW h \in Handlers, NEW b \in Buffers, GetPooled(h, b)
  PROVE  IInv'
<1> USE ServerAssumption DEF IInv, bufVars, reqVars, bootVars, At, GetPooled, Reset
<1>1. ServerTypeOK'
  BY DEF ServerTypeOK, HeldInv, Holding, Places, Causes
<1>2. BootInv'
  BY DEF BootInv
<1>3. HeldInv' /\ BufferHeldByOne'
  BY DEF ServerTypeOK, HeldInv, Holding, BufferHeldByOne
<1>4. BytesInv'
  BY DEF ServerTypeOK, HeldInv, Holding, BufferHeldByOne, BytesInv
<1>5. QueryInv' /\ LateInv'
  BY DEF ServerTypeOK, BootInv, QueryInv, LateInv
<1>6. WroteInv'
  BY DEF ServerTypeOK, WroteInv, Answer
<1> QED
  BY <1>1, <1>2, <1>3, <1>4, <1>5, <1>6

\* A new buffer.
LEMMA GetNewIInv ==
  ASSUME IInv, NEW h \in Handlers, NEW b \in Buffers, GetNew(h, b)
  PROVE  IInv'
<1> USE ServerAssumption DEF IInv, bufVars, reqVars, bootVars, At, GetNew
<1>1. ServerTypeOK'
  BY DEF ServerTypeOK, HeldInv, Holding, Places, Causes
<1>2. BootInv'
  BY DEF BootInv
<1>3. HeldInv' /\ BufferHeldByOne'
  BY DEF ServerTypeOK, HeldInv, Holding, BufferHeldByOne
<1>4. BytesInv'
  BY DEF ServerTypeOK, HeldInv, Holding, BufferHeldByOne, BytesInv
<1>5. QueryInv' /\ LateInv'
  BY DEF ServerTypeOK, BootInv, QueryInv, LateInv
<1>6. WroteInv'
  BY DEF ServerTypeOK, WroteInv, Answer
<1> QED
  BY <1>1, <1>2, <1>3, <1>4, <1>5, <1>6

\* The collector takes a free buffer.
LEMMA DropPooledIInv ==
  ASSUME IInv, NEW b \in Buffers, DropPooled(b)
  PROVE  IInv'
<1> USE ServerAssumption DEF IInv, bufVars, reqVars, bootVars, At, DropPooled
<1>1. ServerTypeOK'
  BY DEF ServerTypeOK, HeldInv, Holding, Places, Causes
<1>2. BootInv'
  BY DEF BootInv
<1>3. HeldInv' /\ BufferHeldByOne'
  BY DEF ServerTypeOK, HeldInv, Holding, BufferHeldByOne
<1>4. BytesInv'
  BY DEF ServerTypeOK, HeldInv, Holding, BufferHeldByOne, BytesInv
<1>5. QueryInv' /\ LateInv'
  BY DEF ServerTypeOK, BootInv, QueryInv, LateInv
<1>6. WroteInv'
  BY DEF ServerTypeOK, WroteInv, Answer
<1> QED
  BY <1>1, <1>2, <1>3, <1>4, <1>5, <1>6

\* The body goes into a buffer nobody else holds.
LEMMA ReadIInv ==
  ASSUME IInv, NEW h \in Handlers, ReadBody(h) \/ ReadFails(h)
  PROVE  IInv'
<1> USE ServerAssumption DEF IInv, bufVars, reqVars, bootVars, At, ReadBody, ReadFails, FallBack, Filled
<1>0. held[h] \in Buffers /\ content[held[h]] = <<>> /\ body[h] \in Bodies
  BY DEF ServerTypeOK, HeldInv, Holding, BytesInv
<1>1. ServerTypeOK'
  <2>1. ASSUME NEW x \in Bodies \cup {Torn}, content' = Filled(h, x)
        PROVE  content' \in [Buffers -> Seq(Bodies \cup {Torn})]
    <3>1. content[held[h]] \o <<x>> \in Seq(Bodies \cup {Torn})
      BY <1>0, <2>1
    <3> QED
      BY <1>0, <2>1, <3>1 DEF ServerTypeOK
  <2>2. content' \in [Buffers -> Seq(Bodies \cup {Torn})]
    BY <1>0, <2>1
  <2>3. pc' \in [Handlers -> Places] /\ cause' \in [Handlers -> Causes]
    BY DEF ServerTypeOK, Places, Causes
  <2> QED
    BY <2>2, <2>3 DEF ServerTypeOK
<1>2. BootInv'
  BY DEF BootInv
<1>3. HeldInv' /\ BufferHeldByOne'
  BY DEF ServerTypeOK, HeldInv, Holding, BufferHeldByOne
<1>4. BytesInv'
  BY DEF ServerTypeOK, HeldInv, Holding, BufferHeldByOne, BytesInv
<1>5. QueryInv' /\ LateInv'
  BY DEF ServerTypeOK, BootInv, QueryInv, LateInv
<1>6. WroteInv'
  BY DEF ServerTypeOK, WroteInv, Answer
<1> QED
  BY <1>1, <1>2, <1>3, <1>4, <1>5, <1>6

\* The vector comes from the body alone.
LEMMA ParseIInv ==
  ASSUME IInv, NEW h \in Handlers, Parse(h) \/ ParseFails(h)
  PROVE  IInv'
<1> USE ServerAssumption DEF IInv, bufVars, reqVars, bootVars, At, Parse, ParseFails, FallBack
<1>0. pc[h] = "parse" /\ Head(content[held[h]]) = body[h] /\ body[h] \in Bodies
  BY DEF ServerTypeOK, BytesInv
<1>1. ServerTypeOK'
  <2>1. query' \in [Handlers -> Bodies \cup {Torn, Nil}]
    BY <1>0 DEF ServerTypeOK
  <2>2. pc' \in [Handlers -> Places] /\ cause' \in [Handlers -> Causes]
    BY DEF ServerTypeOK, Places, Causes
  <2> QED
    BY <2>1, <2>2 DEF ServerTypeOK
<1>2. BootInv'
  BY DEF BootInv
<1>3. HeldInv' /\ BufferHeldByOne'
  BY DEF ServerTypeOK, HeldInv, Holding, BufferHeldByOne
<1>4. BytesInv'
  BY DEF ServerTypeOK, HeldInv, Holding, BufferHeldByOne, BytesInv
<1>5. QueryInv' /\ LateInv'
  BY <1>0 DEF ServerTypeOK, QueryInv, LateInv
<1>6. WroteInv'
  BY DEF ServerTypeOK, WroteInv, Answer
<1> QED
  BY <1>1, <1>2, <1>3, <1>4, <1>5, <1>6

\* The pointer is read once.
LEMMA LoadIInv ==
  ASSUME IInv, NEW h \in Handlers, LoadIndex(h) \/ NoIndex(h)
  PROVE  IInv'
<1> USE ServerAssumption DEF IInv, bufVars, reqVars, bootVars, At, LoadIndex, NoIndex, FallBack
<1>1. ServerTypeOK'
  <2>1. using' \in [Handlers -> Origins \cup {Nil}]
    BY DEF ServerTypeOK
  <2>2. pc' \in [Handlers -> Places] /\ cause' \in [Handlers -> Causes]
    BY DEF ServerTypeOK, Places, Causes
  <2> QED
    BY <2>1, <2>2 DEF ServerTypeOK
<1>2. BootInv'
  BY DEF BootInv
<1>3. HeldInv' /\ BufferHeldByOne'
  BY DEF ServerTypeOK, HeldInv, Holding, BufferHeldByOne
<1>4. BytesInv'
  BY DEF ServerTypeOK, HeldInv, Holding, BufferHeldByOne, BytesInv
<1>5. QueryInv' /\ LateInv'
  <2>1. QueryInv'
    BY DEF ServerTypeOK, BootInv, QueryInv
  <2>2. LateInv'
    BY DEF ServerTypeOK, BootInv, LateInv
  <2> QED
    BY <2>1, <2>2
<1>6. WroteInv'
  BY DEF ServerTypeOK, WroteInv, Answer
<1> QED
  BY <1>1, <1>2, <1>3, <1>4, <1>5, <1>6

\* Searching and panicking write nothing.
LEMMA SearchIInv ==
  ASSUME IInv, NEW h \in Handlers, Search(h) \/ Panic(h)
  PROVE  IInv'
<1> USE ServerAssumption DEF IInv, bufVars, reqVars, bootVars, At, Search, Panic
<1>1. ServerTypeOK'
  <2>1. pc' \in [Handlers -> Places] /\ cause' \in [Handlers -> Causes]
    BY DEF ServerTypeOK, Places, Causes
  <2>2. held' \in [Handlers -> Buffers \cup {Nil}]
    BY DEF ServerTypeOK
  <2> QED
    BY <2>1, <2>2 DEF ServerTypeOK
<1>2. BootInv'
  BY DEF BootInv
<1>3. HeldInv' /\ BufferHeldByOne'
  BY DEF ServerTypeOK, HeldInv, Holding, BufferHeldByOne
<1>4. BytesInv'
  BY DEF ServerTypeOK, HeldInv, Holding, BufferHeldByOne, BytesInv
<1>5. QueryInv' /\ LateInv'
  BY DEF ServerTypeOK, BootInv, QueryInv, LateInv
<1>6. WroteInv'
  BY DEF ServerTypeOK, WroteInv, Answer
<1> QED
  BY <1>1, <1>2, <1>3, <1>4, <1>5, <1>6

\* One answer is written.
LEMMA WriteIInv ==
  ASSUME IInv, NEW h \in Handlers, WriteScore(h) \/ WriteFallback(h) \/ Recover(h)
  PROVE  IInv'
<1> USE ServerAssumption DEF IInv, bufVars, reqVars, bootVars, At, WriteScore, WriteFallback, Recover, Write
<1>0. PICK a \in Answers :
        /\ wrote' = [wrote EXCEPT ![h] = Append(@, a)]
        /\ a.kind = "score" => a.of = body[h] /\ body[h] \in WellFormed /\ a.by = ix /\ ix # Nil
  <2>1. Fallback \in Answers /\ Fallback.kind # "score"
    BY DEF Fallback, Answers
  <2>2. ASSUME pc[h] = "score"
        PROVE  Scored(query[h], using[h]) \in Answers /\ query[h] = body[h]
               /\ body[h] \in WellFormed /\ using[h] = ix /\ ix # Nil
    BY <2>2 DEF ServerTypeOK, QueryInv, Answers, Bodies
  <2> QED
    BY <2>1, <2>2 DEF Scored
<1>00. wrote[h] = <<>> /\ wrote'[h] = <<a>>
  <2>1. wrote[h] = <<>>
    BY DEF WroteInv
  <2>2. Append(wrote[h], a) = <<a>>
    BY <2>1
  <2> QED
    BY <1>0, <2>1, <2>2 DEF ServerTypeOK
<1>1. ServerTypeOK'
  <2>1. wrote' \in [Handlers -> Seq(Answers)]
    <3>1. <<a>> \in Seq(Answers)
      BY <1>0
    <3> QED
      BY <1>0, <1>00, <3>1 DEF ServerTypeOK
  <2>2. pc' \in [Handlers -> Places]
    BY DEF ServerTypeOK, Places
  <2> QED
    BY <2>1, <2>2 DEF ServerTypeOK
<1>2. BootInv'
  BY DEF BootInv
<1>3. HeldInv' /\ BufferHeldByOne'
  BY DEF ServerTypeOK, HeldInv, Holding, BufferHeldByOne
<1>4. BytesInv'
  BY DEF ServerTypeOK, HeldInv, Holding, BufferHeldByOne, BytesInv
<1>5. QueryInv' /\ LateInv'
  BY DEF ServerTypeOK, BootInv, QueryInv, LateInv
<1>6. WroteInv'
  <2>1. Answer(h, a)'
    BY <1>0, <1>00 DEF Answer
  <2>2. ASSUME NEW g \in Handlers, g # h
        PROVE  pc'[g] = pc[g] /\ wrote'[g] = wrote[g]
    BY <1>0, <2>2 DEF ServerTypeOK
  <2> QED
    BY <1>0, <2>1, <2>2 DEF ServerTypeOK, WroteInv, Answer
<1> QED
  BY <1>1, <1>2, <1>3, <1>4, <1>5, <1>6

\* The buffer goes back.
LEMMA PutIInv ==
  ASSUME IInv, NEW h \in Handlers, PutBuffer(h)
  PROVE  IInv'
<1> USE ServerAssumption DEF IInv, bufVars, reqVars, bootVars, At, PutBuffer
<1>1. ServerTypeOK'
  <2>1. pc' \in [Handlers -> Places] /\ held' \in [Handlers -> Buffers \cup {Nil}]
    BY DEF ServerTypeOK, Places
  <2>2. pool' \subseteq Buffers
    BY DEF ServerTypeOK, HeldInv, Holding
  <2> QED
    BY <2>1, <2>2 DEF ServerTypeOK
<1>2. BootInv'
  BY DEF BootInv
<1>3. HeldInv' /\ BufferHeldByOne'
  BY DEF ServerTypeOK, HeldInv, Holding, BufferHeldByOne
<1>4. BytesInv'
  BY DEF ServerTypeOK, HeldInv, Holding, BufferHeldByOne, BytesInv
<1>5. QueryInv' /\ LateInv'
  BY DEF ServerTypeOK, BootInv, QueryInv, LateInv
<1>6. WroteInv'
  BY DEF ServerTypeOK, WroteInv, Answer
<1> QED
  BY <1>1, <1>2, <1>3, <1>4, <1>5, <1>6

\* A step of one handler, whichever it takes.
LEMMA HandleIInv ==
  ASSUME IInv, NEW h \in Handlers, Handle(h)
  PROVE  IInv'
<1>1. ASSUME NEW b \in Buffers, GetPooled(h, b) \/ GetNew(h, b) PROVE IInv'
  BY <1>1, GetPooledIInv, GetNewIInv
<1>2. CASE ReadBody(h) \/ ReadFails(h)
  BY <1>2, ReadIInv
<1>3. CASE Parse(h) \/ ParseFails(h)
  BY <1>3, ParseIInv
<1>4. CASE LoadIndex(h) \/ NoIndex(h)
  BY <1>4, LoadIInv
<1>5. CASE Search(h) \/ Panic(h)
  BY <1>5, SearchIInv
<1>6. CASE WriteScore(h) \/ WriteFallback(h) \/ Recover(h)
  BY <1>6, WriteIInv
<1>7. CASE PutBuffer(h)
  BY <1>7, PutIInv
<1> QED
  BY <1>1, <1>2, <1>3, <1>4, <1>5, <1>6, <1>7 DEF Handle

\* The invariant of the server is inductive.
LEMMA NextIInv == IInv /\ [Next]_vars => IInv'
<1> SUFFICES ASSUME IInv, [Next]_vars PROVE IInv'
  OBVIOUS
<1>1. CASE Startup \/ Probe \/ ListenerFails
  BY <1>1, StartupIInv
<1>2. ASSUME NEW h \in Handlers, Handle(h) PROVE IInv'
  BY <1>2, HandleIInv
<1>3. ASSUME NEW h \in Handlers, NEW b \in Bodies, Accept(h, b) PROVE IInv'
  BY <1>3, AcceptIInv
<1>4. ASSUME NEW b \in Buffers, DropPooled(b) PROVE IInv'
  BY <1>4, DropPooledIInv
<1>5. CASE UNCHANGED vars
  BY <1>5 DEF vars, bootVars, bufVars, reqVars, IInv, ServerTypeOK, BootInv, HeldInv,
     BufferHeldByOne, BytesInv, QueryInv, LateInv, WroteInv, Answer
<1> QED
  BY <1>1, <1>2, <1>3, <1>4, <1>5 DEF Next

\* The invariant holds throughout every run of the server.
LEMMA SpecIInv == Spec => []IInv
  BY InitIInv, NextIInv, PTL DEF Spec

\* The types of every variable, for any number of handlers and buffers.
THEOREM TypeCorrect == Spec => []ServerTypeOK
<1>1. IInv => ServerTypeOK
  BY DEF IInv
<1> QED
  BY SpecIInv, <1>1, PTL

\* No handler returns without an answer and none writes two, whatever fails or
\* panics: writeBody is called once on every path of handleScore.
THEOREM OneAnswer == Spec => []ExactlyOneAnswer
<1>1. ASSUME IInv, NEW h \in Handlers
      PROVE  Len(wrote[h]) = IF pc[h] \in {"return", "answered"} THEN 1 ELSE 0
  <2>1. CASE pc[h] \in {"return", "answered"}
    <3>1. PICK a \in Answers : wrote[h] = <<a>>
      BY <1>1, <2>1 DEF IInv, WroteInv, Answer
    <3>2. Len(<<a>>) = 1
      OBVIOUS
    <3> QED
      BY <2>1, <3>1, <3>2
  <2>2. CASE pc[h] \notin {"return", "answered"}
    <3>1. wrote[h] = <<>>
      BY <1>1, <2>2 DEF IInv, WroteInv
    <3> QED
      BY <2>2, <3>1
  <2> QED
    BY <2>1, <2>2
<1>2. IInv => ExactlyOneAnswer
  BY <1>1 DEF ExactlyOneAnswer
<1> QED
  BY SpecIInv, <1>2, PTL

\* Buffers are reused without lending bytes: a score comes from the request's
\* own, well-formed body and from the published index.
THEOREM OwnRequest == Spec => []AnswersItsOwnRequest
<1>1. IInv => AnswersItsOwnRequest
  BY DEF IInv, WroteInv, Answer, AnswersItsOwnRequest
<1> QED
  BY SpecIInv, <1>1, PTL

\* bufPool never hands one buffer to two handlers.
THEOREM BufferOwnership == Spec => []BufferHeldByOne
<1>1. IInv => BufferHeldByOne
  BY DEF IInv
<1> QED
  BY SpecIInv, <1>1, PTL

\* A 200 of /ready is a promise: no later request misses the index.
THEOREM ReadyPromise == Spec => []ReadyMeansIndexed
<1>1. IInv => ReadyMeansIndexed
  BY DEF IInv, LateInv, ReadyMeansIndexed
<1> QED
  BY SpecIInv, <1>1, PTL

\* Publishing comes after tuning: an index in use is never written.
THEOREM FinalIndex == Spec => []SearchesAFinalIndex
<1>1. IInv => SearchesAFinalIndex
  BY ServerAssumption DEF IInv, QueryInv, BootInv, ServerTypeOK, SearchesAFinalIndex
<1> QED
  BY SpecIInv, <1>1, PTL
=============================================================================
