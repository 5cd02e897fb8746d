-------------------------------- MODULE Boot --------------------------------
(***************************************************************************)
(* How the index gets from the references to a serving process: the        *)
(* command buildindex (cmd/buildindex) builds it and Save writes it in     *)
(* place, and the startup goroutine of the API (main.go) loads that file   *)
(* or, when it cannot, builds from the references itself.  Either process  *)
(* may be killed and started again, with its own REFERENCES_PATH and       *)
(* INDEX_NLIST, while the other runs.                                      *)
(***************************************************************************)
EXTENDS Dataset, IndexFile

CONSTANTS BuilderFiles, \* files REFERENCES_PATH may name for buildindex
          ApiFiles,   \* and for the API
          NLists,     \* values of INDEX_NLIST
          Nil,        \* no file, no index
          MaxBuilds,  \* bound: runs of buildindex
          MaxNoise    \* bound: words of the file the disk damages

\* What an index is made of, read back or built.
AnyWord ==
  [kind : {"header", "number", "noise"} \cup {Parts[p] : p \in 1..5}, v : Nat, of : Seq(Records)]
AnyIndex == [n : Nat, nlist : Nat, slices : Seq(Seq(AnyWord))]

ASSUME BootAssumption ==
  /\ NLists \subseteq Nat \ {0} /\ MaxBuilds \in Nat /\ MaxNoise \in Nat
  /\ Nil \notin ApiFiles \cup AnyIndex

\* A file of references opens with its bracket, and ends with the closing one.
ASSUME FilesAssumption ==
  \A f \in BuilderFiles \cup ApiFiles :
    /\ f \in Seq(Pieces)
    /\ f # <<>> => f[1] = "open"
    /\ \A i \in 1..Len(f) : f[i] = "close" => i = Len(f)

VARIABLES
  file,      \* INDEX_OUT and INDEX_PATH: the words on disk, Nil when there is no file
  built,     \* buildindex: the index in memory, Nil when it does not run
  wrote,     \* the words Save has written, Nil before os.Create
  api,       \* the startup goroutine: "down", "start", "read", "build", "ready",
             \* "exited" (log.Fatalf) or "crashed" (a panic nobody recovers)
  refs,      \* the references it has loaded, Nil before
  rd,        \* what LoadIndex has read
  served,    \* the index it publishes
  saved,     \* history: the indexes written to the last word
  torn,      \* history: the file was created anew while LoadIndex read it
  noise,     \* history: words damaged
  builds     \* history: runs of buildindex

builderVars == <<built, wrote, saved, builds>>
apiVars == <<api, refs, rd, served>>
vars == <<file, builderVars, apiVars, torn, noise>>

Indexes == {IndexOf(Load(f).recs, nl) : f \in {g \in BuilderFiles : Load(g).ok}, nl \in NLists}

\* make panics on a length that no index can have.
ASSUME HugeAssumption == \A x \in Indexes : \A p \in 1..5 : Len(x.slices[p]) # Huge

BootTypeOK ==
  /\ built \in Indexes \cup {Nil} /\ saved \subseteq Indexes
  /\ wrote = Nil \/ (built # Nil /\ wrote \in 0..Len(Image(built)))
  /\ api \in {"down", "start", "read", "build", "ready", "exited", "crashed"}
  /\ refs \in ApiFiles \cup {Nil}
  /\ rd.pos = 0 <=> rd = NothingRead
  /\ Len(rd.nums) <= 2 /\ Len(rd.slices) <= 5
  /\ (served # Nil) <=> (api = "ready")
  /\ torn \in BOOLEAN /\ noise \in 0..MaxNoise
  /\ builds \in 0..MaxBuilds

Init ==
  /\ file = Nil /\ built = Nil /\ wrote = Nil /\ saved = {} /\ builds = 0
  /\ api = "down" /\ refs = Nil /\ rd = NothingRead /\ served = Nil
  /\ torn = FALSE /\ noise = 0

-----------------------------------------------------------------------------
\* buildindex.

\* dataset.Load; references it cannot load end the command before os.Create.
StartBuild ==
  /\ built = Nil /\ builds < MaxBuilds
  /\ \E f \in BuilderFiles, nl \in NLists :
       /\ Load(f).ok
       /\ built' = IndexOf(Load(f).recs, nl)
  /\ builds' = builds + 1
  /\ UNCHANGED <<file, wrote, saved, apiVars, torn, noise>>

\* os.Create: the same file, cut to nothing.
Create ==
  /\ built # Nil /\ wrote = Nil
  /\ file' = <<>> /\ wrote' = 0
  /\ torn' = (torn \/ (api = "read" /\ rd # NothingRead))
  /\ UNCHANGED <<built, saved, builds, apiVars, noise>>

\* A flush of the bufio.Writer: the next word reaches the file.
WriteWord ==
  /\ wrote # Nil /\ wrote < Len(Image(built))
  /\ file' = Append(file, Image(built)[wrote + 1])
  /\ wrote' = wrote + 1
  /\ saved' = IF wrote' = Len(Image(built)) THEN saved \cup {built} ELSE saved
  /\ UNCHANGED <<built, builds, apiVars, torn, noise>>

\* Save returns.
FinishBuild ==
  /\ wrote # Nil /\ wrote = Len(Image(built))
  /\ built' = Nil /\ wrote' = Nil
  /\ UNCHANGED <<file, saved, builds, apiVars, torn, noise>>

\* A write fails or the process is killed; what is on disk stays there.
AbortBuild ==
  /\ built # Nil
  /\ built' = Nil /\ wrote' = Nil
  /\ UNCHANGED <<file, saved, builds, apiVars, torn, noise>>

Builder == Create \/ WriteWord \/ FinishBuild

-----------------------------------------------------------------------------
\* The startup goroutine.  tune, Store and Announce follow in module Server.

\* The process starts, or starts again after it has ended or was killed.
Start ==
  /\ api' = "start"
  /\ refs' = Nil /\ rd' = NothingRead /\ served' = Nil /\ torn' = FALSE
  /\ UNCHANGED <<file, builderVars, noise>>

Publish(x) == api' = "ready" /\ served' = x

GiveUp == api' = "exited" /\ UNCHANGED served     \* mutant: no second way to an index

Fall == api' = "build" /\ UNCHANGED served

\* LoadIndex: os.Open, when INDEX_PATH is set.
Open ==
  /\ api = "start"
  /\ \/ file # Nil /\ api' = "read"
     \/ api' = "build"
  /\ UNCHANGED <<file, builderVars, refs, rd, served, torn, noise>>

Word == file[rd.pos + 1]
HasWord == file # Nil /\ rd.pos < Len(file)

\* The next word of the file, whatever it holds by now.
ReadHeader ==
  /\ api = "read" /\ AtHeader(rd) /\ HasWord
  /\ IF Word = Header THEN rd' = TakeHeader(rd) /\ UNCHANGED <<api, served>>
     ELSE Fall /\ UNCHANGED rd
  /\ UNCHANGED <<file, builderVars, refs, torn, noise>>

ReadNumber ==
  /\ api = "read" /\ AtNumber(rd) /\ HasWord
  /\ \E v \in ReadAs(Word) : rd' = TakeNumber(rd, v)
  /\ UNCHANGED <<file, builderVars, api, refs, served, torn, noise>>

\* The words a slice of this length needs.
HasWords(len) == rd.pos + 1 + len <= Len(file)

ReadSliceShort ==                                 \* mutant: Read for io.ReadFull
  /\ api = "read" /\ AtSlice(rd) /\ HasWord
  /\ \E len \in ReadAs(Word) :
       \/ len = Huge /\ api' = "crashed" /\ UNCHANGED <<rd, served>>
       \/ len # Huge /\ rd' = TakeSlice(rd, file \o [i \in 1..len |-> Noise], len)
          /\ UNCHANGED <<api, served>>
  /\ UNCHANGED <<file, builderVars, refs, torn, noise>>

\* readU16Slice and its like: the length, a make that panics when no allocation
\* can have that length (the goroutine has no recover), and io.ReadFull.
ReadSlice ==
  /\ api = "read" /\ AtSlice(rd) /\ HasWord
  /\ \E len \in ReadAs(Word) :
       \/ len = Huge /\ api' = "crashed" /\ UNCHANGED <<rd, served>>
       \/ len # Huge /\ HasWords(len)
          /\ rd' = TakeSlice(rd, file, len) /\ UNCHANGED <<api, served>>
       \/ len # Huge /\ ~HasWords(len) /\ Fall /\ UNCHANGED rd
  /\ UNCHANGED <<file, builderVars, refs, torn, noise>>

\* io.ReadFull at the end of the file.
ReadEnds ==
  /\ api = "read" /\ ~ReadAll(rd) /\ ~HasWord
  /\ Fall
  /\ UNCHANGED <<file, builderVars, refs, rd, torn, noise>>

\* The last slice is in: the lengths are compared, and the index is published.
FinishLoad ==
  /\ api = "read" /\ ReadAll(rd)
  /\ IF Consistent(rd) THEN Publish(Taken(rd)) ELSE Fall
  /\ UNCHANGED <<file, builderVars, refs, rd, torn, noise>>

\* The fallback: dataset.Load, or log.Fatalf.
BuildHere ==
  /\ api = "build"
  /\ \E f \in ApiFiles, nl \in NLists :
       /\ refs' = f
       /\ IF Load(f).ok THEN Publish(IndexOf(Load(f).recs, nl))
          ELSE api' = "exited" /\ UNCHANGED served
  /\ UNCHANGED <<file, builderVars, rd, torn, noise>>

Startup ==
  \/ Open \/ ReadHeader \/ ReadNumber \/ ReadSlice \/ ReadEnds
  \/ FinishLoad \/ BuildHere

\* The disk damages a word of the file between two uses.
Damage ==
  /\ noise < MaxNoise /\ file # Nil /\ built = Nil /\ api \in {"down", "start"}
  /\ \E i \in 1..Len(file) : file' = [file EXCEPT ![i] = Noise]
  /\ noise' = noise + 1
  /\ UNCHANGED <<builderVars, apiVars, torn>>

Next ==
  \/ StartBuild \/ Builder \/ AbortBuild
  \/ Start \/ Startup \/ Damage

\* The goroutine runs on; nobody has to run buildindex, or the API, again.
Spec == Init /\ [][Next]_vars /\ WF_vars(Startup) /\ WF_vars(Builder)

-----------------------------------------------------------------------------
\* Where the records of a file are.
Places(f) == {i \in DOMAIN f : f[i] \in Records}

\* What reached the disk is whole or refused: wherever the writer was cut off,
\* and however its writes fall between the reads, what LoadIndex accepts from a
\* file that is neither damaged nor created anew under it is an index that some
\* Save wrote to its end.  An index built from the references instead has all
\* the records of their file; it lacks some of the data set only when that file
\* ends between two records, where dataset.Load takes its end for the array's.
ServesWhatWasBuilt ==
  api = "ready" /\ noise = 0 /\ ~torn =>
    IF refs = Nil THEN served \in saved
    ELSE /\ refs # <<>> /\ refs[Len(refs)] \in Records \cup {"open", "close"}
         /\ \E nl \in NLists, at \in [1..served.n -> Places(refs)] :
              /\ \A k \in 2..served.n : at[k - 1] < at[k]
              /\ \A i \in Places(refs) : \E k \in 1..served.n : at[k] = i
              /\ served = IndexOf([k \in 1..served.n |-> refs[at[k]]], nl)

\* Whatever state the last save was left in, a process that is started and then
\* let be answers ready in the end; it exits only when its references cannot be
\* loaded, and panics only on a file damaged, or rewritten under it.
Settled ==
  \/ api = "ready"
  \/ (api = "exited" /\ refs # Nil /\ ~Load(refs).ok)
  \/ (api = "crashed" /\ (noise > 0 \/ torn))

ComesUp == []<>(api \in {"down", "start"}) \/ <>[]Settled

\* "Se o arquivo faltar/corromper, cai no caminho antigo (carrega .gz +
\* constroi) -- sem crash".
NoCrash == api # "crashed"
=============================================================================
