------------------------------- MODULE Engine -------------------------------
(***************************************************************************)
(* Builder.Build, main's tune and one query, in a row: the index a query   *)
(* searches is the one Build made of a dataset, directly or through Save   *)
(* and LoadIndex, with the knobs main sets.  The server publishes it only  *)
(* when it is complete (module Server), so nothing writes it any more.     *)
(***************************************************************************)
EXTENDS Build, Search

CONSTANTS Knobs,      \* values of the INDEX_* environment
          Queries     \* normalized vectors

ASSUME KnobsAssumption ==
  Knobs \subseteq [nprobe : Int, maxScan : Int, high : Int, below : Int, boundary : Int,
                   above : Int, margin : Int, radius : Int]

ASSUME QueriesAssumption == Queries \subseteq [Dim -> Value]

\* What bucketOf and bucketPenalty take for granted of a vector: the three flags
\* are 0 or 1, and dimensions 5 and 6, and no others, are the sentinel, together.
KeyDims(v) ==
  /\ \A d \in {9, 10, 11} : v[d] \in {0, Scale}
  /\ \A d \in Dim : v[d] = Null <=> (d \in {5, 6} /\ v[5] = Null)

\* Vectorize makes such vectors, and the references were made by its rules.
ASSUME KeyDimsAssumption ==
  /\ \A v \in Queries : KeyDims(v)
  /\ \A s \in Datasets : \A i \in 1..Len(s) :
       KeyDims(Dequantized(s[i].code)) /\ s[i].bucket = bucketOf(Dequantized(s[i].code))

vars == <<buildVars, searchVars>>

\* Save and LoadIndex: the arrays come back, the default nprobe does not.
Reloaded(x) == [x EXCEPT !.nprobe = x.nlist]

Init == BuildInit /\ SearchInit

BuildStep == BuildNext /\ UNCHANGED searchVars

\* A handler's ScoreCount on the published index.
AskBuilt(env, v) ==
  /\ phase = "built" /\ pc = "idle"
  /\ \E x \in {BuiltIndex, Reloaded(BuiltIndex)} : Ask(Tuned(x, env), v)
  /\ UNCHANGED buildVars

SearchStep == SearchNext /\ UNCHANGED buildVars

Next == BuildStep \/ (\E env \in Knobs, v \in Queries : AskBuilt(env, v)) \/ SearchStep

\* Build and ScoreCount are straight-line code on goroutines of their own: each
\* keeps running while it has a step to take.
Spec == /\ Init /\ [][Next]_vars
        /\ WF_vars(BuildStep) /\ WF_vars(SearchStep)
        /\ WF_vars(\E env \in Knobs, v \in Queries : AskBuilt(env, v))
=============================================================================
