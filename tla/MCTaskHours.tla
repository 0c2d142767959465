----------------------------- MODULE MCTaskHours -----------------------------
(***************************************************************************)
(* Instances for TLC of three services and their clients, which share no   *)
(* state: a behaviour moves the one it starts with.                        *)
(* The hours: two modules with a task of the same name, a structure that   *)
(* repeats a name, and one call of each kind.                              *)
(* The stages: a source with a figure in its text, one with hours in its   *)
(* metadata and no key line, one that records no hours, and an id nobody   *)
(* stored.                                                                 *)
(* The conversation of the Streamlit page: one transcript, with a file or  *)
(* without, similar enough for the semantic cache; a window of one turn.   *)
(***************************************************************************)
EXTENDS TaskHours, StreamlitSessions, EstimateStages, TLC

CONSTANTS doc1, doc2, doc3, nowhere

VARIABLE service

K(m, t) == [module |-> m, task |-> t]
MCKeys == {K("a", "x"), K("b", "x")}

MCSubmissions ==
  {<<>>, <<K("a", "x"), K("b", "x")>>, <<K("a", "x"), K("a", "x")>>}

C(tool, args, key, grade) == [tool |-> tool, args |-> args, key |-> key, grade |-> grade]

MCCalls ==
  {C("derive_task_hours", "valid", K("a", "x"), g) : g \in Grades}
    \cup {C("derive_task_hours", "valid", K("b", "x"), "fair"),
          C("derive_task_hours", "invalid", K("a", "x"), "fair"),
          C("search_budgets", "valid", K("a", "x"), "none"),
          C("search_budgets", "not_object", K("a", "x"), "none"),
          C("unknown", "not_json", K("a", "x"), "none")}

-----------------------------------------------------------------------------

L(hours, key) == [hours |-> hours, key |-> key]

MCCorpus ==
  (doc1 :> [id |-> doc1, estimated_hours |-> Absent, content |-> <<L(Absent, FALSE), L(16, TRUE), L(Absent, TRUE)>>])
    @@ (doc2 :> [id |-> doc2, estimated_hours |-> 8, content |-> <<L(Absent, FALSE), L(Absent, FALSE)>>])
    @@ (doc3 :> [id |-> doc3, estimated_hours |-> Absent, content |-> <<L(Absent, TRUE)>>])

T(name, sources, days) == [name |-> name, sources |-> sources, engineer_days |-> days]
E(lines, sources, confidence) ==
  [lines |-> lines, sources |-> sources, totals |-> lines # <<>>, explained |-> lines = <<>>,
   confidence |-> confidence]

\* Within what is recorded, at the tolerance and above it; over one source, two
\* and the same one twice; two lines of one name; invented and absent numbers.
MCWritten ==
  {E(<<T(K("a", "x"), <<doc1>>, 2), T(K("a", "x"), <<>>, Absent)>>, {doc1}, "high"),
   E(<<T(K("a", "x"), <<doc1>>, 3), T(K("b", "x"), <<doc2, doc2>>, 2)>>, {}, "high"),
   E(<<T(K("a", "x"), <<doc1, doc2>>, 4)>>, {}, "high"),
   E(<<T(K("a", "x"), <<doc1, doc2, doc3>>, 3), T(K("a", "x"), <<doc3>>, 9)>>, {}, "medium"),
   E(<<T(K("a", "x"), <<nowhere>>, 1), T(K("b", "x"), <<doc2>>, Absent)>>, {nowhere}, "low"),
   E(<<T(K("a", "x"), <<doc2>>, 1)>>, {}, "insufficient"),
   E(<<>>, {}, "insufficient")}

MCChunkIds == {doc1, doc2, doc3, nowhere}
MCRankings == {<<>>, <<doc1, doc2, doc3>>, <<doc3, doc2, doc1>>}
MCTrees == {[lines |-> <<>>, confidence |-> "high"], [lines |-> <<K("a", "x")>>, confidence |-> "low"]}

ASSUME StagesConstantsOK

-----------------------------------------------------------------------------

MCSimilar(d, e) == TRUE

ASSUME StreamlitConstantsOK

-----------------------------------------------------------------------------

ServiceInit ==
  Init /\ StagesInit /\ TalkInit /\ service \in {"hours", "stages", "sessions"}

ServiceNext ==
  /\ UNCHANGED service
  /\ \/ service = "hours" /\ Next /\ UNCHANGED <<stageVars, talkVars>>
     \/ service = "stages" /\ StagesNext /\ UNCHANGED <<vars, talkVars>>
     \/ service = "sessions" /\ TalkNext /\ UNCHANGED <<vars, stageVars>>

ServiceSpec == ServiceInit /\ [][ServiceNext]_<<vars, stageVars, talkVars, service>>
==============================================================================
