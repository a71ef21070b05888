------------------------------ MODULE RunFacts ------------------------------
(* The Outputs of one Run on their way through two languages: the Runtime    *)
(* (Python) normalizes and writes what a Workflow returns, the CLI (Rust)    *)
(* judges the report and the files and publishes them, and the published     *)
(* facts are read again by the CLI, by the Runtime of a calling Workflow and *)
(* by the Runtime of a query.  Each side has rules of its own, and one Run   *)
(* that a reader refuses makes its whole Session unreadable.                 *)
EXTENDS Integers, Sequences, SequencesExt

CONSTANTS
  Lower, Digit, \* characters of Output names, beside "_" and foreign ones
  Devices,      \* the names Windows reserves
  Returns       \* what a Workflow may return, see below

Underscore == "_"
ASSUME CharactersAssumption == Lower \cap Digit = {} /\ Underscore \notin Lower \cup Digit

(* A return value is None or a dict, by its names; it is exact when it is    *)
(* not an empty dict and every value is a Table.                             *)
ASSUME ReturnsAssumption ==
  \A r \in Returns : r.exact \in BOOLEAN /\ r.names \subseteq Seq(STRING)

VARIABLES
  returned, \* what the Workflow returned
  shown,    \* whether a reported text shows a private path of the CLI
  files,    \* the Output files in the candidate, by the name of the Output
  stray,    \* what the Workflow left there itself: "none", "early", "late"
  broken,   \* writing an Output has failed
  report,   \* the Outputs reported by the Runtime
  manifest, \* the published Outputs
  way     \* "returned", "writing", "reported", "judged", "published", "refused"
factVars == <<returned, shown, files, stray, broken, report, manifest, way>>

(* Mutation of Step: a "_" is taken anywhere but at the start.               *)
StepUngapped(state, c) ==
  {t \in {"word"} : c \in Lower \/ (state # "start" /\ c \in Digit \cup {Underscore})}
(* _IDENTIFIER of the Runtime, as the automaton of its regular expression:   *)
(* the states that a character leads to, and the texts that it matches.      *)
Step(state, c) ==
  {t \in {"word"} : c \in Lower \/ (state # "start" /\ c \in Digit)}
    \cup {t \in {"gap"} : state = "word" /\ c = Underscore}
Matches(name) ==
  \E run \in [0..Len(name) -> {"start", "word", "gap"}] :
    /\ run[0] = "start" /\ run[Len(name)] = "word"
    /\ \A i \in 1..Len(name) : run[i] \in Step(run[i - 1], name[i])
RuntimeAccepts(name) == Matches(name) /\ name \notin Devices

(* valid_output_name of the CLI: the segments between the "_".               *)
Cuts(name) == {0, Len(name) + 1} \cup {i \in DOMAIN name : name[i] = Underscore}
Segments(name) ==
  {SubSeq(name, p[1] + 1, p[2] - 1) :
    p \in {q \in Cuts(name) \X Cuts(name) :
            q[1] < q[2] /\ \A c \in Cuts(name) : c <= q[1] \/ c >= q[2]}}
HostAccepts(name) ==
  /\ name # <<>> /\ Head(name) \in Lower
  /\ \A s \in Segments(name) : s # <<>> /\ ToSet(s) \subseteq Lower \cup Digit
  /\ name \notin Devices

FactsInit ==
  /\ returned \in Returns
  /\ shown \in BOOLEAN
  /\ files = {}
  /\ stray \in {"none", "early"}
  /\ broken = FALSE
  /\ report = {}
  /\ manifest = {}
  /\ way = "returned"

Refuse == way' = "refused"

(* _normalize_outputs and the creation of the outputs directory, which must  *)
(* not be there yet.                                                         *)
Normalize ==
  /\ way = "returned"
  /\ IF /\ returned.exact /\ stray # "early"
        /\ \A name \in returned.names : RuntimeAccepts(name)
     THEN way' = "writing" ELSE Refuse
  /\ UNCHANGED <<returned, shown, files, stray, broken, report, manifest>>

(* materialize_outputs: one file after the other, each of which can fail.    *)
WriteOutput ==
  /\ way = "writing"
  /\ \E name \in returned.names \ files :
       \/ files' = files \cup {name} /\ UNCHANGED <<broken, way>>
       \/ broken' = TRUE /\ Refuse /\ UNCHANGED files
  /\ UNCHANGED <<returned, shown, stray, report, manifest>>

ReportOutputs ==
  /\ way = "writing" /\ files = returned.names
  /\ report' = files
  /\ way' = "reported"
  /\ UNCHANGED <<returned, shown, files, stray, broken, manifest>>

(* A thread of the Workflow that is still at work until the Runtime exits:   *)
(* the candidate is private, but nothing fences it.                          *)
LeaveStray ==
  /\ way \in {"writing", "reported"} /\ stray = "none"
  /\ stray' = "late"
  /\ UNCHANGED <<returned, shown, files, broken, report, manifest, way>>

(* validate_run_workflow_report.                                             *)
JudgeReport ==
  /\ way = "reported"
  /\ IF ~shown /\ \A name \in report : HostAccepts(name)
     THEN way' = "judged" ELSE Refuse
  /\ UNCHANGED <<returned, shown, files, stray, broken, report, manifest>>

(* resolve_output_paths: exactly the Outputs, as the gate of publication and *)
(* as every later reader of the Run finds them.                              *)
Complete(outputs) == files = outputs /\ stray = "none"
GateReady == Complete(report)

PublishOutputs ==
  /\ way = "judged"
  /\ IF GateReady THEN way' = "published" /\ manifest' = report
     ELSE Refuse /\ UNCHANGED manifest
  /\ UNCHANGED <<returned, shown, files, stray, broken, report>>

FactsNext ==
  Normalize \/ WriteOutput \/ ReportOutputs \/ LeaveStray \/ JudgeReport \/ PublishOutputs

FactsSpec == FactsInit /\ [][FactsNext]_factVars

(* run_manifest::resolve, for every command that reads the Session.          *)
Resolves == Complete(manifest) /\ \A name \in manifest : HostAccepts(name)
(* _decode_response of a caller and _read_query_run_request, in the Runtime. *)
RuntimeReads == \A name \in manifest : RuntimeAccepts(name)

(* Whatever is published is what the Workflow returned, and every reader in  *)
(* either language accepts it; and what the Runtime has accepted is not      *)
(* refused by the CLI afterwards, unless the Workflow touched the candidate, *)
(* writing failed or a private path would be shown.                          *)
PublishedIsReadable ==
  /\ way = "published" => manifest = returned.names /\ Resolves /\ RuntimeReads
  /\ way = "refused" /\ ~broken /\ ~shown /\ stray = "none" /\ returned.exact =>
       ~ \A name \in returned.names : RuntimeAccepts(name)
=============================================================================
