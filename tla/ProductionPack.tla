--------------------------- MODULE ProductionPack --------------------------
(* How the Runtime turns a PACK checkout into the one Workflow it inspects   *)
(* or calls.  It lists the modules under workflows/, imports each in a       *)
(* process of its own, and for a Run imports the chosen one once more, while *)
(* the author edits the modules and their guides.                            *)
EXTENDS Naturals, FiniteSets, Sequences, SequencesExt

CONSTANTS
  ModuleOrder, \* the module paths below workflows/, each a sequence of
               \* segments, in the order they are inspected
  Workflows, \* the names Workflows register under
  Interfaces, \* what inspection reads of a Workflow, but for its guide
  NameOf,    \* the name in an Interface
  Guides,    \* the guides a Workflow can refer to
  Wanted,    \* the Workflow asked for
  MaxChanges \* bound of the exploration: edits during one operation

NoGuide == "none"
Initializer == "__init__"
ASSUME PackAssumption ==
  /\ ModuleOrder \in Seq(Seq(STRING) \ {<<>>})
  /\ Interfaces \cap {"absent", "faulty"} = {} /\ NameOf \in [Interfaces -> Workflows]
  /\ Wanted \in Workflows /\ NoGuide \notin Guides

Modules == ToSet(ModuleOrder)

(* A module registers one Workflow of its own, or is no usable entry: it     *)
(* does not import, registers nothing or two, or one of another module.      *)
Versions == [interface : Interfaces, guide : Guides \cup {NoGuide}]
Absent == [interface |-> "absent", guide |-> NoGuide]
Faulty == [interface |-> "faulty", guide |-> NoGuide]
Contents == Versions \cup {Absent, Faulty}

VARIABLES
  operation, \* "inspect" or "run"
  code,      \* what each module holds now
  readable,  \* the guides that can be read now
  changes,   \* how many edits there were
  step,      \* "scan", "inspect", "guide", "call", "done", "failed"
  pending,   \* the set of modules found that are still to be inspected
  inspected, \* what was read of the others
  died,      \* an inspection worker has died
  loaded,    \* what is reported or called, once it is
  guideRead  \* the guide captured for the Run
loadVars == <<operation, code, readable, changes, step, pending, inspected, died,
              loaded, guideRead>>

LoadInit ==
  /\ operation \in {"inspect", "run"}
  /\ code \in [Modules -> Contents]
  /\ readable \in SUBSET Guides
  /\ changes = 0
  /\ step = "scan"
  /\ pending = {}
  /\ inspected = {}
  /\ died = FALSE
  /\ loaded = {}
  /\ guideRead = NoGuide

(* _workflow_entries: the modules there are, and the one of the smallest     *)
(* path among some of them.                                                  *)
Present == {m \in Modules : code[m] # Absent}
IsFirst(m, ms) ==
  \E i \in DOMAIN ModuleOrder :
    m = ModuleOrder[i] /\ m \in ms /\ \A j \in 1..i - 1 : ModuleOrder[j] \notin ms
(* No initializers, and no module may also be the package of another.        *)
Forbidden(ms) ==
  \/ \E m \in ms : Last(m) = Initializer
  \/ \E m, n \in ms : IsStrictPrefix(m, n)

Scan ==
  /\ step = "scan"
  /\ IF Forbidden(Present) THEN step' = "failed" /\ UNCHANGED pending
     ELSE step' = "inspect" /\ pending' = Present
  /\ UNCHANGED <<operation, code, readable, changes, inspected, died, loaded, guideRead>>

NamesInspected == {NameOf[e.version.interface] : e \in inspected}

Fresh(m) == code[m] \in Versions /\ NameOf[code[m].interface] \notin NamesInspected

(* _inspect_entry_isolated and the loop of ProductionPack.open: an entry is  *)
(* refused that is none or whose name is taken, and a worker may die.        *)
InspectEntry ==
  /\ step = "inspect"
  /\ \E m \in pending :
       /\ IsFirst(m, pending) /\ pending' = pending \ {m}
       /\ \/ /\ Fresh(m)
             /\ inspected' = inspected \cup {[at |-> m, version |-> code[m]]}
             /\ UNCHANGED <<step, died>>
          \/ ~Fresh(m) /\ step' = "failed" /\ UNCHANGED <<inspected, died>>
          \/ step' = "failed" /\ died' = TRUE /\ UNCHANGED inspected
  /\ UNCHANGED <<operation, code, readable, changes, loaded, guideRead>>

Inspected(w) == {e \in inspected : NameOf[e.version.interface] = w}

(* ProductionPack.inspect: the answer is what the inspection has read.       *)
Report ==
  /\ step = "inspect" /\ pending = {} /\ operation = "inspect"
  /\ IF Inspected(Wanted) = {} THEN step' = "failed" /\ UNCHANGED loaded
     ELSE step' = "done" /\ loaded' = {e.version : e \in Inspected(Wanted)}
  /\ UNCHANGED <<operation, code, readable, changes, pending, inspected, died, guideRead>>

(* Mutation of Unchanged: the guide the Workflow refers to is not compared.  *)
UnchangedInterfaceOnly(e) ==
  code[e.at] \in Versions /\ code[e.at].interface = e.version.interface
(* ProductionPack.load: the entry is imported once more, for the call, and   *)
(* must still be what was inspected.                                         *)
Unchanged(e) == code[e.at] = e.version

Load ==
  /\ step = "inspect" /\ pending = {} /\ operation = "run"
  /\ \/ /\ \A e \in Inspected(Wanted) : ~Unchanged(e)
        /\ step' = "failed" /\ UNCHANGED loaded
     \/ \E e \in Inspected(Wanted) :
          /\ Unchanged(e)
          /\ loaded' = {code[e.at]}
          /\ step' = "guide"
  /\ UNCHANGED <<operation, code, readable, changes, pending, inspected, died, guideRead>>

(* The guide belongs to this Run: it is read before the Workflow is called,  *)
(* and a guide that cannot be read keeps the Workflow from being called.     *)
ReadGuide ==
  /\ step = "guide"
  /\ \E version \in loaded :
       IF version.guide \in readable \cup {NoGuide}
       THEN step' = "call" /\ guideRead' = version.guide
       ELSE step' = "failed" /\ UNCHANGED guideRead
  /\ UNCHANGED <<operation, code, readable, changes, pending, inspected, died, loaded>>

Call ==
  /\ step = "call"
  /\ step' = "done"
  /\ UNCHANGED <<operation, code, readable, changes, pending, inspected, died, loaded,
                 guideRead>>

(* The author of the PACK.                                                   *)
Change ==
  /\ step \notin {"done", "failed"} /\ changes < MaxChanges
  /\ changes' = changes + 1
  /\ \/ \E m \in Modules, content \in Contents :
          content # code[m] /\ code' = [code EXCEPT ![m] = content] /\ UNCHANGED readable
     \/ \E g \in Guides :
          readable' = (readable \ {g}) \cup ({g} \ readable) /\ UNCHANGED code
  /\ UNCHANGED <<operation, step, pending, inspected, died, loaded, guideRead>>

LoadNext == Scan \/ InspectEntry \/ Report \/ Load \/ ReadGuide \/ Call \/ Change

LoadSpec == LoadInit /\ [][LoadNext]_loadVars

(* A checkout on which the operation must succeed.                           *)
SoundPack ==
  /\ \A m \in Present : Last(m) # Initializer /\ code[m] \in Versions
  /\ \A m, n \in Present :
       /\ m # n => NameOf[code[m].interface] # NameOf[code[n].interface]
       /\ ~IsStrictPrefix(m, n)
  /\ \E m \in Present :
       /\ NameOf[code[m].interface] = Wanted
       /\ operation = "run" => code[m].guide \in readable \cup {NoGuide}

(* A Workflow is called, or reported, only as the PACK was inspected: it is  *)
(* the one entry of that name, it was read with this interface and this      *)
(* guide, and a guide it has is in hand before it is called.  If the author  *)
(* changes nothing and no worker dies, that happens exactly when the         *)
(* checkout is sound, whatever else it holds.                                *)
OnlyTheInspectedRuns ==
  /\ step = "done" =>
       \E e \in inspected :
         /\ Inspected(Wanted) = {e} /\ loaded = {e.version}
         /\ operation = "run" => guideRead = e.version.guide
  /\ step \in {"done", "failed"} /\ changes = 0 /\ ~died =>
       (step = "done" <=> SoundPack)
=============================================================================
