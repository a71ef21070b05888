----------------------------- MODULE MCCommands -----------------------------
(* Small instances of a command and of three parts of it, each of which      *)
(* keeps no state beyond the command: which PACK a name stands for           *)
(* (PackDiscovery), which Workflow of it is called (ProductionPack), and     *)
(* what becomes of the Outputs (RunFacts).  A behaviour is about one of      *)
(* them, the others rest.                                                    *)
EXTENDS RuntimeCommand, PackDiscovery, ProductionPack, RunFacts

VARIABLE subject

(* Search roots with symbolic links, aliases of one directory, a root that   *)
(* cannot be read and an SDK that cannot be located.                         *)
Real(d) == [at |-> d, link |-> FALSE]
Link(d) == [at |-> d, link |-> TRUE]
Readable(entries) == [readable |-> TRUE, entries |-> entries]
Layout(skill, home, additional, sdk) ==
  [skill |-> skill, home |-> home, additional |-> additional, sdk |-> sdk]
MCLayouts ==
  {Layout(Readable(<<Real("d1")>>), Readable(<<Link("d3"), Real("d2")>>), <<"d1">>, Nowhere),
   Layout(Readable(<<Real("d1"), Real("d2")>>), Readable(<<>>), <<>>, "d3"),
   Layout(Readable(<<>>), Readable(<<Real("d2")>>), <<"d2", "d3">>, "d3"),
   Layout(Readable(<<Real("d1")>>), [readable |-> FALSE, entries |-> <<>>], <<>>, Nowhere),
   Layout(Readable(<<Real("d1")>>), Readable(<<>>), <<>>, SdkFails)}

MCModuleOrder == <<<<"__init__">>, <<"a">>, <<"a", "b">>, <<"c">>>>
MCNameOf == [i \in Interfaces |-> IF i = "other" THEN "other" ELSE "wanted"]

(* Every text of up to four characters as the name of an Output, and pairs   *)
(* of texts of up to two.                                                    *)
Texts(n) == UNION {[1..i -> {"a", "z", "1", "_", "-"}] : i \in 0..n}
MCDevices == {<<"a", "z">>, <<"z", "a", "1">>}
MCReturns ==
  [names : {{}} \cup {{t} : t \in Texts(4)} \cup {{t, u} : t, u \in Texts(2)}, exact : BOOLEAN]

(* The states in which a module rests that a behaviour is not about.         *)
CommandRests == kind = "query" /\ archive = FALSE /\ Init
PackRests ==
  /\ layout = Layout(Readable(<<>>), Readable(<<>>), <<>>, Nowhere)
  /\ holds = [d \in Directories |-> "gone"] /\ pinned = Nowhere
  /\ said = [d \in Directories |-> {"gone"}] /\ edits = 0 /\ phase = "start"
  /\ todo = <<>> /\ seen = {} /\ packs = {} /\ answer = Nowhere
LoadRests ==
  /\ operation = "inspect" /\ code = [m \in Modules |-> Absent] /\ readable = {} /\ LoadInit
FactsRest ==
  /\ returned = [names |-> {}, exact |-> TRUE] /\ shown = FALSE /\ stray = "none"
  /\ files = {} /\ broken = FALSE /\ report = {} /\ manifest = {} /\ way = "returned"

MCInit ==
  \/ subject = "command" /\ Init /\ PackRests /\ LoadRests /\ FactsRest
  \/ subject = "discovery" /\ CommandRests /\ PackInit /\ LoadRests /\ FactsRest
  \/ subject = "pack" /\ CommandRests /\ PackRests /\ LoadInit /\ FactsRest
  \/ subject = "facts" /\ CommandRests /\ PackRests /\ LoadRests /\ FactsInit

MCNext ==
  /\ UNCHANGED subject
  /\ \/ subject = "command" /\ Next /\ UNCHANGED <<packVars, loadVars, factVars>>
     \/ subject = "discovery" /\ PackNext /\ UNCHANGED <<vars, loadVars, factVars>>
     \/ subject = "pack" /\ LoadNext /\ UNCHANGED <<vars, packVars, factVars>>
     \/ subject = "facts" /\ FactsNext /\ UNCHANGED <<vars, packVars, loadVars>>

MCSpec == MCInit /\ [][MCNext]_<<subject, vars, packVars, loadVars, factVars>>
=============================================================================
