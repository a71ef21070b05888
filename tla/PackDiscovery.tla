--------------------------- MODULE PackDiscovery ---------------------------
(* Which checkout a PACK name stands for: the CLI scans two search roots,    *)
(* takes the directories named on the command line and the installed SDK,    *)
(* and reads one manifest per canonical directory, one after another, while  *)
(* an author edits, adds and removes checkouts.  The PACK under `kat test`   *)
(* is pinned: its name stands for that one directory and is read again.      *)
EXTENDS Naturals, FiniteSets, Sequences, SequencesExt

CONSTANTS
  Directories, \* canonical directories
  PackNames,   \* the PACK names a sound manifest can declare
  Asked,       \* the PACK name to resolve
  Layouts,     \* how the places of discovery lead to the directories
  MaxEdits     \* bound of the exploration: edits while one name is resolved

(* What a directory holds: nothing (no such directory), no pack.toml, one    *)
(* that cannot be read or does not pass validation, or a sound one, which    *)
(* declares a name.                                                          *)
Flaws == {"gone", "empty", "bad"}
Nowhere == "nowhere"
SdkFails == "fails"

ASSUME AskedAssumption == Asked \in PackNames
ASSUME NamesAssumption ==
  PackNames \cap Flaws = {} /\ Directories \cap {Nowhere, SdkFails} = {}

(* A search root lists its entries in the order of their names; an entry     *)
(* that is a symbolic link stands for its target.  The additional paths and  *)
(* the SDK lead to their canonical directory, aliases included.              *)
Entries == [at : Directories, link : BOOLEAN]
SearchRoots == [readable : BOOLEAN, entries : Seq(Entries)]
ASSUME LayoutsAssumption ==
  \A l \in Layouts :
    /\ l.skill \in SearchRoots /\ l.home \in SearchRoots
    /\ l.additional \in Seq(Directories)
    /\ l.sdk \in Directories \cup {Nowhere, SdkFails}

VARIABLES
  layout,   \* where discovery looks
  pinned,   \* the directory of the PACK under test, or Nowhere
  holds,    \* what each directory holds now
  said,     \* what each directory has held since the resolution began
  edits,    \* how often the author has changed something
  phase,    \* "start", "search", "end"
  todo,     \* the steps of the search that are left
  seen,     \* the canonical directories taken
  packs,    \* the PACKs found
  answer    \* the directory the name stands for, or Nowhere
packVars == <<layout, pinned, holds, said, edits, phase, todo, seen, packs, answer>>

List(root) == [do |-> "list", root |-> root]
Probe(e, listed) == [do |-> "probe", entry |-> e, listed |-> listed]
Take(d) == [do |-> "take", at |-> d]

(* The pinned PACK was read as Asked when the test run began.                *)
PackInit ==
  /\ layout \in Layouts
  /\ holds \in [Directories -> PackNames \cup Flaws]
  /\ pinned \in {Nowhere} \cup {d \in Directories : holds[d] = Asked}
  /\ said = [d \in Directories |-> {holds[d]}]
  /\ edits = 0
  /\ phase = "start"
  /\ todo = <<>>
  /\ seen = {}
  /\ packs = {}
  /\ answer = Nowhere

StandsFor(d) == phase' = "end" /\ answer' = d
Fail == StandsFor(Nowhere) /\ UNCHANGED <<todo, seen, packs>>

(* NestedRunCoordinator::resolve_pack: a pinned name is read at its one      *)
(* directory.  Any other name is discovered, and the SDK is located first:   *)
(* where it cannot be, nothing is discovered.                                *)
Start ==
  /\ phase = "start"
  /\ \/ pinned = Nowhere /\ layout.sdk = SdkFails /\ Fail
     \/ /\ pinned = Nowhere => layout.sdk # SdkFails
        /\ phase' = "search"
        /\ todo' =
             IF pinned # Nowhere THEN <<Take(pinned)>>
             ELSE <<List(layout.skill), List(layout.home)>>
                  \o [i \in DOMAIN layout.additional |-> Take(layout.additional[i])]
                  \o IF layout.sdk = Nowhere THEN <<>> ELSE <<Take(layout.sdk)>>
        /\ UNCHANGED <<seen, packs, answer>>
  /\ UNCHANGED <<layout, pinned, holds, said, edits>>

(* read_dir collects the entries of a search root, those that are there.     *)
Collected(root) ==
  [i \in DOMAIN root.entries |-> Probe(root.entries[i], holds[root.entries[i].at] # "gone")]

ListRoot ==
  /\ phase = "search" /\ todo # <<>> /\ Head(todo).do = "list"
  /\ LET root == Head(todo).root IN
     \/ ~root.readable /\ Fail
     \/ /\ root.readable
        /\ todo' = Collected(root) \o Tail(todo)
        /\ UNCHANGED <<phase, seen, packs, answer>>
  /\ UNCHANGED <<layout, pinned, holds, said, edits>>

(* An entry that is no directory, or without a pack.toml, is no PACK; the    *)
(* manifest is only read later, by the step that takes the directory.        *)
Passes(e) == e.link \/ holds[e.at] \in {"gone", "empty"}

ProbeEntry ==
  /\ phase = "search" /\ todo # <<>> /\ Head(todo).do = "probe"
  /\ LET e == Head(todo).entry IN
     todo' = IF ~Head(todo).listed \/ Passes(e) THEN Tail(todo)
             ELSE <<Take(e.at)>> \o Tail(todo)
  /\ UNCHANGED <<layout, pinned, holds, said, edits, phase, seen, packs, answer>>

(* DiscoveryState::discover_candidate: one canonical directory counts once,  *)
(* and two directories may not declare one name.                             *)
Declared == {p.name : p \in packs}
Added(d) == packs \cup {[name |-> holds[d], at |-> d]}
(* Mutation of Refused: a duplicate name is silently accepted.               *)
RefusedFlawOnly(d) == holds[d] \notin PackNames
Refused(d) == holds[d] \notin PackNames \/ holds[d] \in Declared

TakeDirectory ==
  /\ phase = "search" /\ todo # <<>> /\ Head(todo).do = "take"
  /\ LET d == Head(todo).at IN
     \/ holds[d] = "gone" /\ Fail
     \/ /\ holds[d] # "gone" /\ d \in seen
        /\ todo' = Tail(todo)
        /\ UNCHANGED <<phase, seen, packs, answer>>
     \/ /\ holds[d] # "gone" /\ d \notin seen /\ Refused(d) /\ Fail
     \/ /\ holds[d] # "gone" /\ d \notin seen /\ ~Refused(d)
        /\ seen' = seen \cup {d}
        /\ packs' = Added(d)
        /\ todo' = Tail(todo)
        /\ UNCHANGED <<phase, answer>>
  /\ UNCHANGED <<layout, pinned, holds, said, edits>>

(* The name is looked up once the search is over; a pinned directory that    *)
(* now declares another name is refused.                                     *)
LookUp ==
  /\ phase = "search" /\ todo = <<>>
  /\ \/ \E p \in packs : p.name = Asked /\ StandsFor(p.at)
     \/ Asked \notin Declared /\ StandsFor(Nowhere)
  /\ UNCHANGED <<layout, pinned, holds, said, edits, todo, seen, packs>>

(* The author of a PACK, at any moment of the search.                        *)
Edit ==
  /\ phase # "end" /\ edits < MaxEdits
  /\ \E d \in Directories, state \in PackNames \cup Flaws :
       /\ state # holds[d]
       /\ holds' = [holds EXCEPT ![d] = state]
       /\ said' = [said EXCEPT ![d] = @ \cup {state}]
  /\ edits' = edits + 1
  /\ UNCHANGED <<layout, pinned, phase, todo, seen, packs, answer>>

PackNext == Start \/ ListRoot \/ ProbeEntry \/ TakeDirectory \/ LookUp \/ Edit

PackSpec == PackInit /\ [][PackNext]_packVars

(* The directories discovery is led to: at all, and whatever the author does *)
(* meanwhile - a path that was named must hold a PACK, an entry of a search  *)
(* root is one only while it has a manifest.                                 *)
Named == ToSet(layout.additional) \cup ({layout.sdk} \cap Directories)
Listed == {e.at : e \in {f \in ToSet(layout.skill.entries \o layout.home.entries) : ~f.link}}
SurelyReached == Named \cup {d \in Listed : said[d] \cap {"gone", "empty"} = {}}
Discoverable == layout.skill.readable /\ layout.home.readable /\ layout.sdk # SdkFails
Clash(ds) == \E d, e \in ds, n \in PackNames : d # e /\ said[d] = {n} /\ said[e] = {n}

(* What a name stands for does not depend on the order of the search.  A     *)
(* directory is chosen only if it declared the name during this resolution   *)
(* and every other directory in reach was a sound PACK of its own name;      *)
(* without an edit such a directory is always chosen, however many aliases   *)
(* lead to it.  A pinned name never stands for another checkout.             *)
AnswerIsTheSet ==
  phase = "end" =>
    IF pinned = Nowhere
    THEN /\ answer # Nowhere =>
              /\ Discoverable
              /\ answer \in Named \cup Listed /\ Asked \in said[answer]
              /\ \A d \in SurelyReached : said[d] \cap PackNames # {}
              /\ ~Clash(SurelyReached)
         /\ edits = 0 /\ Discoverable /\ ~Clash(SurelyReached)
            /\ (\A d \in SurelyReached : holds[d] \in PackNames)
            /\ (\E d \in SurelyReached : holds[d] = Asked) =>
              answer # Nowhere
    ELSE /\ answer # Nowhere => answer = pinned /\ Asked \in said[pinned]
         /\ edits = 0 => answer = pinned
=============================================================================
