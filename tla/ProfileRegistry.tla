--------------------------- MODULE ProfileRegistry ---------------------------
(***************************************************************************)
(* The profile registry of a Core (profile/registry.py, loader.py,        *)
(* lint.py, state_machine.py): profile files are parsed once, a chain is   *)
(* walked from the leaf to base, checked against the mechanism entries of  *)
(* base and merged, and both the parses and the merges are kept for as     *)
(* long as the registry lives.  The files may change in between.           *)
(***************************************************************************)
EXTENDS Integers, Sequences, FiniteSets, SequencesExt

CONSTANTS
    ProfileNames,  \* names a profile may be asked for; "base" is one
    Drafted,       \* per name, the contents its file may be given
    MaxEdits       \* bound on the edits of the files

NoFile == [shaped |-> FALSE]
NoProfile == "none"

ASSUME ProfileAssumption ==
    /\ "base" \in ProfileNames /\ NoProfile \notin ProfileNames
    /\ IsFiniteSet(ProfileNames)
    /\ DOMAIN Drafted = ProfileNames /\ MaxEdits \in Nat
    /\ \A n \in ProfileNames : NoFile \notin Drafted[n]
    /\ \A n \in ProfileNames : \A file \in Drafted[n] :
          file.shaped => file.inherits \in ProfileNames \union {NoProfile}

VARIABLES
    disk,      \* the profile files
    raw,       \* _raw: the parses kept, NoFile when there is none
    resolved,  \* _resolved: the merges kept
    refusal,   \* why the last load raised, or "none"
    edits      \* edits so far

profileVars == <<disk, raw, resolved, refusal, edits>>

Unresolved == [profile |-> NoProfile]

ProfileInit ==
    /\ disk \in [ProfileNames -> {NoFile}]
    /\ raw = [n \in ProfileNames |-> NoFile]
    /\ resolved = [n \in ProfileNames |-> Unresolved]
    /\ refusal = "none" /\ edits = 0

-----------------------------------------------------------------------------
(* One file.  An entry of a section is [id, mechanism, roles]: the roles   *)
(* are those a gate's rule asks a verdict of, or those a state plays.      *)

Ids(section) == [i \in DOMAIN section |-> section[i].id]
Distinct(ids) == \A i, j \in DOMAIN ids : ids[i] = ids[j] => i = j

(* No section parser takes an object without its name or id; a bare        *)
(* string, which a state and an evidence class may be, is taken as it is.  *)
EntriesNamed(file) ==
    /\ \A s \in {"probes", "gates", "rules", "caps", "templates"} :
          \A i \in DOMAIN file[s] : file[s][i].id # ""
    /\ \A i \in DOMAIN file.states : file.states[i].id = "" => file.states[i].roles = {}
    /\ \A i \in DOMAIN file.scopes : file.scopes[i] # ""

(* Three of them look for duplicates.                                      *)
NothingTwice(file) ==
    Distinct(file.scopes) /\ Distinct(Ids(file.caps)) /\ Distinct(Ids(file.templates))

(* load_profile_file: JSON of the right shape with a name; base disables   *)
(* nothing.                                                                *)
WellFormed(file, isBase) ==
    /\ file.shaped /\ file.profile # "" /\ EntriesNamed(file) /\ NothingTwice(file)
    /\ isBase => file.disable = {}

(* lint_base_profile: only mechanism entries and nothing of a domain.      *)
BaseLintClean(file) ==
    /\ \A i \in DOMAIN file.probes : file.probes[i].mechanism
    /\ \A i \in DOMAIN file.gates : file.gates[i].mechanism
    /\ \A s \in {"states", "rules", "classes", "scopes", "caps", "templates"} : file[s] = <<>>

(* _load_raw: a kept parse is served as it is; a file is refused when it   *)
(* is missing, malformed, or names another profile than its own.           *)
Loads(n) ==
    \/ raw[n] # NoFile
    \/ disk[n] # NoFile /\ WellFormed(disk[n], n = "base") /\ disk[n].profile = n

Parsed(n) == IF raw[n] # NoFile THEN raw[n] ELSE disk[n]

(* _collect_chain: the names from a leaf up, until a file that does not    *)
(* load, a profile that inherits nothing, or a name seen before.           *)
Cyclic(path) == ~IsInjective(path)
Ends(path) == Cyclic(path) \/ ~Loads(Last(path)) \/ Parsed(Last(path)).inherits = NoProfile
Climbed(path) == IF Ends(path) THEN path ELSE Append(path, Parsed(Last(path)).inherits)

\* There are no more steps up than names without coming back to one.
Path(n) ==
    LET path[k \in 0..Cardinality(ProfileNames)] == IF k = 0 THEN <<n>> ELSE Climbed(path[k - 1])
    IN  path[Cardinality(ProfileNames)]
Bottom(path) == IF "base" \in ToSet(path) THEN path ELSE Append(path, "base")

(* The files a load opens: base comes last, and only if the others loaded. *)
Reached(path) ==
    IF Cyclic(path) \/ \E m \in ToSet(path) : ~Loads(m) THEN path ELSE Bottom(path)

(* Base first, leaf last.                                                  *)
Chain(n) == LET names == Reverse(Bottom(Path(n)))
            IN  [i \in DOMAIN names |-> Parsed(names[i])]

-----------------------------------------------------------------------------
(* _merge.                                                                 *)

(* A section of a chain: what stands where, by file and then by entry.     *)
PlacesOf(chain, s) == UNION {{<<i, k>> : k \in DOMAIN chain[i][s]} : i \in DOMAIN chain}
Declared(chain, s, at) == chain[at[1]][s][at[2]]
Follows(at, place) == at[1] > place[1] \/ (at[1] = place[1] /\ at[2] > place[2])

(* The latest declaration of an id stands.                                 *)
Stands(chain, s, place) ==
    \A at \in PlacesOf(chain, s) :
       Follows(at, place) => Declared(chain, s, at).id # Declared(chain, s, place).id
Latest(chain, s) ==
    {Declared(chain, s, place) : place \in {place \in PlacesOf(chain, s) : Stands(chain, s, place)}}

(* A list that is taken whole from the lowest profile that gives one.      *)
Replaced(chain, s) ==
    LET given == SelectSeq([i \in DOMAIN chain |-> chain[i][s]], LAMBDA l : l # <<>>)
    IN  IF given = <<>> THEN <<>> ELSE given[Len(given)]

OfBase(chain) == CHOOSE p \in ToSet(chain) : p.profile = "base"
Children(chain) == {p \in ToSet(chain) : p.profile # "base"}
Mechanism(section) == {section[i].id : i \in {i \in DOMAIN section : section[i].mechanism}}
MechProbes(chain) == Mechanism(OfBase(chain).probes)
MechGates(chain) == Mechanism(OfBase(chain).gates)

(* Slip: the lock looks at redeclarations only.                            *)
BreaksLockByRedeclaring(p, chain) ==
    \/ \E i \in DOMAIN p.probes : p.probes[i].id \in MechProbes(chain) \/ p.probes[i].mechanism
    \/ \E i \in DOMAIN p.gates : p.gates[i].id \in MechGates(chain) \/ p.gates[i].mechanism

(* Lock A: a profile below base neither redeclares nor disables what base  *)
(* locked, and declares no mechanism of its own.                           *)
BreaksLock(p, chain) ==
    \/ \E i \in DOMAIN p.probes : p.probes[i].id \in MechProbes(chain) \/ p.probes[i].mechanism
    \/ \E i \in DOMAIN p.gates : p.gates[i].id \in MechGates(chain) \/ p.gates[i].mechanism
    \/ p.disable \intersect (MechProbes(chain) \union MechGates(chain)) # {}

(* What any profile of the chain disables goes, whoever declared it.       *)
Disabled(chain) == UNION {p.disable : p \in Children(chain)}
Enabled(chain, s) == {e \in Latest(chain, s) : e.id \notin Disabled(chain)}

RolesOf(entries) == UNION {e.roles : e \in entries}

BoundRoles(chain) == RolesOf(Latest(chain, "states"))
ReferencedRoles(chain) == RolesOf(ToSet(OfBase(chain).gates))

Merged(chain) ==
    [profile |-> chain[Len(chain)].profile,
     probes |-> Enabled(chain, "probes"), gates |-> Enabled(chain, "gates"),
     states |-> Latest(chain, "states"), rules |-> Latest(chain, "rules"),
     caps |-> Latest(chain, "caps"), templates |-> Latest(chain, "templates"),
     classes |-> Replaced(chain, "classes"), scopes |-> Replaced(chain, "scopes"),
     mechanism |-> MechProbes(chain) \union MechGates(chain)]

(* Why a load raises.                                                      *)
Refused(n) ==
    LET path == Path(n) IN
    IF Cyclic(path) THEN "cycle"
    ELSE IF \E m \in ToSet(Bottom(path)) : ~Loads(m) THEN "load"
    ELSE LET chain == Chain(n) IN
         IF \E p \in Children(chain) : BreaksLock(p, chain) THEN "lock"
         ELSE IF ~(ReferencedRoles(chain) \subseteq BoundRoles(chain)) THEN "orphan"
         ELSE "none"

(* state_bindings_for: a node in a state has the roles of that state.      *)
Bindings(merged, state) == RolesOf({s \in merged.states : s.id = state})

-----------------------------------------------------------------------------
(* load_chain.  A kept merge is served as it is; what was parsed on the    *)
(* way is kept even when the chain is then refused.                        *)
LoadChain(n) ==
    /\ resolved[n] = Unresolved
    /\ refusal' = Refused(n)
    /\ raw' = [m \in ProfileNames |->
                 IF Loads(m) /\ m \in ToSet(Reached(Path(n))) THEN Parsed(m) ELSE raw[m]]
    /\ resolved' = IF refusal' = "none" THEN [resolved EXCEPT ![n] = Merged(Chain(n))]
                   ELSE resolved
    /\ UNCHANGED <<disk, edits>>

(* A user edits a profile file, or deletes it.                             *)
EditProfile(n) ==
    /\ edits < MaxEdits
    /\ \E file \in Drafted[n] \union {NoFile} :
          file # disk[n] /\ disk' = [disk EXCEPT ![n] = file]
    /\ edits' = edits + 1
    /\ UNCHANGED <<raw, resolved, refusal>>

(* Another Core starts with a registry of its own.                         *)
FreshRegistry ==
    /\ raw # [n \in ProfileNames |-> NoFile]
    /\ raw' = [n \in ProfileNames |-> NoFile]
    /\ resolved' = [n \in ProfileNames |-> Unresolved]
    /\ refusal' = "none"
    /\ UNCHANGED <<disk, edits>>

ProfileNext ==
    \/ \E n \in ProfileNames : LoadChain(n) \/ EditProfile(n)
    \/ FreshRegistry

ProfileSpec == ProfileInit /\ [][ProfileNext]_profileVars

-----------------------------------------------------------------------------
(* A served profile carries the probes and gates of the one base the       *)
(* registry parsed, as base declared them.                                 *)
BaselineHeld ==
    \A n \in ProfileNames :
       resolved[n] # Unresolved /\ BaseLintClean(raw["base"]) =>
          /\ Latest(<<raw["base"]>>, "probes") \subseteq resolved[n].probes
          /\ Latest(<<raw["base"]>>, "gates") \subseteq resolved[n].gates

(* Each role that a rule of base asks a verdict of is played by some state *)
(* a node can be in.                                                       *)
RolesAreBound ==
    \A n \in ProfileNames :
       resolved[n] # Unresolved =>
          \A role \in RolesOf(ToSet(raw["base"].gates)) :
             \E s \in resolved[n].states : role \in Bindings(resolved[n], s.id)

(* Whatever the files of a chain say, and however they were edited between *)
(* the loads, a lower profile neither weakens the baseline nor takes a     *)
(* role away by declaring a state again (registry.py:185-216, 275-285).    *)
ServedIsWhole == BaselineHeld /\ RolesAreBound
=============================================================================
