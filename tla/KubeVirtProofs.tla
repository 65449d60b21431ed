--------------------------- MODULE KubeVirtProofs ---------------------------
(***************************************************************************)
(* What the calls that create an import keep for every plan, inventory and *)
(* map, any number of migrations whose names for an import may be equal,   *)
(* and any faults between the calls: the import a VM waits for is this     *)
(* migration's, owns its secret, reads from where the secret leads, and    *)
(* maps what the plan says.                                                *)
(***************************************************************************)
EXTENDS KubeVirt, FiniteSetTheorems, WellFoundedInduction, TLAPS

(***************************************************************************)
(* Types.  What the calls share are records whose fields are looked at     *)
(* one by one; a mapping is a value.                                       *)
(***************************************************************************)
Status == [phase : {"CreateImport", "ImportCreated", "Completed"}, error : BOOLEAN,
           id : VMIds \cup {None}]

ImportStates == {"absent", "running", "succeeded", "failed"}

IsImport(r) ==
  /\ r = [state |-> r.state, dying |-> r.dying, migration |-> r.migration, mapping |-> r.mapping]
  /\ r.state \in ImportStates

IsSecret(r) ==
  /\ r = [here |-> r.here, owner |-> r.owner, from |-> r.from]
  /\ r.here \in BOOLEAN /\ r.owner \in {"none", "live", "gone"}

Calls == {"BuildSecret", "CreateSecret", "DeleteSecret", "BuildImport", "CreateImport",
          "DeleteImport", "GetImport", "UpdateSecret"}

ListedTyped == listed = <<>> \/ listed[1] \in [Names -> ImportStates]

TypeInv ==
  /\ ListedTyped
  /\ inv \in [found : BOOLEAN, consistent : BOOLEAN]
  /\ active \in DOMAIN Suffix
  /\ vms \in [DOMAIN Plan -> Status] /\ w \in [DOMAIN Plan -> Status]
  /\ pc \in {"Idle", "Loop"} \cup Calls
  /\ i \in 1 .. (Len(Plan) + 1)
  /\ imports = [n \in Names |-> imports[n]] /\ \A n \in Names : IsImport(imports[n])
  /\ secrets = [n \in Names |-> secrets[n]] /\ \A n \in Names : IsSecret(secrets[n])

(***************************************************************************)
(* A status that waits, in the plan or in the pass's copy, waits for the   *)
(* import of the VM that its reference denotes.                            *)
(***************************************************************************)
Owned(n) ==
  imports[n].state # "absent" =>
    imports[n].migration = active /\ secrets[n].here /\ secrets[n].owner = "live"

Waits(k, s) ==
  s.phase = "ImportCreated" => Denoted(k) = Result("found", s.id) /\ Owned(Name(s.id))

WaitInv ==
  /\ \A k \in DOMAIN Plan : Waits(k, vms[k])
  /\ pc # "Idle" => \A k \in DOMAIN Plan : Waits(k, w[k])

(* The pass has not touched the statuses it has yet to come to, and is     *)
(* among the calls for a VM only when that one's import is to be created.  *)
PassInv ==
  /\ pc # "Idle" =>
       \A k \in DOMAIN Plan : k > i \/ (k = i /\ pc = "Loop") => w[k] = vms[k]
  /\ pc \in Calls =>
       /\ i \in DOMAIN Plan
       /\ w[i].phase = "CreateImport" /\ vms[i].phase = "CreateImport"
       /\ Denoted(i) = Result("found", w[i].id)

(***************************************************************************)
(* The calls for one VM: what the pass holds, and what the calls before    *)
(* have left on the destination.                                           *)
(***************************************************************************)
Here == Name(At.id)

SecretMade == {"BuildImport", "CreateImport", "DeleteImport", "GetImport", "UpdateSecret"}
ImportMade == {"GetImport", "UpdateSecret"}

CallInv ==
  /\ pc \in SecretMade => secrets[Here].here /\ secrets[Here].owner = "none"
  /\ pc \in {"CreateImport", "DeleteImport"} => IsImport(object) /\ object.migration = active
  /\ pc \in ImportMade /\ imports[Here].state # "absent" => imports[Here].migration = active
  /\ pc = "UpdateSecret" =>
       /\ object.owner \in {"live", "gone"}
       /\ imports[Here].state # "absent" => object.owner = "live"

(* While no VM has moved.                                                  *)
Reads(mapping) ==
  \A x \in mapping.items :
    x.at = Place(hosts, VMOf(At.id)) /\ CanTranslate(hosts, VMOf(At.id))

PlaceInv ==
  ~moved =>
    /\ pc \in {"CreateSecret", "DeleteSecret"} => object = Secret(hosts, VMOf(At.id))
    /\ pc \in SecretMade => secrets[Here].from = Secret(hosts, VMOf(At.id))
    /\ pc \in {"CreateImport", "DeleteImport"} => Reads(object.mapping)
    /\ pc \in ImportMade /\ imports[Here].state # "absent" => Reads(imports[Here].mapping)

(***************************************************************************)
(* What is mapped.                                                         *)
(***************************************************************************)
Maps(mapping, id) ==
  mapping.is = "item" => {<<x.id, x.target>> : x \in mapping.items} = Planned(id)

MapInv ==
  /\ \A n \in Names : imports[n].state # "absent" => Maps(imports[n].mapping, n[1])
  /\ pc \in {"CreateImport", "DeleteImport"} => Maps(object.mapping, At.id)

(***************************************************************************)
(* What the finder answers.                                                *)
(***************************************************************************)
Kinds == {"VM", "Host", "Network", "Datastore"}

LEMMA ListedAreRows ==
  ASSUME NEW kind \in Kinds, NEW s, NEW name
  PROVE  List(kind, s, name) \subseteq s.rows /\ (Prepare(s) # 200 => List(kind, s, name) = {})
<1>1. Named(s.rows, name) \subseteq s.rows
  BY DEF Named
<1>2. Listed(kind, s.rows, name) \subseteq s.rows
  BY <1>1 DEF Kinds, Listed, ListVMs, FilterVMs, ListHosts, FilterHosts, ListNetworks,
              FilterNetworks, ListDatastores, FilterDatastores
<1> QED
  BY <1>2 DEF List, Decoded

LEMMA NamedIsRow ==
  ASSUME NEW kind \in Kinds, NEW s, NEW name, FindByName(kind, s, name).is = "found"
  PROVE  /\ Prepare(s) = 200
         /\ \E r \in List(kind, s, name) : FindByName(kind, s, name) = Result("found", r.id)
         /\ ~(Cardinality(List(kind, s, name)) > 1)
<1> DEFINE list == List(kind, s, name)
           first == CHOOSE r \in list : TRUE
<1>1. list = {} => ~(Cardinality(list) > 1)
  BY FS_EmptySet
<1>2. FindByName(kind, s, name) = CASE list = {} -> Result("NotFound", None)
                                    [] Cardinality(list) > 1 -> Result("RefNotUnique", None)
                                    [] OTHER -> Result("found", first.id)
  BY DEF FindByName
<1>3. list # {} => first \in list
  OBVIOUS
<1>4. list # {} => Prepare(s) = 200
  BY ListedAreRows
<1>5. Result("NotFound", None).is # "found" /\ Result("RefNotUnique", None).is # "found"
  BY DEF Result
<1> HIDE DEF list, first
<1>6. list # {} /\ ~(Cardinality(list) > 1) /\ FindByName(kind, s, name) = Result("found", first.id)
  BY <1>1, <1>2, <1>5
<1> QED
  BY <1>3, <1>4, <1>6 DEF list

LEMMA FoundIsRow ==
  ASSUME NEW kind \in Kinds, NEW s, NEW ref, ByRef(kind, s, ref).is = "found"
  PROVE  /\ Prepare(s) = 200
         /\ \E r \in s.rows : ByRef(kind, s, ref) = Result("found", r.id)
<1>1. CASE ref.id # None
  <2>1. ByRef(kind, s, ref) = Get(s, ref.id)
    BY <1>1 DEF ByRef
  <2>2. GetStatus(s, ref.id) = 200
    BY <2>1 DEF Get, Result
  <2>3. Get(s, ref.id) = Result("found", ref.id)
    BY <2>2 DEF Get
  <2> QED
    BY <2>1, <2>2, <2>3 DEF GetStatus
<1>2. CASE ref.id = None
  <2>1. ByRef(kind, s, ref) = FindByName(kind, s, ref.name)
    BY <1>2 DEF ByRef
  <2> QED
    BY <2>1, NamedIsRow, ListedAreRows
<1> QED
  BY <1>1, <1>2

(* Only an inventory that is there and consistent finds a VM, and what it  *)
(* finds is what the reference denotes.                                    *)
LEMMA FindDenotes ==
  ASSUME inv \in [found : BOOLEAN, consistent : BOOLEAN],
         NEW k \in DOMAIN Plan, Find("VM", Plan[k]).is = "found"
  PROVE  Find("VM", Plan[k]) = Denoted(k)
<1>1. Prepare(Served("VM")) = 200
  BY FoundIsRow DEF Find, Kinds
<1>2. inv.found = TRUE /\ inv.consistent = TRUE
  BY <1>1 DEF Prepare, Served
<1> QED
  BY <1>2 DEF Find, Denoted, Served

LEMMA DenotedIsRow ==
  ASSUME NEW k \in DOMAIN Plan, Denoted(k).is = "found"
  PROVE  Denoted(k).id \in VMIds /\ Denoted(k) = Result("found", Denoted(k).id)
<1> DEFINE t == [found |-> TRUE, consistent |-> TRUE, type |-> "vsphere", rows |-> Rows["VM"]]
<1>1. t.rows = Rows["VM"] /\ Denoted(k) = ByRef("VM", t, Plan[k])
  BY DEF Denoted
<1> HIDE DEF t
<1>2. PICK r \in t.rows : Denoted(k) = Result("found", r.id)
  BY <1>1, FoundIsRow DEF Kinds
<1> QED
  BY <1>1, <1>2 DEF Result, VMIds

(* Two references of a plan denote two VMs.                                *)
LEMMA DenotedApart ==
  ASSUME NEW j \in DOMAIN Plan, NEW k \in DOMAIN Plan, j # k, NEW a, NEW b,
         Denoted(j) = Result("found", a), Denoted(k) = Result("found", b)
  PROVE  a # b
BY PlanAssumption DEF Result

(***************************************************************************)
(* Records.                                                                *)
(***************************************************************************)
LEMMA NoImportIs == IsImport(NoImport) /\ NoImport.state = "absent"
BY DEF NoImport, IsImport, ImportStates

LEMMA NoSecretIs == IsSecret(NoSecret)
BY DEF NoSecret, IsSecret

LEMMA DyingFields ==
  ASSUME NEW r, IsImport(r), NEW b
  PROVE  LET d == [r EXCEPT !.dying = b]
         IN  IsImport(d) /\ d.state = r.state /\ d.migration = r.migration /\ d.mapping = r.mapping
<1> DEFINE q == [state |-> r.state, dying |-> r.dying, migration |-> r.migration,
                 mapping |-> r.mapping]
<1>1. r = q /\ r.state \in ImportStates
  BY DEF IsImport
<1>2. [q EXCEPT !.dying = b] = [state |-> r.state, dying |-> b, migration |-> r.migration,
                                mapping |-> r.mapping]
  OBVIOUS
<1>3. [r EXCEPT !.dying = b] = [state |-> r.state, dying |-> b, migration |-> r.migration,
                                mapping |-> r.mapping]
  BY <1>1, <1>2
<1> QED
  BY <1>1, <1>3 DEF IsImport

LEMMA EndedFields ==
  ASSUME NEW r, IsImport(r), NEW s \in {"succeeded", "failed"}
  PROVE  LET d == [r EXCEPT !.state = s]
         IN  IsImport(d) /\ d.state = s /\ d.migration = r.migration /\ d.mapping = r.mapping
<1> DEFINE q == [state |-> r.state, dying |-> r.dying, migration |-> r.migration,
                 mapping |-> r.mapping]
<1>1. r = q
  BY DEF IsImport
<1>2. [q EXCEPT !.state = s] = [state |-> s, dying |-> r.dying, migration |-> r.migration,
                                mapping |-> r.mapping]
  OBVIOUS
<1>3. [r EXCEPT !.state = s] = [state |-> s, dying |-> r.dying, migration |-> r.migration,
                                mapping |-> r.mapping]
  BY <1>1, <1>2
<1> QED
  BY <1>3 DEF IsImport, ImportStates

LEMMA SecretFields ==
  ASSUME NEW r, IsSecret(r), NEW o \in {"none", "live", "gone"}
  PROVE  /\ IsSecret([r EXCEPT !.owner = o]) /\ [r EXCEPT !.owner = o].owner = o
         /\ [r EXCEPT !.owner = o].here = r.here /\ [r EXCEPT !.owner = o].from = r.from
<1> DEFINE q == [here |-> r.here, owner |-> r.owner, from |-> r.from]
<1>1. r = q /\ r.here \in BOOLEAN
  BY DEF IsSecret
<1>2. [q EXCEPT !.owner = o] = [here |-> r.here, owner |-> o, from |-> r.from]
  OBVIOUS
<1>3. [r EXCEPT !.owner = o] = [here |-> r.here, owner |-> o, from |-> r.from]
  BY <1>1, <1>2
<1> QED
  BY <1>1, <1>3 DEF IsSecret

LEMMA StatusFields ==
  ASSUME NEW s \in Status
  PROVE  /\ [s EXCEPT !.phase = "ImportCreated"] \in Status
         /\ [s EXCEPT !.error = TRUE, !.phase = "Completed"] \in Status
         /\ [s EXCEPT !.phase = "Completed"] \in Status
         /\ [s EXCEPT !.phase = "CreateImport", !.error = FALSE] \in Status
         /\ [s EXCEPT !.phase = "ImportCreated"].id = s.id
         /\ [s EXCEPT !.phase = "ImportCreated"].phase = "ImportCreated"
         /\ [s EXCEPT !.error = TRUE, !.phase = "Completed"].phase = "Completed"
         /\ [s EXCEPT !.phase = "Completed"].phase = "Completed"
         /\ [s EXCEPT !.phase = "CreateImport", !.error = FALSE].phase = "CreateImport"
BY DEF Status

(***************************************************************************)
(* Whom a call cannot disturb: only the VM it is for has an import and a   *)
(* secret of that name, and that one is not waited for.                    *)
(***************************************************************************)
LEMMA HereIsName ==
  ASSUME TypeInv, PassInv, pc \in Calls
  PROVE  i \in DOMAIN Plan /\ w[i] \in Status /\ Here \in Names /\ w[i].id \in VMIds
<1>1. i \in DOMAIN Plan /\ Denoted(i) = Result("found", w[i].id)
  BY DEF PassInv
<1>2. Denoted(i).is = "found" /\ Denoted(i).id = w[i].id
  BY <1>1 DEF Result
<1>3. w[i].id \in VMIds
  BY <1>1, <1>2, DenotedIsRow
<1> QED
  BY <1>1, <1>3 DEF TypeInv, Here, Name, At, Names

LEMMA OthersWait ==
  ASSUME TypeInv, PassInv, UNCHANGED active,
         NEW k \in DOMAIN Plan, NEW s, Waits(k, s),
         pc \in Calls => k # i \/ s.phase # "ImportCreated",
         \A n \in Names : Owned(n) /\ (pc \in Calls => n # Here) => Owned(n)'
  PROVE  Waits(k, s)'
<1> SUFFICES ASSUME s.phase = "ImportCreated"
             PROVE  Denoted(k) = Result("found", s.id) /\ Owned(Name(s.id))'
  BY DEF Waits
<1>1. Denoted(k) = Result("found", s.id) /\ Owned(Name(s.id))
  BY DEF Waits
<1>2. Denoted(k).is = "found" /\ Denoted(k).id = s.id
  BY <1>1 DEF Result
<1>3. Name(s.id) \in Names /\ Name(s.id)' = Name(s.id)
  BY <1>2, DenotedIsRow DEF Name, Names, TypeInv
<1>4. pc \in Calls => Name(s.id) # Here
  <2> SUFFICES ASSUME pc \in Calls PROVE s.id # w[i].id
    BY DEF Name, Here, At
  <2> QED
    BY <1>1, DenotedApart DEF PassInv
<1> QED
  BY <1>1, <1>3, <1>4

(***************************************************************************)
(* What the destination and a deletion do to the objects of a name: an     *)
(* import ends or goes, and a secret is collected only after its owner.    *)
(***************************************************************************)
Typed ==
  /\ imports' = [n \in Names |-> imports'[n]] /\ \A n \in Names : IsImport(imports'[n])
  /\ secrets' = [n \in Names |-> secrets'[n]] /\ \A n \in Names : IsSecret(secrets'[n])

Wears(n) ==
  /\ imports'[n].state # "absent" =>
       /\ imports[n].state # "absent"
       /\ imports'[n].migration = imports[n].migration
       /\ imports'[n].mapping = imports[n].mapping
  /\ secrets[n].owner = "none" => secrets'[n] = secrets[n]
  /\ secrets[n].owner = "live" /\ imports'[n].state # "absent" => secrets'[n] = secrets[n]

(* What the pass has read of an import that goes.                          *)
Forgets ==
  pc = "UpdateSecret" /\ imports'[Here].state = "absent" /\ object' = [owner |-> "gone"]

LEMMA RemovedWears ==
  ASSUME TypeInv, NEW n \in Names, Removed(n)
  PROVE  Typed /\ \A x \in Names : Wears(x)
<1> DEFINE o == IF secrets[n].owner = "live" THEN "gone" ELSE secrets[n].owner
           s == [secrets[n] EXCEPT !.owner = o]
<1>1. IsSecret(secrets[n]) /\ o \in {"none", "live", "gone"}
  BY DEF TypeInv, IsSecret
<1>2. IsSecret(s) /\ s.owner = o /\ s.here = secrets[n].here /\ s.from = secrets[n].from
  BY <1>1, SecretFields
<1>3. secrets[n].owner = "none" => s = secrets[n]
  BY <1>1, <1>2 DEF IsSecret
<1>4. imports' = [imports EXCEPT ![n] = NoImport] /\ secrets' = [secrets EXCEPT ![n] = s]
  BY DEF Removed
<1> HIDE DEF s
<1>5. /\ imports' = [x \in Names |-> IF x = n THEN NoImport ELSE imports[x]]
      /\ secrets' = [x \in Names |-> IF x = n THEN s ELSE secrets[x]]
  BY <1>4 DEF TypeInv
<1> QED
  BY <1>2, <1>3, <1>5, NoImportIs DEF TypeInv, Typed, Wears

LEMMA DeletedWears ==
  ASSUME TypeInv, NEW n \in Names, Deleted(n)
  PROVE  Typed /\ \A x \in Names : Wears(x)
<1>1. CASE Removed(n)
  BY <1>1, RemovedWears
<1>2. CASE imports' = [imports EXCEPT ![n].dying = TRUE] /\ UNCHANGED secrets
  <2> DEFINE d == [imports[n] EXCEPT !.dying = TRUE]
  <2>1. IsImport(imports[n])
    BY DEF TypeInv
  <2>2. /\ IsImport(d) /\ d.state = imports[n].state
        /\ d.migration = imports[n].migration /\ d.mapping = imports[n].mapping
    BY <2>1, DyingFields
  <2>3. imports' = [imports EXCEPT ![n] = d]
    BY <1>2
  <2> HIDE DEF d
  <2>4. imports' = [x \in Names |-> IF x = n THEN d ELSE imports[x]]
    BY <2>3 DEF TypeInv
  <2> QED
    BY <1>2, <2>2, <2>4 DEF TypeInv, Typed, Wears
<1> QED
  BY <1>1, <1>2 DEF Deleted

LEMMA DestinationWears ==
  ASSUME TypeInv, Destination
  PROVE  /\ Typed /\ \A n \in Names : Wears(n)
         /\ object' = object \/ Forgets
<1>1. PICK n \in Names :
        \/ ImportEnds(n)
        \/ (Finalized(n) \/ Collect(n) \/ UserDeletes(n)) /\ Orphaned(n)
  BY DEF Destination
<1>2. Typed /\ \A x \in Names : Wears(x)
  <2>1. CASE ImportEnds(n)
    <3>1. PICK s \in {"succeeded", "failed"} :
            imports' = [imports EXCEPT ![n].state = s] /\ UNCHANGED secrets
      BY <2>1 DEF ImportEnds
    <3> DEFINE d == [imports[n] EXCEPT !.state = s]
    <3>2. IsImport(imports[n]) /\ imports[n].state = "running"
      BY <2>1 DEF TypeInv, ImportEnds
    <3>3. IsImport(d) /\ d.migration = imports[n].migration /\ d.mapping = imports[n].mapping
      BY <3>2, EndedFields
    <3>4. imports' = [imports EXCEPT ![n] = d]
      BY <3>1
    <3> HIDE DEF d
    <3>5. imports' = [x \in Names |-> IF x = n THEN d ELSE imports[x]]
      BY <3>4 DEF TypeInv
    <3> QED
      BY <3>1, <3>2, <3>3, <3>5 DEF TypeInv, Typed, Wears
  <2>2. CASE Finalized(n)
    BY <2>2, RemovedWears DEF Finalized
  <2>3. CASE Collect(n)
    <3>1. /\ secrets' = [x \in Names |-> IF x = n THEN NoSecret ELSE secrets[x]]
          /\ imports' = imports /\ secrets[n].owner = "gone"
      BY <2>3 DEF Collect, TypeInv
    <3> QED
      BY <3>1, NoSecretIs DEF TypeInv, Typed, Wears
  <2>4. CASE UserDeletes(n)
    BY <2>4, DeletedWears DEF UserDeletes
  <2> QED
    BY <1>1, <2>1, <2>2, <2>3, <2>4
<1>3. object' = object \/ Forgets
  BY <1>1 DEF ImportEnds, Orphaned, Forgets, Here
<1> QED
  BY <1>2, <1>3

LEMMA WornIsOwned ==
  ASSUME UNCHANGED active, NEW n, Wears(n), Owned(n)
  PROVE  Owned(n)'
BY DEF Wears, Owned

(***************************************************************************)
(* The invariant, step by step.                                            *)
(***************************************************************************)
IInv == TypeInv /\ WaitInv /\ PassInv /\ CallInv

LEMMA DestinationKeeps ==
  ASSUME IInv, Destination
  PROVE  IInv'
<1>1. TypeInv /\ WaitInv /\ PassInv /\ CallInv
  BY DEF IInv
<1>2. /\ Typed /\ \A n \in Names : Wears(n)
      /\ UNCHANGED <<inv, active, vms, pc, w, i, listed>>
      /\ object' = object \/ Forgets
  BY <1>1, DestinationWears DEF Destination, sourceVars
<1>3. TypeInv' /\ PassInv'
  BY <1>1, <1>2 DEF TypeInv, ListedTyped, PassInv, Typed
<1>4. WaitInv'
  <2>1. \A n \in Names : Owned(n) => Owned(n)'
    BY <1>2, WornIsOwned
  <2>2. \A k \in DOMAIN Plan : Waits(k, vms[k])' /\ (pc # "Idle" => Waits(k, w[k])')
    BY <1>1, <1>2, <2>1, OthersWait DEF WaitInv, PassInv
  <2> QED
    BY <1>2, <2>2 DEF WaitInv, Waits, Name, Owned
<1>5. CallInv'
  <2>1. Here' = Here
    BY <1>2 DEF Here, Name, At
  <2>2. pc \in SecretMade => Here \in Names
    BY <1>1, HereIsName DEF SecretMade, Calls
  <2>3. pc \in SecretMade => Wears(Here)
    BY <1>2, <2>2
  <2> QED
    BY <1>1, <1>2, <2>1, <2>3 DEF CallInv, Wears, Forgets, SecretMade, ImportMade
<1> QED
  BY <1>3, <1>4, <1>5 DEF IInv

LEMMA SourceKeeps ==
  ASSUME IInv, Source
  PROVE  IInv'
<1>1. UNCHANGED <<active, vms, imports, secrets, pc, w, i, object, listed>>
  BY DEF Source, MoveVM, InventoryLost, InventoryBack, ClassesLost, ClassesBack, destVars, passVars
<1>2. inv' \in [found : BOOLEAN, consistent : BOOLEAN]
  <2>1. inv \in [found : BOOLEAN, consistent : BOOLEAN]
    BY DEF IInv, TypeInv
  <2>2. CASE inv' = inv
    BY <2>1, <2>2
  <2>3. CASE InventoryBack
    <3>1. inv' = [found |-> TRUE, consistent |-> TRUE]
      BY <2>3 DEF InventoryBack
    <3> QED
      BY <3>1
  <2>4. CASE InventoryLost
    BY <2>4 DEF InventoryLost
  <2> QED
    BY <2>2, <2>3, <2>4 DEF Source, MoveVM, ClassesLost, ClassesBack
<1>3. TypeInv'
  BY <1>1, <1>2 DEF IInv, TypeInv, ListedTyped
<1>4. WaitInv' /\ PassInv' /\ CallInv'
  BY <1>1 DEF IInv, WaitInv, Waits, Owned, Name, PassInv, CallInv, Here, At
<1> QED
  BY <1>3, <1>4 DEF IInv

(* A pass that ends, or is given up, leaves what is persisted to the next. *)
LEMMA IdleKeeps ==
  ASSUME IInv, UNCHANGED <<inv, destVars>>, pc' = "Idle", w' = vms', i' = 1, listed' = <<>>,
         active' \in DOMAIN Suffix, vms' \in [DOMAIN Plan -> Status],
         \A k \in DOMAIN Plan : Waits(k, vms[k])'
  PROVE  IInv'
<1>1. Plan \in Seq([id : {r.id : r \in Rows["VM"]} \cup {None}, name : Seq(STRING)])
  BY KubeVirtAssumption
<1>2. 1 \in 1 .. (Len(Plan) + 1)
  BY <1>1
<1>3. TypeInv'
  BY <1>2 DEF IInv, TypeInv, ListedTyped, destVars
<1>4. WaitInv' /\ PassInv' /\ CallInv'
  BY DEF WaitInv, PassInv, CallInv, Calls, SecretMade, ImportMade
<1> QED
  BY <1>3, <1>4 DEF IInv

LEMMA BeginKeeps ==
  ASSUME IInv, BeginPass
  PROVE  IInv'
<1>1. UNCHANGED <<inv, active, vms, imports, secrets>> /\ pc = "Idle"
  BY DEF BeginPass, sourceVars, destVars
<1>2. \A k \in DOMAIN Plan : Waits(k, vms[k])'
  BY <1>1 DEF IInv, WaitInv, Waits, Owned, Name
<1>3. w' = vms' /\ i' = 1 /\ ((pc' = "Loop" /\ UNCHANGED listed) \/ (pc' = "Idle" /\ listed' = <<>>))
  BY <1>1 DEF BeginPass, Idle
<1>4. CASE pc' = "Idle"
  BY <1>1, <1>2, <1>3, <1>4, IdleKeeps DEF IInv, TypeInv, destVars
<1>5. CASE pc' = "Loop"
  <2>1. TypeInv'
    <3>1. Plan \in Seq([id : {r.id : r \in Rows["VM"]} \cup {None}, name : Seq(STRING)])
      BY KubeVirtAssumption
    <3>2. 1 \in 1 .. (Len(Plan) + 1)
      BY <3>1
    <3> QED
      BY <1>1, <1>3, <1>5, <3>2 DEF IInv, TypeInv, ListedTyped
  <2>2. WaitInv' /\ PassInv' /\ CallInv'
    BY <1>2, <1>3, <1>5 DEF WaitInv, PassInv, CallInv, Calls, SecretMade, ImportMade
  <2> QED
    BY <2>1, <2>2 DEF IInv
<1> QED
  BY <1>3, <1>4, <1>5

LEMMA EndKeeps ==
  ASSUME IInv, EndPass
  PROVE  IInv'
<1>1. pc = "Loop" /\ vms' = w /\ UNCHANGED <<inv, active, imports, secrets>>
  BY DEF EndPass, sourceVars, destVars
<1>2. \A k \in DOMAIN Plan : Waits(k, vms[k])'
  BY <1>1 DEF IInv, WaitInv, Waits, Owned, Name
<1> QED
  BY <1>1, <1>2, IdleKeeps DEF EndPass, Idle, IInv, TypeInv, destVars

LEMMA AbortKeeps ==
  ASSUME IInv, Abort
  PROVE  IInv'
<1>1. UNCHANGED <<inv, active, vms, imports, secrets>>
  BY DEF Abort, sourceVars, destVars
<1>2. \A k \in DOMAIN Plan : Waits(k, vms[k])'
  BY <1>1 DEF IInv, WaitInv, Waits, Owned, Name
<1> QED
  BY <1>1, <1>2, IdleKeeps DEF Abort, Idle, IInv, TypeInv, destVars

(* No status waits when the next migration begins.                         *)
LEMMA NextMigrationKeeps ==
  ASSUME IInv, NextMigration
  PROVE  IInv'
<1>1. UNCHANGED <<inv, imports, secrets>> /\ active' = active + 1 /\ active < Len(Suffix)
  BY DEF NextMigration, sourceVars, destVars
<1>2. vms \in [DOMAIN Plan -> Status] /\ active \in DOMAIN Suffix
  BY DEF IInv, TypeInv
<1>3. active' \in DOMAIN Suffix
  BY <1>1, <1>2, KubeVirtAssumption
<1>4. PICK S \in SUBSET {k \in DOMAIN vms : ~vms[k].error} :
        vms' = [k \in DOMAIN vms |-> IF k \in S THEN vms[k]
                  ELSE [vms[k] EXCEPT !.phase = "CreateImport", !.error = FALSE]]
  BY DEF NextMigration
<1>5. \A k \in DOMAIN Plan : vms'[k] \in Status /\ vms'[k].phase # "ImportCreated"
  BY <1>2, <1>4, StatusFields DEF NextMigration
<1>6. vms' \in [DOMAIN Plan -> Status]
  BY <1>2, <1>4, <1>5
<1>7. \A k \in DOMAIN Plan : Waits(k, vms[k])'
  BY <1>5 DEF Waits
<1> QED
  BY <1>1, <1>3, <1>6, <1>7, IdleKeeps DEF NextMigration, Idle, destVars

(* The pass leaves a VM for the next one.                                  *)
LEMMA LeaveKeeps ==
  ASSUME IInv, UNCHANGED <<inv, active, vms>>, pc # "Idle", NEW j \in DOMAIN Plan, j = i,
         NEW s \in Status, Leave(s), Typed, ListedTyped', Waits(j, s)',
         \A n \in Names : Owned(n) /\ (pc \in Calls => n # Here) => Owned(n)'
  PROVE  IInv'
<1>1. TypeInv /\ WaitInv /\ PassInv /\ CallInv
  BY DEF IInv
<1>2. pc' = "Loop" /\ i' = i + 1 /\ w' = [w EXCEPT ![i] = s]
  BY DEF Leave
<1>3. DOMAIN Plan = 1 .. Len(Plan) /\ Len(Plan) \in Nat
  BY KubeVirtAssumption
<1>4. TypeInv'
  <2>1. i' \in 1 .. (Len(Plan) + 1)
    BY <1>2, <1>3
  <2>2. w' \in [DOMAIN Plan -> Status]
    BY <1>1, <1>2 DEF TypeInv
  <2> QED
    BY <1>1, <1>2, <2>1, <2>2 DEF TypeInv, Typed
<1>5. WaitInv'
  <2>1. \A k \in DOMAIN Plan : Waits(k, vms[k])'
    BY <1>1, OthersWait DEF WaitInv, PassInv
  <2>2. \A k \in DOMAIN Plan \ {i}, t \in Status : t = w[k] => Waits(k, t)'
    BY <1>1, OthersWait DEF WaitInv, PassInv
  <2>3. \A k \in DOMAIN Plan : w'[k] = (IF k = i THEN s ELSE w[k]) /\ w[k] \in Status
    BY <1>1, <1>2 DEF TypeInv
  <2>4. \A k \in DOMAIN Plan, t \in Status : t = w'[k] => Waits(k, t)'
    BY <2>2, <2>3
  <2>5. \A k \in DOMAIN Plan : Waits(k, w[k])'
    BY <1>4, <2>4 DEF TypeInv
  <2> QED
    BY <2>1, <2>5 DEF WaitInv
<1>6. PassInv'
  <2>1. \A k \in DOMAIN Plan : k > i => w[k] = vms[k] /\ w'[k] = w[k]
    BY <1>1, <1>2, <1>3 DEF PassInv, TypeInv
  <2>2. \A k \in DOMAIN Plan : k >= i' => k > i
    BY <1>2, <1>3
  <2> QED
    BY <1>2, <1>3, <2>1, <2>2 DEF PassInv, Calls
<1>7. CallInv'
  BY <1>2 DEF CallInv, SecretMade, ImportMade
<1> QED
  BY <1>4, <1>5, <1>6, <1>7 DEF IInv

(* A call fails, and the VM with it.                                       *)
LEMMA FailKeeps ==
  ASSUME IInv, UNCHANGED <<inv, active, vms, imports, secrets>>, pc # "Idle", i \in DOMAIN Plan,
         FailVM
  PROVE  IInv'
<1>1. PICK j \in DOMAIN Plan : j = i
  OBVIOUS
<1>2. w[i] \in Status
  BY DEF IInv, TypeInv
<1>3. PICK s \in Status : s = Fails /\ s.phase = "Completed"
  BY <1>2, StatusFields DEF Fails, At
<1>4. Leave(s) /\ Waits(j, s)'
  BY <1>3 DEF FailVM, Waits, Leave
<1>5. ListedTyped'
  BY DEF FailVM, IInv, TypeInv, ListedTyped
<1>6. Typed /\ \A n \in Names : Owned(n) => Owned(n)'
  BY DEF IInv, TypeInv, Typed, Owned
<1> QED
  BY <1>1, <1>4, <1>5, <1>6, LeaveKeeps

(* The pass goes on to the next call for the same VM.                      *)
LEMMA StayKeeps ==
  ASSUME IInv, UNCHANGED <<inv, active, vms>>, pc \in Calls, pc' \in Calls, Stays, Typed, CallInv',
         \A n \in Names : Owned(n) /\ n # Here => Owned(n)'
  PROVE  IInv'
<1>1. TypeInv /\ WaitInv /\ PassInv /\ UNCHANGED <<w, i, listed>>
  BY DEF IInv, Stays
<1>2. TypeInv'
  BY <1>1 DEF TypeInv, ListedTyped, Typed
<1>3. \A k \in DOMAIN Plan : Waits(k, vms[k])' /\ Waits(k, w[k])'
  BY <1>1, OthersWait DEF WaitInv, PassInv, Calls
<1>4. WaitInv' /\ PassInv'
  BY <1>1, <1>3 DEF WaitInv, PassInv, Calls
<1> QED
  BY <1>2, <1>4 DEF IInv

LEMMA SameDestination ==
  ASSUME TypeInv, UNCHANGED <<active, imports, secrets>>
  PROVE  Typed /\ \A n \in Names : Owned(n) => Owned(n)'
BY DEF TypeInv, Typed, Owned

LEMMA BuildSecretKeeps ==
  ASSUME IInv, BuildSecret, UNCHANGED <<inv, active, vms>>
  PROVE  IInv'
<1>1. /\ TypeInv /\ PassInv /\ pc = "BuildSecret" /\ pc \in Calls
      /\ UNCHANGED <<imports, secrets>>
  BY DEF IInv, BuildSecret, destVars, Calls
<1>2. CASE FailVM
  BY <1>1, <1>2, FailKeeps DEF PassInv
<1>3. CASE pc' = "CreateSecret" /\ Stays
  <2>1. CallInv'
    BY <1>3 DEF CallInv, SecretMade, ImportMade
  <2> QED
    BY <1>1, <1>3, <2>1, SameDestination, StayKeeps DEF Calls
<1> QED
  BY <1>2, <1>3 DEF BuildSecret

LEMMA CreateSecretKeeps ==
  ASSUME IInv, CreateSecret, UNCHANGED <<inv, active, vms>>
  PROVE  IInv'
<1>1. TypeInv /\ PassInv /\ pc = "CreateSecret" /\ pc \in Calls /\ Here \in Names
  BY HereIsName DEF IInv, CreateSecret, Calls
<1>2. CASE pc' = "BuildImport" /\ Stays /\ UNCHANGED imports
           /\ secrets' = [secrets EXCEPT ![Here] = [here |-> TRUE, owner |-> "none", from |-> object]]
  <2> DEFINE s == [here |-> TRUE, owner |-> "none", from |-> object]
  <2>1. IsSecret(s) /\ s.here /\ s.owner = "none"
    BY DEF IsSecret
  <2> HIDE DEF s
  <2>2. secrets' = [n \in Names |-> IF n = Here THEN s ELSE secrets[n]]
    BY <1>1, <1>2 DEF TypeInv, s
  <2>3. Typed /\ \A n \in Names : Owned(n) /\ n # Here => Owned(n)'
    BY <1>1, <1>2, <2>1, <2>2 DEF TypeInv, Typed, Owned
  <2>4. CallInv'
    <3>1. Here' = Here
      BY <1>2 DEF Stays, Here, Name, At
    <3> QED
      BY <1>1, <1>2, <2>1, <2>2, <3>1 DEF CallInv, ImportMade
  <2> QED
    BY <1>1, <1>2, <2>3, <2>4, StayKeeps DEF Calls
<1>3. CASE pc' = "DeleteSecret" /\ Stays /\ UNCHANGED <<object, destVars>>
  <2>1. CallInv'
    BY <1>3 DEF CallInv, SecretMade, ImportMade
  <2> QED
    BY <1>1, <1>3, <2>1, SameDestination, StayKeeps DEF Calls, destVars
<1>4. CASE FailVM /\ UNCHANGED destVars
  BY <1>1, <1>4, FailKeeps DEF PassInv, destVars
<1> QED
  BY <1>2, <1>3, <1>4 DEF CreateSecret, Ensure, Here

LEMMA DeleteSecretKeeps ==
  ASSUME IInv, DeleteSecret, UNCHANGED <<inv, active, vms>>
  PROVE  IInv'
<1>1. /\ TypeInv /\ pc = "DeleteSecret" /\ pc \in Calls /\ Here \in Names
      /\ pc' = "CreateSecret" /\ Stays /\ UNCHANGED imports
      /\ secrets' = [secrets EXCEPT ![Here] = NoSecret]
  BY HereIsName DEF IInv, DeleteSecret, Calls, Here
<1>2. secrets' = [n \in Names |-> IF n = Here THEN NoSecret ELSE secrets[n]]
  BY <1>1 DEF TypeInv
<1>3. Typed /\ \A n \in Names : Owned(n) /\ n # Here => Owned(n)'
  BY <1>1, <1>2, NoSecretIs DEF TypeInv, Typed, Owned
<1>4. CallInv'
  BY <1>1 DEF CallInv, SecretMade, ImportMade
<1> QED
  BY <1>1, <1>3, <1>4, StayKeeps DEF Calls

LEMMA BuildImportKeeps ==
  ASSUME IInv, BuildImport, UNCHANGED <<inv, active, vms>>
  PROVE  IInv'
<1>1. /\ TypeInv /\ PassInv /\ CallInv /\ pc = "BuildImport" /\ pc \in Calls
      /\ UNCHANGED <<imports, secrets>>
  BY DEF IInv, BuildImport, destVars, Calls
<1>2. CASE FailVM
  BY <1>1, <1>2, FailKeeps DEF PassInv
<1>3. ASSUME NEW mapping, pc' = "CreateImport", Stays,
             object' = [state |-> "running", dying |-> FALSE, migration |-> active,
                        mapping |-> mapping]
      PROVE  IInv'
  <2>1. Here' = Here /\ IsImport(object') /\ object'.migration = active
    BY <1>1, <1>3 DEF Stays, Here, Name, At, IsImport, ImportStates
  <2>2. CallInv'
    BY <1>1, <1>3, <2>1 DEF CallInv, SecretMade, ImportMade
  <2> QED
    BY <1>1, <1>3, <2>2, SameDestination, StayKeeps DEF Calls
<1> QED
  BY <1>2, <1>3 DEF BuildImport

LEMMA CreateImportKeeps ==
  ASSUME IInv, CreateImport, UNCHANGED <<inv, active, vms>>
  PROVE  IInv'
<1>1. /\ TypeInv /\ PassInv /\ CallInv /\ pc = "CreateImport" /\ pc \in Calls
      /\ Here \in Names /\ IsImport(object) /\ object.migration = active
  BY HereIsName DEF IInv, CreateImport, CallInv, Calls
<1>2. CASE pc' = "GetImport" /\ Stays /\ UNCHANGED secrets
           /\ imports' = [imports EXCEPT ![Here] = object]
  <2>1. imports' = [n \in Names |-> IF n = Here THEN object ELSE imports[n]]
    BY <1>1, <1>2 DEF TypeInv
  <2>2. Typed /\ \A n \in Names : Owned(n) /\ n # Here => Owned(n)'
    BY <1>1, <1>2, <2>1 DEF TypeInv, Typed, Owned
  <2>3. Here' = Here
    BY <1>2 DEF Stays, Here, Name, At
  <2>4. CallInv'
    BY <1>1, <1>2, <2>1, <2>3 DEF CallInv, SecretMade, ImportMade
  <2> QED
    BY <1>1, <1>2, <2>2, <2>4, StayKeeps DEF Calls
<1>3. CASE pc' = "DeleteImport" /\ Stays /\ UNCHANGED <<object, destVars>>
  <2>1. Here' = Here
    BY <1>1, <1>3 DEF Stays, Here, Name, At
  <2>2. CallInv'
    BY <1>1, <1>3, <2>1 DEF CallInv, SecretMade, ImportMade, destVars
  <2> QED
    BY <1>1, <1>3, <2>2, SameDestination, StayKeeps DEF Calls, destVars
<1>4. CASE FailVM /\ UNCHANGED destVars
  BY <1>1, <1>4, FailKeeps DEF PassInv, destVars
<1> QED
  BY <1>2, <1>3, <1>4 DEF CreateImport, Ensure, Here

LEMMA DeleteImportKeeps ==
  ASSUME IInv, DeleteImport, UNCHANGED <<inv, active, vms>>
  PROVE  IInv'
<1>1. /\ TypeInv /\ CallInv /\ pc = "DeleteImport" /\ pc \in Calls /\ Here \in Names
      /\ pc' = "CreateImport" /\ Stays /\ UNCHANGED object /\ Deleted(Here)
  BY HereIsName DEF IInv, DeleteImport, Calls, Here
<1>2. Typed /\ \A n \in Names : Wears(n)
  BY <1>1, DeletedWears
<1>3. \A n \in Names : Owned(n) => Owned(n)'
  BY <1>2, WornIsOwned
<1>4. Here' = Here
  BY <1>1 DEF Stays, Here, Name, At
<1>5. CallInv'
  BY <1>1, <1>2, <1>4 DEF CallInv, SecretMade, ImportMade, Wears
<1> QED
  BY <1>1, <1>2, <1>3, <1>5, StayKeeps DEF Calls

LEMMA GetImportKeeps ==
  ASSUME IInv, GetImport, UNCHANGED <<inv, active, vms>>
  PROVE  IInv'
<1>1. /\ TypeInv /\ PassInv /\ CallInv /\ pc = "GetImport" /\ pc \in Calls
      /\ UNCHANGED <<imports, secrets>>
  BY DEF IInv, GetImport, destVars, Calls
<1>2. CASE FailVM
  BY <1>1, <1>2, FailKeeps DEF PassInv
<1>3. CASE pc' = "UpdateSecret" /\ object' = [owner |-> "live"] /\ Stays
  <2>1. Here' = Here
    BY <1>1, <1>3 DEF Stays, Here, Name, At
  <2>2. CallInv'
    BY <1>1, <1>3, <2>1 DEF CallInv, SecretMade, ImportMade
  <2> QED
    BY <1>1, <1>3, <2>2, SameDestination, StayKeeps DEF Calls
<1> QED
  BY <1>2, <1>3 DEF GetImport

(* The import that is waited for from here on owns its secret.             *)
LEMMA UpdateSecretKeeps ==
  ASSUME IInv, UpdateSecret, UNCHANGED <<inv, active, vms>>
  PROVE  IInv'
<1>1. /\ TypeInv /\ PassInv /\ CallInv /\ pc = "UpdateSecret" /\ pc \in Calls
      /\ Here \in Names /\ i \in DOMAIN Plan /\ UNCHANGED imports /\ w[i] \in Status
      /\ Denoted(i) = Result("found", w[i].id)
  BY HereIsName DEF IInv, UpdateSecret, Calls, PassInv
<1>2. CASE FailVM /\ UNCHANGED secrets
  BY <1>1, <1>2, FailKeeps
<1>3. CASE /\ secrets[Here].here
           /\ secrets' = [secrets EXCEPT ![Here].owner = object.owner]
           /\ Leave([At EXCEPT !.phase = "ImportCreated"]) /\ UNCHANGED listed
  <2> DEFINE r == secrets[Here]
             d == [r EXCEPT !.owner = object.owner]
  <2>1. IsSecret(r) /\ r.here /\ object.owner \in {"none", "live", "gone"}
    BY <1>1, <1>3 DEF TypeInv, CallInv
  <2>2. IsSecret(d) /\ d.owner = object.owner /\ d.here = r.here
    <3> HIDE DEF r
    <3> QED
      BY <2>1, SecretFields
  <2>3. secrets' = [secrets EXCEPT ![Here] = d]
    BY <1>3
  <2> HIDE DEF d
  <2>4. secrets' = [n \in Names |-> IF n = Here THEN d ELSE secrets[n]] /\ d.here
    BY <1>1, <2>1, <2>2, <2>3 DEF TypeInv
  <2>5. Typed /\ \A n \in Names : Owned(n) /\ n # Here => Owned(n)'
    BY <1>1, <2>2, <2>4 DEF TypeInv, Typed, Owned
  <2>6. PICK j \in DOMAIN Plan : j = i
    BY <1>1
  <2>7. PICK s \in Status : s = [At EXCEPT !.phase = "ImportCreated"] /\ s.id = w[i].id
    BY <1>1, StatusFields DEF At
  <2>8. Waits(j, s)'
    <3>1. Name(s.id)' = Name(s.id) /\ Name(s.id) = Here
      BY <2>7 DEF Name, Here, At
    <3>2. \A n \in Names : n = Here => Owned(n)'
      BY <1>1, <2>2, <2>4 DEF Owned, CallInv, ImportMade
    <3>3. Denoted(j) = Result("found", s.id)
      BY <1>1, <2>6, <2>7
    <3> QED
      BY <1>1, <3>1, <3>2, <3>3 DEF Waits
  <2>9. Leave(s) /\ pc # "Idle" /\ ListedTyped'
    BY <1>1, <1>3, <2>7 DEF TypeInv, ListedTyped
  <2> QED
    BY <1>1, <2>5, <2>6, <2>8, <2>9, LeaveKeeps
<1> QED
  BY <1>2, <1>3 DEF UpdateSecret, Here

(***************************************************************************)
(* The steps that begin and end a VM's turn.                               *)
(***************************************************************************)
LEMMA CallFailsKeeps ==
  ASSUME IInv, CallFails
  PROVE  IInv'
<1>1. pc \in Calls /\ FailVM /\ UNCHANGED <<inv, active, vms, imports, secrets>>
  BY DEF CallFails, sourceVars, destVars, Calls, IInv, TypeInv
<1> QED
  BY <1>1, FailKeeps DEF IInv, PassInv, Calls

(* A VM that is done, and one whose import has an answer or is waited for. *)
LEMMA TurnKeeps ==
  ASSUME IInv, SkipCompleted \/ ReadImport, UNCHANGED <<inv, active, vms>>
  PROVE  IInv'
<1>1. /\ TypeInv /\ WaitInv /\ pc = "Loop" /\ i <= Len(w)
      /\ UNCHANGED <<imports, secrets>>
  BY DEF IInv, SkipCompleted, ReadImport, Handles, destVars
<1>2. i \in DOMAIN Plan
  <2>1. DOMAIN Plan = 1 .. Len(Plan) /\ Len(Plan) \in Nat
    BY KubeVirtAssumption
  <2>2. Len(w) = Len(Plan)
    BY <1>1, <2>1 DEF TypeInv
  <2> QED
    BY <1>1, <2>1, <2>2 DEF TypeInv
<1>3. PICK j \in DOMAIN Plan : j = i
  BY <1>2
<1>4. w[i] \in Status /\ Waits(i, w[i])
  BY <1>1, <1>2 DEF TypeInv, WaitInv
<1>5. Typed /\ \A n \in Names : Owned(n) => Owned(n)'
  BY <1>1, SameDestination
<1>6. ASSUME NEW s \in Status, Leave(s), ListedTyped', s = w[i] \/ s.phase = "Completed"
      PROVE  IInv'
  <2>1. Waits(j, s) \/ s.phase = "Completed"
    BY <1>3, <1>4, <1>6
  <2>2. Waits(j, s)'
    BY <1>1, <2>1 DEF Waits, Owned, Name
  <2> QED
    BY <1>1, <1>3, <1>5, <1>6, <2>2, LeaveKeeps
<1>7. CASE SkipCompleted
  BY <1>1, <1>4, <1>6, <1>7 DEF SkipCompleted, At, TypeInv, ListedTyped
<1>8. CASE ReadImport
  <2> DEFINE name == Name(At.id)
  <2>1. name \in Names
    <3>1. Denoted(i) = Result("found", w[i].id)
      BY <1>4, <1>8 DEF ReadImport, Handles, At, Waits
    <3>2. Denoted(i).is = "found" /\ Denoted(i).id = w[i].id
      BY <3>1 DEF Result
    <3>3. w[i].id \in VMIds
      BY <1>2, <3>2, DenotedIsRow
    <3> QED
      BY <1>1, <3>3 DEF Name, At, Names, TypeInv
  <2>2. ListImports \in [Names -> ImportStates]
    BY <1>1 DEF ListImports, TypeInv, IsImport, ImportStates
  <2>3. listed' = (IF listed = <<>> THEN <<ListImports>> ELSE listed) /\ Leave(Reflected(At, listed'[1][name]))
    BY <1>8 DEF ReadImport
  <2>4. listed'[1] \in [Names -> ImportStates]
    BY <1>1, <2>2, <2>3 DEF TypeInv, ListedTyped
  <2>5. PICK state \in ImportStates : Leave(Reflected(At, state))
    BY <2>1, <2>3, <2>4
  <2>6. Reflected(At, state) \in Status
        /\ (Reflected(At, state) = w[i] \/ Reflected(At, state).phase = "Completed")
    BY <1>4, StatusFields DEF Reflected, At, ImportStates
  <2> QED
    BY <1>6, <2>4, <2>5, <2>6 DEF ListedTyped
<1> QED
  BY <1>7, <1>8

LEMMA FindVMKeeps ==
  ASSUME IInv, FindVM, UNCHANGED <<inv, active, vms>>
  PROVE  IInv'
<1>1. /\ TypeInv /\ WaitInv /\ PassInv /\ pc = "Loop" /\ i <= Len(w) /\ w[i].phase = "CreateImport"
      /\ UNCHANGED <<imports, secrets>>
  BY DEF IInv, FindVM, Handles, At, destVars
<1>2. i \in DOMAIN Plan
  <2>1. DOMAIN Plan = 1 .. Len(Plan) /\ Len(Plan) \in Nat
    BY KubeVirtAssumption
  <2>2. Len(w) = Len(Plan)
    BY <1>1, <2>1 DEF TypeInv
  <2> QED
    BY <1>1, <2>1, <2>2 DEF TypeInv
<1>3. CASE Abort
  BY <1>3, AbortKeeps
<1>4. CASE Leave(Fails) /\ UNCHANGED listed
  <2>1. PICK j \in DOMAIN Plan : j = i
    BY <1>2
  <2>2. w[i] \in Status
    BY <1>1, <1>2 DEF TypeInv
  <2>3. PICK s \in Status : s = Fails /\ s.phase = "Completed"
    BY <2>2, StatusFields DEF Fails, At
  <2>4. Leave(s) /\ Waits(j, s)'
    BY <1>4, <2>3 DEF Waits
  <2>5. Typed /\ (\A n \in Names : Owned(n) => Owned(n)') /\ ListedTyped'
    BY <1>1, <1>4, SameDestination DEF TypeInv, ListedTyped
  <2> QED
    BY <1>1, <2>1, <2>4, <2>5, LeaveKeeps
<1>5. CASE /\ Find("VM", Plan[i]).is = "found" /\ pc' = "BuildSecret"
           /\ w' = [w EXCEPT ![i].id = Find("VM", Plan[i]).id] /\ UNCHANGED <<i, listed>>
  <2> DEFINE id == Find("VM", Plan[i]).id
             d == [w[i] EXCEPT !.id = id]
  <2>1. Find("VM", Plan[i]) = Denoted(i)
    BY <1>1, <1>2, <1>5, FindDenotes DEF TypeInv
  <2>2. Denoted(i) = Result("found", id) /\ id \in VMIds
    BY <1>2, <1>5, <2>1, DenotedIsRow
  <2> HIDE DEF id
  <2>3. w[i] \in Status
    BY <1>1, <1>2 DEF TypeInv
  <2>4. d \in Status /\ d.id = id /\ d.phase = "CreateImport"
    BY <1>1, <2>2, <2>3 DEF Status
  <2>5. w' = [w EXCEPT ![i] = d]
    BY <1>5 DEF id
  <2> HIDE DEF d
  <2>6. w' \in [DOMAIN Plan -> Status] /\ w'[i] = d /\ \A k \in DOMAIN Plan \ {i} : w'[k] = w[k]
    BY <1>1, <1>2, <2>4, <2>5 DEF TypeInv
  <2>7. TypeInv'
    BY <1>1, <1>5, <2>6 DEF TypeInv, ListedTyped, Calls
  <2>8. DOMAIN Plan = 1 .. Len(Plan) /\ Len(Plan) \in Nat
    BY KubeVirtAssumption
  <2>9. PassInv'
    <3>1. vms[i].phase = "CreateImport"
      BY <1>1, <1>2 DEF PassInv
    <3>2. \A k \in DOMAIN Plan : k > i => w'[k] = vms'[k]
      BY <1>1, <1>2, <2>6, <2>8 DEF PassInv
    <3>3. i' \in DOMAIN Plan /\ w'[i'].phase = "CreateImport" /\ vms'[i'].phase = "CreateImport"
      BY <1>2, <1>5, <2>4, <2>6, <3>1
    <3>4. Denoted(i)' = Result("found", w'[i'].id)
      BY <1>5, <2>2, <2>4, <2>6 DEF Denoted
    <3> QED
      BY <1>5, <3>2, <3>3, <3>4 DEF PassInv
  <2>10. WaitInv'
    <3>1. \A n \in Names : Owned(n) => Owned(n)'
      BY <1>1, SameDestination
    <3>2. \A k \in DOMAIN Plan : Waits(k, vms[k])'
      BY <1>1, <3>1, OthersWait DEF WaitInv, Calls
    <3>3. \A k \in DOMAIN Plan \ {i}, t \in Status : t = w[k] => Waits(k, t)'
      BY <1>1, <3>1, OthersWait DEF WaitInv, Calls
    <3>4. \A k \in DOMAIN Plan, t \in Status : t = w'[k] => Waits(k, t)'
      <4> SUFFICES ASSUME NEW k \in DOMAIN Plan, NEW t \in Status, t = w'[k]
                   PROVE  Waits(k, t)'
        OBVIOUS
      <4>1. CASE k = i
        BY <2>4, <2>6, <4>1 DEF Waits
      <4>2. CASE k # i
        BY <2>6, <3>3, <4>2
      <4> QED
        BY <4>1, <4>2
    <3>5. \A k \in DOMAIN Plan : Waits(k, w[k])'
      BY <2>6, <3>4
    <3> QED
      BY <3>2, <3>5 DEF WaitInv
  <2>11. CallInv'
    BY <1>5 DEF CallInv, SecretMade, ImportMade
  <2> QED
    BY <2>7, <2>9, <2>10, <2>11 DEF IInv
<1> QED
  BY <1>3, <1>4, <1>5 DEF FindVM

LEMMA StutterKeeps ==
  ASSUME IInv, UNCHANGED vars
  PROVE  IInv'
<1>1. UNCHANGED <<inv, active, vms, imports, secrets, pc, w, i, object, listed>>
  BY DEF vars, sourceVars, destVars, passVars
<1>2. TypeInv'
  BY <1>1 DEF IInv, TypeInv, ListedTyped
<1>3. WaitInv' /\ PassInv' /\ CallInv'
  BY <1>1 DEF IInv, WaitInv, Waits, Owned, Name, PassInv, CallInv, Here, At
<1> QED
  BY <1>2, <1>3 DEF IInv

LEMMA InitKeeps == Init => IInv
<1> SUFFICES ASSUME Init
             PROVE  IInv
  OBVIOUS
<1>1. DOMAIN Plan = 1 .. Len(Plan) /\ Len(Plan) \in Nat /\ 1 \in DOMAIN Suffix
  BY KubeVirtAssumption
<1>2. vms \in [DOMAIN Plan -> Status] /\ w = vms
  BY DEF Init, Status
<1>3. inv \in [found : BOOLEAN, consistent : BOOLEAN]
  BY DEF Init
<1>4. TypeInv
  <2>1. imports = [n \in Names |-> imports[n]] /\ \A n \in Names : IsImport(imports[n])
    BY NoImportIs DEF Init
  <2>2. secrets = [n \in Names |-> secrets[n]] /\ \A n \in Names : IsSecret(secrets[n])
    BY NoSecretIs DEF Init
  <2>3. i \in 1 .. (Len(Plan) + 1) /\ active \in DOMAIN Suffix /\ pc = "Idle" /\ listed = <<>>
    BY <1>1 DEF Init
  <2> QED
    BY <1>2, <1>3, <2>1, <2>2, <2>3 DEF TypeInv, ListedTyped
<1>5. WaitInv /\ PassInv /\ CallInv
  BY DEF Init, WaitInv, Waits, PassInv, CallInv, Calls, SecretMade, ImportMade
<1> QED
  BY <1>4, <1>5 DEF IInv

LEMMA StepKeeps == IInv /\ [Next]_vars => IInv'
<1> SUFFICES ASSUME IInv, [Next]_vars
             PROVE  IInv'
  OBVIOUS
<1>1. CASE Pass
  <2>1. CASE BeginPass \/ EndPass
    BY <2>1, BeginKeeps, EndKeeps
  <2>2. ASSUME ~(BeginPass \/ EndPass) PROVE IInv'
    <3>1. UNCHANGED <<inv, active, vms>>
      BY <1>1, <2>2 DEF Pass, sourceVars
    <3>2. CASE SkipCompleted \/ ReadImport \/ FindVM \/ BuildSecret
      BY <3>1, <3>2, TurnKeeps, FindVMKeeps, BuildSecretKeeps
    <3>3. CASE CreateSecret \/ DeleteSecret \/ BuildImport \/ CreateImport
      BY <3>1, <3>3, CreateSecretKeeps, DeleteSecretKeeps, BuildImportKeeps, CreateImportKeeps
    <3>4. CASE DeleteImport \/ GetImport \/ UpdateSecret
      BY <3>1, <3>4, DeleteImportKeeps, GetImportKeeps, UpdateSecretKeeps
    <3> QED
      BY <1>1, <2>2, <3>2, <3>3, <3>4 DEF Pass
  <2> QED
    BY <2>1, <2>2
<1>2. CASE CallFails \/ PassLost \/ NextMigration
  BY <1>2, CallFailsKeeps, AbortKeeps, NextMigrationKeeps DEF PassLost
<1>3. CASE Destination \/ Source
  BY <1>3, DestinationKeeps, SourceKeeps
<1>4. CASE UNCHANGED vars
  BY <1>4, StutterKeeps
<1> QED
  BY <1>1, <1>2, <1>3, <1>4 DEF Next

(* The import that a status waits for keeps a secret that it owns, for     *)
(* every plan, whichever calls failed, whoever deleted an import meanwhile *)
(* and whatever an earlier migration left under its name (EnsureSecret,    *)
(* EnsureImport, SetSecretOwner).                                          *)
THEOREM ImportAlwaysKeepsItsSecret == Spec => []ImportKeepsItsSecret
<1>1. IInv => ImportKeepsItsSecret
  BY DEF IInv, TypeInv, WaitInv, Waits, Owned, ImportKeepsItsSecret, Waiting, ImportOf, SecretOf
<1> QED
  BY InitKeeps, StepKeeps, <1>1, PTL DEF Spec

(* The import that a status waits for was created for the migration that   *)
(* is executed, also when the names of two migrations' imports are equal   *)
(* (nameForImport, ensureObject).                                          *)
THEOREM ImportIsAlwaysOurs == Spec => []ImportIsOurs
<1>1. IInv => ImportIsOurs
  BY DEF IInv, TypeInv, WaitInv, Waits, Owned, ImportIsOurs, Waiting, ImportOf
<1> QED
  BY InitKeeps, StepKeeps, <1>1, PTL DEF Spec

(***************************************************************************)
(* Where a VM is read from.                                                *)
(***************************************************************************)
LEMMA ItemOutcome ==
  ASSUME NEW r, NEW h, NEW vm, NEW entry, NEW cl, Outcome(r, h, vm, entry, cl) = "item"
  PROVE  r.is = "found" /\ Needed(vm, entry, r.id) /\ CanTranslate(h, vm)
<1>1. CASE r.is # "found"
  BY <1>1 DEF Outcome
<1>2. CASE r.is = "found" /\ ~Needed(vm, entry, r.id)
  BY <1>2 DEF Outcome
<1>3. CASE r.is = "found" /\ Needed(vm, entry, r.id) /\ ~CanTranslate(h, vm)
  BY <1>3 DEF Outcome
<1> QED
  BY <1>1, <1>2, <1>3

LEMMA ItemsRead ==
  ASSUME NEW answers, NEW h, NEW vm, NEW entries, NEW cl, NEW prov,
         NEW x \in Mapping(answers, h, vm, entries, cl, prov).items
  PROVE  x.at = Place(h, vm) /\ CanTranslate(h, vm)
<1>1. PICK k \in DOMAIN entries :
        /\ Outcome(answers[k], h, vm, entries[k], cl) = "item"
        /\ x = Item(h, vm, entries[k], answers[k].id, prov)
  BY DEF Mapping
<1> QED
  BY <1>1, ItemOutcome DEF Item

LEMMA PlaceStays ==
  ASSUME UNCHANGED <<active, place, hosts, w, i>>
  PROVE  /\ Here' = Here /\ Secret(hosts, VMOf(At.id))' = Secret(hosts, VMOf(At.id))
         /\ \A m : Reads(m)' = Reads(m)
BY DEF Here, Name, At, VMOf, Reads

LEMMA CallPlaces ==
  ASSUME IInv, PlaceInv, UNCHANGED <<active, place, moved, hosts, w, i>>, ~moved,
         \/ BuildSecret \/ CreateSecret \/ DeleteSecret \/ BuildImport
         \/ CreateImport \/ DeleteImport \/ GetImport,
         pc' \in Calls
  PROVE  PlaceInv'
<1>1. TypeInv /\ PassInv /\ CallInv /\ pc \in Calls
  BY DEF IInv, BuildSecret, CreateSecret, DeleteSecret, BuildImport, CreateImport,
         DeleteImport, GetImport, Calls
<1>2. Here \in Names
  BY <1>1, HereIsName
<1>3. ~FailVM
  BY DEF FailVM, Leave, Calls
<1>4. CASE BuildSecret
  <2>1. pc' = "CreateSecret" /\ object' = Secret(hosts, VMOf(At.id))
    BY <1>3, <1>4 DEF BuildSecret
  <2> QED
    BY <2>1, PlaceStays DEF PlaceInv, SecretMade, ImportMade
<1>5. CASE CreateSecret
  <2>1. object = Secret(hosts, VMOf(At.id))
    BY <1>5 DEF PlaceInv, CreateSecret
  <2>2. CASE /\ pc' = "BuildImport"
             /\ secrets' = [secrets EXCEPT ![Here] = [here |-> TRUE, owner |-> "none", from |-> object]]
    <3>1. secrets'[Here].from = object
      BY <1>1, <1>2, <2>2 DEF TypeInv
    <3> QED
      BY <2>1, <2>2, <3>1, PlaceStays DEF PlaceInv, ImportMade
  <2>3. CASE pc' = "DeleteSecret" /\ UNCHANGED object
    BY <2>1, <2>3, PlaceStays DEF PlaceInv, SecretMade, ImportMade
  <2> QED
    BY <1>3, <1>5, <2>2, <2>3 DEF CreateSecret, Ensure, Here
<1>6. CASE DeleteSecret
  BY <1>6, PlaceStays DEF DeleteSecret, PlaceInv, SecretMade, ImportMade
<1>7. CASE BuildImport
  <2> DEFINE m == Mapping(EntryAnswers, hosts, VMOf(At.id), Entries, classes, Provisioners)
  <2>1. pc' = "CreateImport" /\ object'.mapping = m /\ UNCHANGED secrets /\ pc = "BuildImport"
    BY <1>3, <1>7 DEF BuildImport, destVars
  <2>2. Reads(m)
    BY ItemsRead DEF Reads
  <2> HIDE DEF m
  <2>3. Reads(object.mapping)'
    BY <2>1, <2>2 DEF Reads, VMOf, At
  <2> QED
    BY <2>1, <2>3, PlaceStays DEF PlaceInv, SecretMade, ImportMade
<1>8. CASE CreateImport
  <2>1. Reads(object.mapping) /\ secrets[Here].from = Secret(hosts, VMOf(At.id))
    BY <1>8 DEF PlaceInv, CreateImport, SecretMade
  <2>2. CASE pc' = "GetImport" /\ UNCHANGED secrets /\ imports' = [imports EXCEPT ![Here] = object]
    <3>1. imports'[Here] = object
      BY <1>1, <1>2, <2>2 DEF TypeInv
    <3>2. Reads(imports[Here].mapping)'
      BY <2>1, <3>1, PlaceStays DEF Reads, VMOf, At
    <3> QED
      BY <2>1, <2>2, <3>2, PlaceStays DEF PlaceInv
  <2>3. CASE pc' = "DeleteImport" /\ UNCHANGED <<object, destVars>>
    <3>1. Reads(object.mapping)'
      BY <2>1, <2>3 DEF Reads, VMOf, At
    <3> QED
      BY <2>1, <2>3, <3>1, PlaceStays DEF PlaceInv, ImportMade, destVars
  <2> QED
    BY <1>3, <1>8, <2>2, <2>3 DEF CreateImport, Ensure, Here
<1>9. CASE DeleteImport
  <2>1. Reads(object.mapping) /\ secrets[Here].from = Secret(hosts, VMOf(At.id))
    BY <1>9 DEF PlaceInv, DeleteImport, SecretMade
  <2>2. pc' = "CreateImport" /\ UNCHANGED object /\ Deleted(Here) /\ pc = "DeleteImport"
    BY <1>9 DEF DeleteImport, Here
  <2>3. secrets'[Here] = secrets[Here]
    BY <1>1, <1>2, <2>2, DeletedWears DEF Wears, CallInv, SecretMade
  <2>4. Reads(object.mapping)'
    BY <2>1, <2>2 DEF Reads, VMOf, At
  <2> QED
    BY <2>1, <2>2, <2>3, <2>4, PlaceStays DEF PlaceInv, ImportMade
<1>10. CASE GetImport
  <2>1. pc' = "UpdateSecret" /\ pc = "GetImport" /\ UNCHANGED <<imports, secrets>>
    BY <1>3, <1>10 DEF GetImport, destVars
  <2>2. imports[Here].state # "absent" => Reads(imports[Here].mapping)
    BY <2>1 DEF PlaceInv, ImportMade
  <2>3. imports[Here].state # "absent" => Reads(imports[Here].mapping)'
    BY <2>1, <2>2, PlaceStays DEF Reads, VMOf, At
  <2> QED
    BY <2>1, <2>3, PlaceStays DEF PlaceInv, SecretMade, ImportMade
<1> QED
  BY <1>4, <1>5, <1>6, <1>7, <1>8, <1>9, <1>10

LEMMA DestinationPlaces ==
  ASSUME IInv, PlaceInv, Destination
  PROVE  PlaceInv'
<1>1. /\ \A n \in Names : Wears(n)
      /\ object' = object \/ Forgets
      /\ UNCHANGED <<active, place, moved, hosts, pc, w, i>>
  BY DestinationWears DEF IInv, Destination, sourceVars
<1>2. SUFFICES ASSUME ~moved, pc \in Calls
               PROVE  PlaceInv'
  BY <1>1 DEF PlaceInv, Calls, SecretMade, ImportMade
<1>3. Here \in Names
  BY <1>2, HereIsName DEF IInv
<1>4. pc \in SecretMade => secrets'[Here] = secrets[Here]
  BY <1>1, <1>3 DEF Wears, IInv, CallInv
<1>5. pc # "UpdateSecret" => UNCHANGED object
  BY <1>1 DEF Forgets
<1>6. imports'[Here].state # "absent" =>
        imports[Here].state # "absent" /\ imports'[Here].mapping = imports[Here].mapping
  BY <1>1, <1>3 DEF Wears
<1>7. pc \in {"CreateImport", "DeleteImport"} => Reads(object.mapping)'
  BY <1>1, <1>2, <1>5 DEF PlaceInv, Reads, VMOf, At
<1>8. pc \in ImportMade /\ imports'[Here].state # "absent" => Reads(imports[Here].mapping)'
  <2> SUFFICES ASSUME pc \in ImportMade, imports'[Here].state # "absent"
               PROVE  Reads(imports[Here].mapping)'
    OBVIOUS
  <2>1. Reads(imports[Here].mapping)
    BY <1>2, <1>6 DEF PlaceInv
  <2>2. imports'[Here'].mapping = imports[Here].mapping
    BY <1>1, <1>6, PlaceStays
  <2> QED
    BY <1>1, <2>1, <2>2 DEF Reads, VMOf, At
<1> QED
  BY <1>1, <1>2, <1>4, <1>5, <1>7, <1>8, PlaceStays DEF PlaceInv

LEMMA PlaceKeeps == IInv /\ PlaceInv /\ [Next]_vars => PlaceInv'
<1> SUFFICES ASSUME IInv, PlaceInv, [Next]_vars
             PROVE  PlaceInv'
  OBVIOUS
<1>1. ASSUME pc' \notin Calls PROVE PlaceInv'
  BY <1>1 DEF PlaceInv, Calls, SecretMade, ImportMade
<1>2. CASE Pass
  <2>1. CASE \/ BuildSecret \/ CreateSecret \/ DeleteSecret \/ BuildImport
             \/ CreateImport \/ DeleteImport \/ GetImport
    <3>1. UNCHANGED <<active, place>> /\ (pc' = "Loop" \/ UNCHANGED <<moved, hosts, w, i>>)
      BY <1>2, <2>1 DEF Pass, BeginPass, EndPass, sourceVars, BuildSecret, CreateSecret, DeleteSecret,
            BuildImport, CreateImport, DeleteImport, GetImport, Ensure, FailVM, Leave, Stays,
            SkipCompleted, FindVM, UpdateSecret, ReadImport, Handles
    <3>2. CASE pc' = "Loop"
      BY <1>1, <3>2 DEF Calls
    <3>3. CASE UNCHANGED <<moved, hosts, w, i>>
      <4>1. CASE moved
        BY <3>3, <4>1 DEF PlaceInv
      <4> QED
        BY <1>1, <2>1, <3>1, <3>3, <4>1, CallPlaces
    <3> QED
      BY <3>1, <3>2, <3>3
  <2>2. CASE FindVM
    <3>1. pc' \in {"Idle", "Loop", "BuildSecret"}
      BY <2>2 DEF FindVM, Abort, Idle, Leave
    <3> QED
      BY <3>1 DEF PlaceInv, SecretMade, ImportMade
  <2>3. CASE BeginPass \/ EndPass \/ SkipCompleted \/ ReadImport \/ UpdateSecret
    <3>1. pc' \in {"Idle", "Loop"}
      BY <2>3 DEF BeginPass, EndPass, SkipCompleted, ReadImport, UpdateSecret, FailVM, Idle, Leave
    <3> QED
      BY <1>1, <3>1 DEF Calls
  <2> QED
    BY <1>2, <2>1, <2>2, <2>3 DEF Pass
<1>3. CASE CallFails \/ PassLost \/ NextMigration
  <2>1. pc' \in {"Idle", "Loop"}
    BY <1>3 DEF CallFails, PassLost, NextMigration, FailVM, Leave, Abort, Idle
  <2> QED
    BY <1>1, <2>1 DEF Calls
<1>4. CASE Destination
  BY <1>4, DestinationPlaces
<1>5. CASE Source
  <2>1. UNCHANGED <<active, imports, secrets, pc, w, i, object, hosts>>
    BY <1>5 DEF Source, MoveVM, InventoryLost, InventoryBack, ClassesLost, ClassesBack, destVars, passVars
  <2>2. UNCHANGED <<place, moved>> \/ moved' = (pc # "Idle")
    BY <1>5 DEF Source, MoveVM, InventoryLost, InventoryBack, ClassesLost, ClassesBack, passVars
  <2>3. CASE moved' = (pc # "Idle")
    BY <2>1, <2>3 DEF PlaceInv, SecretMade, ImportMade
  <2>4. CASE UNCHANGED <<place, moved>>
    BY <2>1, <2>4 DEF PlaceInv, Reads, Here, Name, At, VMOf
  <2> QED
    BY <2>2, <2>3, <2>4
<1>6. CASE UNCHANGED vars
  BY <1>6 DEF vars, sourceVars, destVars, passVars, PlaceInv, Reads, Here, Name, At, VMOf
<1> QED
  BY <1>2, <1>3, <1>4, <1>5, <1>6 DEF Next

(* Unless a VM moved while they were built, an import and its secret name  *)
(* one place, and the thumbprint is that place's: nothing of an earlier    *)
(* pass, of an earlier migration or of another host's CR is used with them *)
(* (Secret, mapping, ensureObject).                                        *)
THEOREM SecretAlwaysFitsImport == Spec => []SecretFitsImport
<1>1. Init => PlaceInv
  BY DEF Init, PlaceInv, SecretMade, ImportMade
<1>2. IInv /\ PlaceInv => SecretFitsImport
  <2> SUFFICES ASSUME PlaceInv, pc \in ImportMade, ~moved, imports[Here].state # "absent",
                      NEW x \in imports[Here].mapping.items
               PROVE  x.at = secrets[Here].from.url /\ secrets[Here].from.thumbprint = secrets[Here].from.url
    BY DEF SecretFitsImport, ImportMade, Here
  <2>1. secrets[Here].from = Secret(hosts, VMOf(At.id))
    BY DEF PlaceInv, SecretMade, ImportMade
  <2>2. x.at = Place(hosts, VMOf(At.id)) /\ CanTranslate(hosts, VMOf(At.id))
    BY DEF PlaceInv, Reads
  <2> QED
    BY <2>1, <2>2 DEF Secret, Place, CanTranslate
<1> QED
  BY InitKeeps, StepKeeps, PlaceKeeps, <1>1, <1>2, PTL DEF Spec

(***************************************************************************)
(* What is mapped.  A mapping that is not stopped has the entries that the *)
(* VM needs; the first that stops it is found, as any set of positions has *)
(* a least.                                                                *)
(***************************************************************************)
LEMMA LeastPosition ==
  ASSUME NEW T \in SUBSET Nat, T # {}
  PROVE  \E x \in T : \A y \in T : x <= y
<1> DEFINE R == {ss \in Nat \X Nat : ss[1] < ss[2]}
<1>1. IsWellFoundedOn(R, Nat)
  BY NatLessThanWellFounded DEF OpToRel
<1>2. PICK x \in T : \A y \in T : ~(<<y, x>> \in R)
  BY <1>1, WFMin
<1>3. \A y \in T : ~(y < x)
  BY <1>2
<1> QED
  BY <1>3

LEMMA StopIsItem ==
  ASSUME NEW outcomes, DOMAIN outcomes \subseteq Nat, Stop(outcomes) = "item"
  PROVE  \A k \in DOMAIN outcomes : outcomes[k] \notin {"error", "lost"}
<1> DEFINE stops == {k \in DOMAIN outcomes : outcomes[k] \in {"error", "lost"}}
           first == CHOOSE k \in stops : \A j \in stops : k <= j
<1>1. SUFFICES ASSUME stops # {} PROVE FALSE
  OBVIOUS
<1>2. \E k \in stops : \A j \in stops : k <= j
  BY <1>1, LeastPosition
<1>3. first \in stops
  BY <1>2
<1>4. Stop(outcomes) = outcomes[first]
  BY <1>1 DEF Stop
<1> QED
  BY <1>3, <1>4

(* Every entry of the map says which object it means, by its ID or its     *)
(* full path.                                                              *)
EntriesAreExact ==
  /\ DOMAIN Entries \subseteq Nat
  /\ \A k \in DOMAIN Entries :
       LET e == Entries[k] IN
       /\ e.kind \in {"Network", "Datastore"}
       /\ IsFiniteSet(Rows[e.kind]) /\ \A r \in Rows[e.kind] : r.id # None
       /\ e.source.id = None => \E r \in Rows[e.kind] : r.path = e.source.name

Meant(e) == {r \in Rows[e.kind] : r.id = e.source.id \/ (e.source.id = None /\ r.path = e.source.name)}

LEMMA AtMostOne ==
  ASSUME NEW S, IsFiniteSet(S), ~(Cardinality(S) > 1), NEW x \in S, NEW y \in S
  PROVE  x = y
<1>1. Cardinality({x, y}) <= Cardinality(S) /\ Cardinality(S) \in Nat
  BY FS_Subset, FS_CardinalityType
<1>2. x # y => Cardinality({x} \cup {y}) = 2
  <2>1. IsFiniteSet({x}) /\ Cardinality({x}) = 1
    BY FS_Singleton
  <2>2. Cardinality({x} \cup {y}) = IF y \in {x} THEN Cardinality({x}) ELSE Cardinality({x}) + 1
    BY <2>1, FS_AddElement
  <2> QED
    BY <2>1, <2>2
<1>3. {x, y} = {x} \cup {y}
  OBVIOUS
<1> QED
  BY <1>1, <1>2, <1>3

LEMMA EntryMeans ==
  ASSUME EntriesAreExact, NEW k \in DOMAIN Entries, EntryAnswers[k].is = "found"
  PROVE  /\ \E r \in Meant(Entries[k]) : r.id = EntryAnswers[k].id
         /\ \A r \in Meant(Entries[k]) : r.id = EntryAnswers[k].id
<1> DEFINE e == Entries[k]
           s == Served(e.kind)
           answer == ByRef(e.kind, s, e.source)
<1>1. /\ e.kind \in Kinds /\ e.kind \in {"Network", "Datastore"} /\ IsFiniteSet(Rows[e.kind])
      /\ \A r \in Rows[e.kind] : r.id # None
      /\ e.source.id = None => \E r \in Rows[e.kind] : r.path = e.source.name
  BY DEF EntriesAreExact, Kinds
<1>2. EntryAnswers[k] = answer /\ answer.is = "found" /\ s.rows = Rows[e.kind]
  BY DEF EntryAnswers, Find, Served
<1> HIDE DEF s
<1>3. PICK f \in Rows[e.kind] : answer = Result("found", f.id)
  BY <1>1, <1>2, FoundIsRow
<1>4. answer.id = f.id
  BY <1>3 DEF Result
<1>5. CASE e.source.id # None
  <2>1. answer = Get(s, e.source.id)
    BY <1>5 DEF ByRef
  <2>2. answer.id = e.source.id
    BY <1>2, <2>1 DEF Get, Result
  <2> QED
    BY <1>1, <1>2, <1>4, <1>5, <2>2 DEF Meant
<1>6. CASE e.source.id = None
  <2> DEFINE name == e.source.name
             list == List(e.kind, s, name)
  <2>1. answer = FindByName(e.kind, s, name)
    BY <1>6 DEF ByRef
  <2>2. /\ Prepare(s) = 200 /\ ~(Cardinality(list) > 1)
        /\ \E r \in list : answer = Result("found", r.id)
    BY <1>1, <1>2, <2>1, NamedIsRow
  <2>3. PICK g \in list : answer.id = g.id
    BY <2>2 DEF Result
  <2>4. list \subseteq Rows[e.kind] /\ IsFiniteSet(list)
    BY <1>1, <1>2, ListedAreRows, FS_Subset
  <2>5. \A r \in Rows[e.kind] : r.path = name => r \in list
    <3>1. list = FilterHosts(Named(s.rows, name), name)
      BY <1>1, <2>2 DEF List, Decoded, Listed, ListNetworks, FilterNetworks, ListDatastores,
                        FilterDatastores
    <3> QED
      BY <1>2, <3>1 DEF FilterHosts, Named, PathMatchRoot
  <2> HIDE DEF list
  <2>6. \A r \in Meant(e) : r \in list
    BY <1>1, <1>6, <2>5 DEF Meant
  <2>7. \A r \in list : r = g
    BY <2>2, <2>3, <2>4, AtMostOne
  <2>8. \E r \in Meant(e) : TRUE
    BY <1>1, <1>6 DEF Meant
  <2> QED
    BY <1>2, <2>3, <2>6, <2>7, <2>8
<1> QED
  BY <1>5, <1>6

LEMMA MappingMaps ==
  ASSUME EntriesAreExact, NEW id
  PROVE  Maps(Mapping(EntryAnswers, hosts, VMOf(id), Entries, classes, Provisioners), id)
<1> DEFINE vm == VMOf(id)
           outcomes == [k \in DOMAIN Entries |-> Outcome(EntryAnswers[k], hosts, vm, Entries[k], classes)]
           item(k) == Item(hosts, vm, Entries[k], EntryAnswers[k].id, Provisioners)
           m == Mapping(EntryAnswers, hosts, vm, Entries, classes, Provisioners)
           used(kind) == IF kind = "Network" THEN Uses[id].nets ELSE Uses[id].stores
           pairs(e) == {<<r.id, e.target>> : r \in {q \in Meant(e) : q.id \in used(e.kind)}}
<1>1. Planned(id) = UNION {pairs(Entries[k]) : k \in DOMAIN Entries}
  BY DEF Planned, Meant
<1>2. SUFFICES ASSUME m.is = "item"
               PROVE  {<<x.id, x.target>> : x \in m.items} = UNION {pairs(Entries[k]) : k \in DOMAIN Entries}
  BY <1>1 DEF Maps
<1>3. /\ Stop(outcomes) = "item"
      /\ m.items = {item(k) : k \in {j \in DOMAIN Entries : outcomes[j] = "item"}}
  BY <1>2 DEF Mapping
<1>4. \A k \in DOMAIN Entries : outcomes[k] \notin {"error", "lost"}
  BY <1>3, StopIsItem DEF EntriesAreExact
<1>5. \A k \in DOMAIN Entries : item(k).id = EntryAnswers[k].id /\ item(k).target = Entries[k].target
  BY DEF Item
<1>6. \A k \in DOMAIN Entries : \A n : Needed(vm, Entries[k], n) <=> n \in used(Entries[k].kind)
  BY DEF Needed, VMOf
<1>7. ASSUME NEW k \in DOMAIN Entries, outcomes[k] = "item"
      PROVE  <<EntryAnswers[k].id, Entries[k].target>> \in pairs(Entries[k])
  <2>1. EntryAnswers[k].is = "found" /\ Needed(vm, Entries[k], EntryAnswers[k].id)
    BY <1>7, ItemOutcome
  <2> QED
    BY <1>6, <2>1, EntryMeans
<1>8. ASSUME NEW k \in DOMAIN Entries, NEW p \in pairs(Entries[k])
      PROVE  outcomes[k] = "item" /\ p = <<EntryAnswers[k].id, Entries[k].target>>
  <2>1. PICK r \in Meant(Entries[k]) : r.id \in used(Entries[k].kind) /\ p = <<r.id, Entries[k].target>>
    BY <1>8
  <2>2. EntryAnswers[k].is = "found"
    BY <1>4 DEF Outcome
  <2>3. r.id = EntryAnswers[k].id
    BY <2>1, <2>2, EntryMeans
  <2>4. Needed(vm, Entries[k], EntryAnswers[k].id)
    BY <1>6, <2>1, <2>3
  <2>5. outcomes[k] = "item"
    BY <1>4, <2>2, <2>4 DEF Outcome
  <2> QED
    BY <2>1, <2>3, <2>5
<1> HIDE DEF outcomes, item, pairs, m
<1> QED
  BY <1>3, <1>5, <1>7, <1>8

LEMMA MapStays ==
  ASSUME UNCHANGED <<active, imports, w, i>>, MapInv,
         pc' \in {"CreateImport", "DeleteImport"} =>
           UNCHANGED object /\ pc \in {"CreateImport", "DeleteImport"}
  PROVE  MapInv'
BY DEF MapInv, At, Maps

LEMMA MapKeeps == EntriesAreExact /\ IInv /\ MapInv /\ [Next]_vars => MapInv'
<1> SUFFICES ASSUME EntriesAreExact, IInv, MapInv, [Next]_vars
             PROVE  MapInv'
  OBVIOUS
<1> DEFINE Building == pc' \in {"CreateImport", "DeleteImport"}
<1>1. ASSUME UNCHANGED imports, ~Building PROVE MapInv'
  BY <1>1 DEF MapInv, Maps
<1>2. CASE Pass
  <2>1. CASE CreateImport
    <3>1. TypeInv /\ PassInv /\ pc = "CreateImport" /\ pc \in Calls /\ Here \in Names
      BY <2>1, HereIsName DEF IInv, CreateImport, Calls
    <3>2. Maps(object.mapping, At.id) /\ Here[1] = At.id
      BY <3>1 DEF MapInv, Here, Name
    <3>3. CASE pc' = "GetImport" /\ imports' = [imports EXCEPT ![Here] = object]
      <4>1. imports' = [n \in Names |-> IF n = Here THEN object ELSE imports[n]]
        BY <3>1, <3>3 DEF TypeInv
      <4>2. \A n \in Names : imports'[n].state # "absent" => Maps(imports'[n].mapping, n[1])
        BY <3>2, <4>1 DEF MapInv
      <4> QED
        BY <3>3, <4>2 DEF MapInv, Maps
    <3>4. CASE pc' = "DeleteImport" /\ Stays /\ UNCHANGED <<object, destVars>>
      BY <3>1, <3>4 DEF MapInv, Maps, At, Stays, destVars
    <3>5. CASE FailVM /\ UNCHANGED destVars
      BY <1>1, <3>5 DEF FailVM, Leave, destVars
    <3> QED
      BY <2>1, <3>3, <3>4, <3>5 DEF CreateImport, Ensure, Here
  <2>2. CASE BuildImport
    <3> DEFINE m == Mapping(EntryAnswers, hosts, VMOf(At.id), Entries, classes, Provisioners)
    <3>1. Maps(m, At.id)
      BY MappingMaps
    <3>2. CASE FailVM
      BY <1>1, <2>2, <3>2 DEF BuildImport, FailVM, Leave, destVars
    <3>3. CASE pc' = "CreateImport" /\ Stays /\ object'.mapping = m
      <4> HIDE DEF m
      <4>1. UNCHANGED imports
        BY <2>2 DEF BuildImport, destVars
      <4> QED
        BY <3>1, <3>3, <4>1 DEF MapInv, Maps, At, Stays
    <3> QED
      BY <2>2, <3>2, <3>3 DEF BuildImport
  <2>3. CASE DeleteImport
    <3>1. TypeInv /\ pc = "DeleteImport" /\ pc \in Calls /\ Here \in Names
      BY <2>3, HereIsName DEF IInv, DeleteImport, Calls
    <3>2. pc' = "CreateImport" /\ UNCHANGED object /\ Stays /\ Deleted(Here)
      BY <2>3 DEF DeleteImport, Here
    <3>3. \A n \in Names : Wears(n)
      BY <3>1, <3>2, DeletedWears
    <3>4. \A n \in Names : imports'[n].state # "absent" => Maps(imports'[n].mapping, n[1])
      BY <3>3 DEF MapInv, Wears
    <3> QED
      BY <3>1, <3>2, <3>4 DEF MapInv, Maps, At, Stays
  <2>4. CASE ~(CreateImport \/ BuildImport \/ DeleteImport)
    <3>1. UNCHANGED imports /\ ~Building
      BY <1>2, <2>4 DEF Pass, BeginPass, EndPass, SkipCompleted, FindVM, BuildSecret, CreateSecret,
            DeleteSecret, GetImport, UpdateSecret, ReadImport, Ensure, FailVM, Leave, Abort, Idle, destVars
    <3> QED
      BY <1>1, <3>1
  <2> QED
    BY <2>1, <2>2, <2>3, <2>4
<1>3. CASE CallFails \/ PassLost \/ NextMigration
  <2>1. UNCHANGED imports /\ ~Building
    BY <1>3 DEF CallFails, PassLost, NextMigration, FailVM, Leave, Abort, Idle, destVars
  <2> QED
    BY <1>1, <2>1
<1>4. CASE Destination
  <2>1. (\A n \in Names : Wears(n)) /\ (object' = object \/ Forgets) /\ UNCHANGED <<pc, w, i>>
    BY <1>4, DestinationWears DEF IInv, Destination
  <2>2. \A n \in Names : imports'[n].state # "absent" => Maps(imports'[n].mapping, n[1])
    BY <2>1 DEF MapInv, Wears
  <2>3. pc \in {"CreateImport", "DeleteImport"} => UNCHANGED object
    BY <2>1 DEF Forgets
  <2> QED
    BY <2>1, <2>2, <2>3 DEF MapInv, Maps, At
<1>5. CASE Source \/ UNCHANGED vars
  <2>1. UNCHANGED <<active, imports, pc, w, i, object>>
    BY <1>5 DEF Source, MoveVM, InventoryLost, InventoryBack, ClassesLost, ClassesBack, vars,
                sourceVars, destVars, passVars
  <2> QED
    BY <2>1, MapStays
<1> QED
  BY <1>2, <1>3, <1>4, <1>5 DEF Next

(* When the entries of the map say exactly which objects they mean, every  *)
(* import maps what the plan's map says of the networks and datastores of  *)
(* its VM and nothing else, or nothing at all (mapping).                   *)
THEOREM AlwaysMappedAsPlanned ==
  ASSUME EntriesAreExact
  PROVE  Spec => []MappedAsPlanned
<1>1. Init => MapInv
  BY DEF Init, MapInv, NoImport
<1>2. MapInv => MappedAsPlanned
  BY DEF MapInv, Maps, MappedAsPlanned
<1>3. IInv /\ MapInv /\ [Next]_vars => MapInv'
  BY MapKeeps
<1> QED
  BY InitKeeps, StepKeeps, <1>1, <1>2, <1>3, PTL DEF Spec
=============================================================================
