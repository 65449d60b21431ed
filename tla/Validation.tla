----------------------------- MODULE Validation -----------------------------
(***************************************************************************)
(* What pkg/controller/validation, and the validations of the host, map    *)
(* and plan controllers, make of what they read: the conditions of a CR    *)
(* that refers to a provider.  Conditions are a function from the types    *)
(* that are set to their reasons; every type here but ConnectionTested and *)
(* Ready is critical.                                                      *)
(*                                                                         *)
(* The answers are those of the inventory to the CR's references, in their *)
(* order: results of InventoryClient, or Result("NotSet", None).           *)
(***************************************************************************)
EXTENDS InventoryClient

NoConditions == [t \in {} |-> ""]

(* SetCondition: the last one of a type stays.                             *)
Set(conds, type, reason) ==
  [t \in DOMAIN conds \cup {type} |-> IF t = type THEN reason ELSE conds[t]]

SetWhen(test, conds, type, reason) == IF test THEN Set(conds, type, reason) ELSE conds

UpdateConditions(conds, new) ==
  [t \in DOMAIN conds \cup DOMAIN new |-> IF t \in DOMAIN new THEN new[t] ELSE conds[t]]

HasBlocker(conds) == DOMAIN conds \ {"ConnectionTested"} # {}

Answered(answers, what) == \E i \in DOMAIN answers : answers[i].is = what

(***************************************************************************)
(* Providers.  prov is the CR the reference names, if it is set:           *)
(* [set, here, type, ready].                                               *)
(***************************************************************************)
ValidateProvider(prov) ==
  CASE ~prov.set -> Set(NoConditions, "ProviderNotValid", "NotSet")
    [] prov.set /\ ~prov.here -> Set(NoConditions, "ProviderNotValid", "NotFound")
    [] prov.here /\ ~prov.ready -> Set(NoConditions, "ProviderNotReady", "")
    [] OTHER -> NoConditions

Remapped(conds, names) ==
  [t \in {names[u] : u \in DOMAIN conds} |-> conds[CHOOSE u \in DOMAIN conds : names[u] = t]]

SourceTypes ==
  [ProviderNotValid |-> "SourceProviderNotValid", ProviderNotReady |-> "SourceProviderNotReady"]

DestinationTypes ==
  [ProviderNotValid |-> "DestinationProviderNotValid",
   ProviderNotReady |-> "DestinationProviderNotReady"]

ValidateSource(prov) ==
  SetWhen(prov.here /\ prov.type = "openshift",
          Remapped(ValidateProvider(prov), SourceTypes), "SourceProviderNotValid", "TypeNotValid")

ValidateDestination(prov) ==
  SetWhen(prov.here /\ prov.type # "openshift",
          Remapped(ValidateProvider(prov), DestinationTypes),
          "DestinationProviderNotValid", "TypeNotValid")

ValidateHostProvider(prov) ==
  SetWhen(prov.here /\ prov.type # "vsphere",
          ValidateProvider(prov), "TypeNotValid", "TypeErr")

(***************************************************************************)
(* References.                                                             *)
(***************************************************************************)
ValidateHostRef(answers) ==
  CASE Answered(answers, "NotSet") -> Set(NoConditions, "RefNotValid", "NotSet")
    [] Answered(answers, "NotFound") -> Set(NoConditions, "RefNotValid", "NotFound")
    [] Answered(answers, "RefNotUnique") -> Set(NoConditions, "RefNotValid", "Ambiguous")
    [] OTHER -> NoConditions

(* Lists of entries: each kind of fault is one condition, all of one type, *)
(* and the last stays.                                                     *)
Listing(answers, type, notSetType) ==
  LET c1 == SetWhen(Answered(answers, "NotSet"), NoConditions, notSetType, "NotSet")
      c2 == SetWhen(Answered(answers, "NotFound"), c1, type, "NotFound")
  IN  SetWhen(Answered(answers, "RefNotUnique"), c2, type, "Ambiguous")

ValidateNetworks(answers) ==
  Listing(answers, "SourceNetworkNotValid", "SourceNetworkNotValid")

ValidateStorage(answers) ==
  Listing(answers, "SourceStorageNotValid", "DestinationNetworkNotValid")

ValidateNetworkDestinations(answers) ==
  SetWhen(Answered(answers, "NotFound"), NoConditions, "DestinationNetworkNotValid", "NotFound")

ValidateStorageDestinations(answers) ==
  SetWhen(Answered(answers, "NotFound"), NoConditions, "DestinationStorageNotValid", "NotFound")

(* VMs are told apart by the ID that was found.                            *)
Repeats(answers) ==
  \E i, j \in DOMAIN answers :
    i # j /\ answers[i].is = "found" /\ answers[j].is = "found" /\ answers[i].id = answers[j].id

ValidateVMs(answers) ==
  LET c1 == SetWhen(Answered(answers, "NotSet"), NoConditions, "VMRefNotValid", "NotSet")
      c2 == SetWhen(Answered(answers, "NotFound"), c1, "VMNotFound", "NotFound")
      c3 == SetWhen(Repeats(answers), c2, "DuplicateVM", "NotUnique")
  IN  SetWhen(Answered(answers, "RefNotUnique"), c3, "DuplicateVM", "Ambiguous")
=============================================================================
