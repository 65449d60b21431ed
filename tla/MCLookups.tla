----------------------------- MODULE MCLookups -----------------------------
(***************************************************************************)
(* Small instances of what is looked up: trees and paths (InventoryTree),  *)
(* a host's adapters (HostNetworking), the resources of an OpenShift       *)
(* provider (OcpInventory) and the VMs of a plan (PlanReferences). A       *)
(* behaviour is of one of them, its subject, and leaves the variables of   *)
(* the others as they are at first.                                        *)
(***************************************************************************)
EXTENDS InventoryTree, HostNetworking, OcpInventory, PlanReferences

CONSTANTS v1, f1, f2, n1, n2, p1, p2

VARIABLE subject

allVars == <<subject, treeVars, hostVars, ocpVars, referenceVars>>

OneOrBoth == {<<p1>>, <<p2, p1>>}

(***************************************************************************)
(* In the tree one folder is at the root and the other in it, and the VM   *)
(* is beside that or yet to be created. The host has one virtual NIC, all  *)
(* physical NICs, and a switch with a port group. What is not the subject  *)
(* begins in one state.                                                    *)
(***************************************************************************)
LookupsInit ==
  /\ TreeInit /\ HostInit /\ OcpInit /\ ReferencesInit
  /\ subject \in {"tree", "host", "ocp", "references"}
  /\ place[f1] = VmRoot /\ place[f2] = f1
  /\ IF subject = "tree" THEN place[v1] \in {f1, "unborn"} ELSE place[v1] = "unborn"
  /\ IF subject = "host"
     THEN /\ DOMAIN host["vNIC"] = {n1} /\ DOMAIN host["pNIC"] = PNICs
          /\ host["vSwitch"] # <<>> /\ host["portGroup"] # <<>>
     ELSE \A p \in Property : host[p] = <<>>
  /\ subject # "references" => listed = <<[vm |-> "a", id |-> "a"]>>

OfTree == subject = "tree" /\ UNCHANGED <<subject, hostVars, ocpVars, referenceVars>>
OfHost == subject = "host" /\ UNCHANGED <<subject, treeVars, ocpVars, referenceVars>>
OfOcp == subject = "ocp" /\ UNCHANGED <<subject, treeVars, hostVars, referenceVars>>
OfReferences == subject = "references" /\ UNCHANGED <<subject, treeVars, hostVars, ocpVars>>

LookupsNext ==
  \/ OfTree /\ TreeNext
  \/ OfHost /\ HostNext
  \/ OfOcp /\ OcpNext
  \/ OfReferences /\ ReferencesNext

(* The fairness of FairTreeSpec and of FairOcpSpec; as the subject stays,  *)
(* an action of each may share a conjunct.                                 *)
LookupsFairness ==
  /\ WF_allVars((OfTree /\ Updates) \/ (OfOcp /\ Load))
  /\ WF_allVars((OfTree /\ Answering) \/ (OfOcp /\ Deliver))

LookupsSpec == LookupsInit /\ [][LookupsNext]_allVars /\ LookupsFairness

(* The rows of an OpenShift inventory come to be the resources of the      *)
(* cluster (Create, Update, Delete).                                       *)
OcpConverges == (subject = "ocp") => InventoryConverges
=============================================================================
