------------------------------ MODULE MCRemote ------------------------------
(***************************************************************************)
(* Small instances of what the controllers do with the two systems they    *)
(* are between: the mirror of the source (InventoryMirror) and the imports *)
(* on the destination (KubeVirt). A behaviour is of one of them, its       *)
(* subject, and leaves the variables of the other as they are at first.    *)
(***************************************************************************)
EXTENDS MCInventoryMirror, MCKubeVirt

VARIABLE subject

remoteVars == <<subject, mirrorVars, vars>>

(* What is not the subject begins in one state.                            *)
RemoteInit ==
  /\ MirrorInit /\ Init
  /\ subject \in {"mirror", "imports"}
  /\ subject # "mirror" => \A o \in Objects : Here(o)
  /\ subject # "imports" => hostCRs = <<>> /\ \A v \in VMIds : place[v] = "h1"

OfMirror == subject = "mirror" /\ UNCHANGED <<subject, vars>>
OfImports == subject = "imports" /\ UNCHANGED <<subject, mirrorVars>>

RemoteNext ==
  \/ OfMirror /\ MirrorNext
  \/ OfImports /\ Next

(* The fairness of FairMirrorSpec and of FairSpec; as the subject stays,   *)
(* an action of each may share a conjunct.                                 *)
RemoteFairness ==
  /\ WF_remoteVars((OfMirror /\ Connect) \/ (OfImports /\ Pass))
  /\ WF_remoteVars((OfMirror /\ Updates) \/ (OfImports /\ Destination))
  /\ WF_remoteVars((OfMirror /\ AnalyzeCluster) \/ (OfImports /\ InventoryBack /\ Source))
  /\ \A v \in VMs : WF_remoteVars(OfMirror /\ AnalyzeVM(v))

RemoteSpec == RemoteInit /\ [][RemoteNext]_remoteVars /\ RemoteFairness

(* MirrorConverges: when the source is at rest the mirror has all of it,   *)
(* as it is, whatever sessions and transactions failed before (Start,      *)
(* getUpdates).                                                            *)
SourceIsMirrored == <>[](subject = "mirror" => UpToDate)

(* EveryVMEnds: every VM is migrated or fails in the end (Run, updateVM).  *)
ImportsEnd == \A k \in DOMAIN Plan : []<>(subject = "imports" => Ended(k))
=============================================================================
