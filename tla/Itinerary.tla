------------------------------ MODULE Itinerary ------------------------------
(***************************************************************************)
(* The itinerary of one VM: the phases of pkg/controller/plan/migration.go *)
(* and the pipeline of steps shown to the user.  Two phases around the     *)
(* import exist only when the VM has a hook (Predicate.Evaluate); a hook   *)
(* is the set of its ends that are set.                                    *)
(***************************************************************************)

Phases == {"Started", "CreatePreHook", "PreHookCreated", "CreateImport",
           "ImportCreated", "CreatePostHook", "PostHookCreated", "Completed"}

HookSteps == {"PreHook", "PostHook"}

Hooks == SUBSET HookSteps

ImportSteps == {"DiskTransfer", "ImageConversion"}

Steps == ImportSteps \cup HookSteps

FirstPhase == "Started"

(* Migration.next: the next phase allowed by the VM's hook.                *)
NextPhase(phase, hook) ==
  CASE phase = "Started" /\ "PreHook" \in hook -> "CreatePreHook"
    [] phase = "Started" /\ "PreHook" \notin hook -> "CreateImport"
    [] phase = "CreatePreHook" -> "PreHookCreated"
    [] phase = "PreHookCreated" -> "CreateImport"
    [] phase = "CreateImport" -> "ImportCreated"
    [] phase = "ImportCreated" /\ "PostHook" \in hook -> "CreatePostHook"
    [] phase = "CreatePostHook" -> "PostHookCreated"
    [] OTHER -> "Completed"

(* Migration.buildPipeline: the import's two steps and one per hook.       *)
BuildPipeline(hook) == ImportSteps \cup hook
=============================================================================
