----------------------------- MODULE Admission ------------------------------
(***************************************************************************)
(* What stands between a budget's spec and the store: the schema of the    *)
(* custom resource (api/v1alpha1) and the validating webhook               *)
(* (internal/webhook).  The manager process serves the webhook itself, and *)
(* the API server calls it for every create and update of a budget, the    *)
(* operator's own updates of finalizers included, but neither for deletes  *)
(* nor for patches of the status subresource.                              *)
(*                                                                         *)
(* A spec is a record with                                                 *)
(*   selector  the names of the pods it matches, None if it is malformed   *)
(*   blank     whether it has neither matchLabels nor matchExpressions     *)
(*   window    windowHours                                                 *)
(*   quota     gpuHours, in GPU-ticks                                      *)
(*   grace     gracePeriodSeconds                                          *)
(*   action    what the enforcer does                                      *)
(***************************************************************************)
EXTENDS Accounting

CONSTANT FailurePolicy   \* of the webhook: "Fail" or "Ignore"; "Off": not installed

ASSUME PolicyAssumption == FailurePolicy \in {"Fail", "Ignore", "Off"}

-----------------------------------------------------------------------------
Actions == {"Evict", "Pause", "AlertOnly"}

\* The markers of the Go types, which the API server enforces by itself.
SchemaAllows(spec) == spec.window >= 1 /\ spec.grace >= 0 /\ spec.action \in Actions

\* Mutant of ValidateSpec: quotas are not looked at.
ValidateSpecAnyQuota(spec) ==
    spec.window > 0 /\ spec.grace >= 0 /\ spec.action \in Actions
    /\ ~spec.blank /\ spec.selector # None

\* validateSpec finds no error.  The match of a selector is what
\* LabelSelectorAsSelector makes of it, as in Reconcile.
ValidateSpec(spec) ==
    /\ spec.quota > 0 /\ spec.window > 0
    /\ spec.grace >= 0 /\ spec.action \in Actions
    /\ ~spec.blank /\ spec.selector # None

\* Whether the API server stores a create or an update that carries spec;
\* serving tells whether a manager process answers its calls.
Admits(spec, serving) ==
    /\ SchemaAllows(spec)
    /\ \/ FailurePolicy = "Off"
       \/ serving /\ ValidateSpec(spec)
       \/ ~serving /\ FailurePolicy = "Ignore"
=============================================================================
