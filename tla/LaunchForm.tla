----------------------------- MODULE LaunchForm -----------------------------
(***************************************************************************)
(* The launch surface: the configuration form with its presets, its        *)
(* mutually exclusive scenarios, its bounds and its warnings, opened and   *)
(* closed by the overview page, and the route that accepts or refuses      *)
(* what it submits.                                                        *)
(*                                                                         *)
(* A configuration is reduced to the fields the warnings and the bounds    *)
(* tell apart; rates are in percent.                                       *)
(***************************************************************************)
EXTENDS Integers

CONSTANTS
    Inputs,    \* the numbers a user may type into a field
    MaxEdits,  \* bound on the edits of the form
    Null       \* the null of presetId and of the fields that hold no configuration

ASSUME FormAssumption == Inputs \subseteq Int /\ MaxEdits \in Nat /\ Null \notin STRING

VARIABLES
    draft,       \* the form's ExperimentConfig
    presetId,
    open,        \* the configurator is mounted
    configuring, \* OverviewPage's toggle
    active,      \* control.activeConfig
    startable,   \* the canStart of control
    launching,   \* the configuration createExperiment was called with
    refused,     \* the warnings on screen when the route refused the last launch; Null
                 \* if there was none, or if the agents' fields were not on screen
    edits

formVars == <<draft, presetId, open, configuring, active, startable, launching, refused, edits>>

Scenario == {"propagation", "adaptive_attacker", "prompt_injection",
             "sentinel_compromise", "attestation", "byzantine_collusion"}

\* Variant: only one of the two names the other.
exclusiveOneWay == [s \in Scenario |->
    IF s = "propagation" THEN {"adaptive_attacker"} ELSE {}]

\* SCENARIOS: the two that own the tick increment, and what each one needs.
exclusiveWith == [s \in Scenario |->
    IF s = "propagation" THEN {"adaptive_attacker"}
    ELSE IF s = "adaptive_attacker" THEN {"propagation"} ELSE {}]

BOUNDS == [node_count           |-> <<25, 100>>, sentinel_count   |-> <<0, 5>>,
           credential_count     |-> <<0, 20>>,   real_agent_count |-> <<0, 20>>,
           detector_sensitivity |-> <<0, 100>>,  p_same         |-> <<0, 100>>]
NumberKey == DOMAIN BOUNDS

DEFAULT_CONFIG ==
    [number |-> [node_count |-> 60, sentinel_count |-> 0, credential_count |-> 0,
                 real_agent_count |-> 0, detector_sensitivity |-> 20, p_same |-> 15],
     model_provider |-> "mock", defense_enabled |-> TRUE,
     active_scenarios |-> {"propagation", "prompt_injection"}]

PRESETS ==
    [baseline |-> DEFAULT_CONFIG,
     undefended |->
       [DEFAULT_CONFIG EXCEPT !.defense_enabled = FALSE, !.number.credential_count = 4,
                              !.number.sentinel_count = 2, !.active_scenarios = {"propagation"}],
     securityPlane |->
       [DEFAULT_CONFIG EXCEPT !.number.credential_count = 4, !.number.sentinel_count = 2,
          !.active_scenarios =
             {"propagation", "sentinel_compromise", "attestation", "byzantine_collusion"}],
     adaptive |->
       [DEFAULT_CONFIG EXCEPT !.number.node_count = 80, !.number.detector_sensitivity = 50,
                              !.number.credential_count = 5, !.number.sentinel_count = 3,
                              !.active_scenarios = {"adaptive_attacker"}]]

clamp(value, lo, hi) == IF value < lo THEN lo ELSE IF value > hi THEN hi ELSE value

----------------------------------------------------------------------------
(* What the form shows *)

Uses(s) == s \in draft.active_scenarios

needsSentinels ==
    (Uses("sentinel_compromise") \/ Uses("attestation")) /\ draft.number.sentinel_count = 0
needsCredentials == Uses("byzantine_collusion") /\ draft.number.credential_count = 0
needsRealAgents  == Uses("prompt_injection") /\ draft.number.real_agent_count = 0
warnsOfVllm ==
    /\ Uses("prompt_injection")
    /\ draft.number.real_agent_count > 0 /\ draft.model_provider = "vllm"

Banner == [sentinels |-> needsSentinels, credentials |-> needsCredentials,
           agents |-> needsRealAgents, vllm |-> warnsOfVllm]
Warnings == {w \in DOMAIN Banner : Banner[w]}

\* The fields a scenario brings with it are not there without it; the transmission
\* rates need one of the five scenarios that bring fields, propagation not among them.
Shown(key) ==
    /\ key = "real_agent_count" => Uses("prompt_injection")
    /\ key = "p_same" => ~Uses("adaptive_attacker") /\ draft.active_scenarios \ {"propagation"} # {}

\* A field the defense posture or the agent count makes meaningless is disabled.
Enabled(key) == key = "detector_sensitivity" => draft.defense_enabled

----------------------------------------------------------------------------
(* The form's operations *)

\* useState runs the initialisers when the configurator is mounted.
Mount(config) == draft' = config /\ presetId' = "baseline"

FormInit ==
    /\ draft = DEFAULT_CONFIG /\ presetId = "baseline" /\ open = TRUE
    /\ configuring = FALSE /\ active = Null /\ startable = TRUE
    /\ launching = Null /\ refused = Null /\ edits = 0

Edit(config) ==
    /\ open /\ startable /\ edits < MaxEdits
    /\ edits' = edits + 1
    /\ draft' = config /\ presetId' = Null
    /\ UNCHANGED <<open, configuring, active, startable, launching, refused>>

\* Variant: the field's own text is taken, as if the browser enforced its range.
setNumberUnchecked(key, value) ==
    Edit([draft EXCEPT !.number[key] = value])

setNumber(key, value) ==
    Edit([draft EXCEPT !.number[key] = clamp(value, BOUNDS[key][1], BOUNDS[key][2])])

\* An empty field reads as Number("") = 0, which Inputs contains.
NumberField(key) == Shown(key) /\ Enabled(key) /\ \E v \in Inputs : setNumber(key, v)

\* The provider can only be chosen where there are agents to serve.
SelectField ==
    /\ Uses("prompt_injection") /\ draft.number.real_agent_count # 0
    /\ \E provider \in {"mock", "vllm"} : Edit([draft EXCEPT !.model_provider = provider])

ToggleField == Edit([draft EXCEPT !.defense_enabled = ~@])

toggleScenario(s) ==
    Edit([draft EXCEPT !.active_scenarios =
            IF s \in @ THEN @ \ {s} ELSE (@ \ exclusiveWith[s]) \cup {s}])

ChipMultiSelect == \E s \in Scenario : toggleScenario(s)

ChoosePreset(p) ==
    /\ open /\ startable /\ edits < MaxEdits
    /\ edits' = edits + 1
    /\ draft' = PRESETS[p] /\ presetId' = p
    /\ UNCHANGED <<open, configuring, active, startable, launching, refused>>

\* OverviewPage: "New assessment" shows or hides the form beside a run.
ToggleConfiguring ==
    /\ active # Null /\ (startable \/ configuring)
    /\ configuring' = ~configuring /\ open' = ~configuring
    /\ IF open' THEN Mount(active) ELSE UNCHANGED <<draft, presetId>>
    /\ UNCHANGED <<active, startable, launching, refused, edits>>

\* onSubmit: the toggle closes; without a run the form stays where it is.
Submit ==
    /\ open /\ startable /\ launching = Null
    /\ launching' = draft /\ startable' = FALSE
    /\ configuring' = FALSE /\ open' = (active = Null)
    /\ refused' = Null
    /\ UNCHANGED <<draft, presetId, active, edits>>

----------------------------------------------------------------------------
(* The backend's answer, and the life of the run *)

\* Field(ge=..., le=...) and the fail-fast check of create_experiment, on a
\* backend without VLLM_BASE_URL.
Valid(config) == \A key \in NumberKey :
    config.number[key] \in BOUNDS[key][1]..BOUNDS[key][2]
LacksModel(config) == config.number.real_agent_count > 0 /\ config.model_provider = "vllm"

\* The pages are keyed by the run: with a new one they are mounted anew, and the
\* overview does not show the form.
LaunchSucceeds ==
    /\ launching # Null /\ Valid(launching) /\ ~LacksModel(launching)
    /\ active' = launching /\ launching' = Null
    /\ configuring' = FALSE /\ open' = FALSE
    /\ UNCHANGED <<draft, presetId, startable, refused, edits>>

\* start_failed: the error is shown and the form can be used again.
LaunchRefused ==
    /\ launching # Null /\ (~Valid(launching) \/ LacksModel(launching))
    /\ launching' = Null /\ startable' = TRUE
    /\ refused' = IF launching = draft /\ Shown("real_agent_count") THEN Warnings ELSE Null
    /\ UNCHANGED <<draft, presetId, open, configuring, active, edits>>

\* The run ends, or it is reset, running or not: run again with its own configuration.
RunEnds ==
    /\ active # Null /\ launching = Null /\ ~startable /\ startable' = TRUE
    /\ UNCHANGED <<draft, presetId, open, configuring, active, launching, refused, edits>>

Rerun ==
    /\ active # Null /\ launching = Null
    /\ startable' = FALSE /\ launching' = active
    /\ UNCHANGED <<draft, presetId, open, configuring, active, refused, edits>>

FormNext ==
    \/ \E key \in NumberKey : NumberField(key)
    \/ SelectField \/ ToggleField \/ ChipMultiSelect
    \/ \E p \in DOMAIN PRESETS : ChoosePreset(p)
    \/ ToggleConfiguring \/ Submit \/ Rerun
    \/ LaunchSucceeds \/ LaunchRefused \/ RunEnds

FormSpec == FormInit /\ [][FormNext]_formVars

----------------------------------------------------------------------------
(* Properties *)

\* Selecting a scenario that owns the tick increment deselects its counterpart
\* "rather than letting the backend silently double-tick"
\* (RunConfigurator.tsx:58-60), through any sequence of presets, toggles, re-runs
\* and forms opened on the configuration of an earlier run.
OneTickOwner ==
    \A config \in {draft, launching, active} \ {Null} :
       ~({"propagation", "adaptive_attacker"} \subseteq config.active_scenarios)

\* The inputs mirror the backend's bounds (RunConfigurator.tsx:397-398): no launch
\* is refused for a value out of range, and an assessment that ran can run again.
\* What is left to refuse is announced while its fields are on screen: "without it
\* the launch fails with a 400" (RunConfigurator.tsx:344-345).
LaunchIsForeseen ==
    /\ launching # Null => Valid(launching)
    /\ active # Null => Valid(active) /\ ~LacksModel(active)
    /\ refused # Null => "vllm" \in refused
============================================================================
