------------------------------ MODULE MCOutbreak ------------------------------
(* Outbreak over four agents: a triangle with a tail. *)
EXTENDS Outbreak

FourAgents == 1..4
Triangle   == {{1, 2}, {1, 3}, {2, 3}, {3, 4}}
FirstHolds == [c \in Credential |-> 2]
AThird     == <<1, 3>>

Configuration(scenarios, real, framing) ==
    [active_scenarios |-> scenarios, real_agents |-> real, false_quarantine |-> framing]

Plain     == Configuration(<<"propagation">>, {}, FALSE)
Byzantine == Configuration(<<"propagation", "sentinel_compromise", "byzantine_collusion">>, {}, FALSE)
Adaptive  == Configuration(<<"adaptive_attacker">>, {}, TRUE)
Injected  == Configuration(<<"propagation", "prompt_injection">>, {1, 3}, TRUE)
InjectedPlane ==
    Configuration(<<"propagation", "sentinel_compromise", "prompt_injection">>, {1, 3}, FALSE)

\* real_agent_step resets the security plane: plane_forgotten shows it.
SoundConfigs == {Plain, Byzantine, Adaptive, Injected}
JustPlain    == {Plain}
JustPlane    == {InjectedPlane}
==============================================================================
