---------------------------- MODULE BridgeConfig ----------------------------
(***************************************************************************)
(* The configuration of the bridge (load_bridge_config(), config.cpp): its *)
(* lists of specs, the sizes the YAML declares, and the settings of the    *)
(* control loop.  Times are counted in units of which Second make one; a   *)
(* period is cut to whole units as duration_cast<nanoseconds> does.        *)
(***************************************************************************)
EXTENDS TermParser

CONSTANT Second

ASSUME SecondAssumption == Second \in Nat \ {0}

ActionSpecs(config) == ValueOr(config.parameters, "action_terms", <<>>)
ObservationSpecs(config) == ValueOr(config.parameters, "observation_terms", <<>>)
ActionSize(config) == Len(ActionSpecs(config))

\* A size may be declared, but then it has to be this one.
DeclaredOk(config, name, size) ==
    IntegerOk(config.parameters, name) /\ IntegerOr(config.parameters, name, size) = size

\* The action terms: one output and one index for each, the indices in order.
ActionTermsOk(config) ==
    LET specs == ActionSpecs(config)
    IN  /\ StringsOk(config.parameters, "action_terms") /\ specs # <<>>
        /\ \A i \in DOMAIN specs : ActionTermOk(specs[i]) /\ ActionTerm(specs[i]).index = i - 1
        /\ \A i, j \in DOMAIN specs : Value(specs[i], "output") = Value(specs[j], "output") => i = j
        /\ DeclaredOk(config, "rl_action_size", Len(specs))

HistoryLength(config) == IntegerOr(config.parameters, "history_length", 1)
HistoryLengthOk(config) == IntegerOk(config.parameters, "history_length") /\ HistoryLength(config) \in 1..64

----------------------------------------------------------------------------
(* Rates are in Hertz and at most Second.                                  *)

PolicyRate(config) == ValueOr(config.parameters, "policy_rate", 50)
HistoryRate(config) == ValueOr(config.parameters, "history_rate", PolicyRate(config))

PubPeriod(config) == Second \div PolicyRate(config)
HistoryPeriod(config) ==
    IF HistoryRate(config) = PolicyRate(config) THEN 0 ELSE Second \div HistoryRate(config)
MaxActionAge(config) == ValueOr(config.parameters, "max_action_age", (2 * Second) \div PolicyRate(config))

\* Seeded fault: frames may be sampled more often than they are published.
HistoryRateAny(config) == HistoryRate(config) > 0
HistoryRateOk(config) == HistoryRate(config) > 0 /\ HistoryRate(config) <= PolicyRate(config)

InvalidMode(config) == ValueOr(config.parameters, "invalid_value", "nan")

RlBase(config) == ValueOr(config.parameters, "rl_base", "/rl")

\* The enable, reset and flat-hold inputs, "" for none.
ControlPaths(config) ==
    <<ValueOr(config.parameters, "enable_interface", RlBase(config) \o "/enable"),
      ValueOr(config.parameters, "reset_interface", ""),
      ValueOr(config.parameters, "flat_hold_interface", "")>>

SettingsOk(config) ==
    /\ \A name \in {"policy_rate", "history_rate", "max_action_age"} : NumberOk(config.parameters, name)
    /\ PolicyRate(config) > 0 /\ HistoryRateOk(config) /\ MaxActionAge(config) > 0
    /\ \A name \in {"rl_base", "invalid_value", "enable_interface", "reset_interface", "flat_hold_interface"} :
        StringOk(config.parameters, name)
    /\ InvalidMode(config) \in {"nan", "zero", "hold"}
    /\ BoolOk(config.parameters, "enable_default")
=============================================================================
