---------------------------- MODULE MCThermostat ----------------------------
(* Values for the constants of Thermostat. *)
EXTENDS Thermostat

Mode == "mode"
Cool == "cool_sp"

TwoFields == {Mode, Cool}
OneField  == {Mode}

Set(z, f, v) == [zone |-> z, content |-> [Empty EXCEPT ![f] = v]]

\* One zone's mode changes its mind, its set point is changed, another zone's too.
TwoZones == {Set(0, Mode, 1), Set(0, Mode, 2), Set(0, Cool, 1), Set(1, Mode, 1)}
OneZone  == {Set(0, Mode, 1), Set(0, Mode, 2)}

NoFaults == {}
AllFaults == {"refused", "unreachable", "slow", "dropped", "rejected", "silent",
              "mismatch"}
=============================================================================
