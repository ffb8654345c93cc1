--------------------------- MODULE MCStatusRelay ---------------------------
(* One light and one tank that have the same instance number. *)
EXTENDS StatusRelay

OneLight == <<1>>
OneTank == <<1>>
OnOff == {0, 200}
SeeLevel == {<<19, 28>>}

=============================================================================
