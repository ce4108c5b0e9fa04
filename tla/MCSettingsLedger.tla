--------------------------- MODULE MCSettingsLedger ---------------------------
(* SettingsLedger with a request that sets one of two controls. *)
EXTENDS SettingsLedger

Settings(model, mode) == [fp |-> "f", eff |-> [model |-> model, mode |-> mode]]

ModelRequest == {[fp |-> "f", want |-> [model |-> 2]]}

\* As it was; as requested; with a control changed that was not to be.
Readings == {Settings(1, 1), Settings(2, 1), Settings(2, 2)}
=============================================================================
