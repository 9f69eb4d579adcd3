------------------------- MODULE MCTriggerReconcile -------------------------
(* An instance of TriggerReconcile for TLC. *)
EXTENDS TriggerReconcile

CONSTANTS d1, d2

\* Two triggers that can be served and one that cannot.
MCDefinitions == {d1, d2}
MCOffers == <<{d1, d2}, {d1}, {d1}>>

\* The configuration file has the first, which the gateway may override.
MCLocal == <<d1, None, None>>
=============================================================================
