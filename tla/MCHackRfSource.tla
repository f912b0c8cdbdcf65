--------------------------- MODULE MCHackRfSource ---------------------------
(* Two control threads against the capture thread and the radio. *)
EXTENDS HackRfSource

CONSTANTS c1, c2

(* Every gain at its largest value, and only the amplifier. *)
MCGainChoices == {[k \in GainKnobs |-> 1], [k \in GainKnobs |-> IF k = "amp" THEN 1 ELSE 0]}

MCPayloads == SUBSET Settings
=============================================================================
