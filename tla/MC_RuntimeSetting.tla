------------------------- MODULE MC_RuntimeSetting -------------------------
(* Small instance of RuntimeSetting for TLC. *)
EXTENDS RuntimeSetting

\* A pre-gain below 1 (attenuation), 1, and a gain above 90 dB.
MC_FloatArgs == {0, 2, 95}

\* A negative compression gain / volume and an in-range one.
MC_IntArgs == {-1, 20}
=============================================================================
