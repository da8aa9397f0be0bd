---------------------------- MODULE MCExecution ----------------------------
(* Instances of the session model: two sessions, one after the other, with  *)
(* up to two targets, and one session of one target.                        *)
EXTENDS Execution

MCTargets == 0..1
MCTarget == {0}
MCMaxTargets == <<1, 2>>
MCOneTarget == <<1>>
MCLevels == {"UNSUPPORTED", "LOGICAL_DELETE", "DEVICE_PURGE"}
=============================================================================
