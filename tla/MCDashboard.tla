----------------------------- MODULE MCDashboard -----------------------------
(***************************************************************************)
(* Two report names, one circuit the library knows and one id the server   *)
(* refuses, two session secrets, a session of one tick.                    *)
(***************************************************************************)
EXTENDS Dashboard

CONSTANTS c1, bad

Report(id) == [id |-> id, whole |-> TRUE]
MCInitialDirs == {<<Report(c1), Report(c1)>>}

MCFirstConfig == [secret |-> 1, api |-> TRUE]
MCConfigs == {MCFirstConfig, [secret |-> 2, api |-> FALSE]}
=============================================================================
