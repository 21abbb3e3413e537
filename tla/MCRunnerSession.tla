-------------------------- MODULE MCRunnerSession --------------------------
(***************************************************************************)
(* Instances of RunnerSession for TLC: two plugins, of which the           *)
(* configuration may disable one, the white list may exclude the other and *)
(* one does not match the query, and a third that cannot be instantiated.  *)
(***************************************************************************)
EXTENDS RunnerSession

CONSTANTS files, apps, web

MCNameOf == [p \in Plugins |-> IF p = files THEN "Files" ELSE IF p = apps THEN "Applications" ELSE "Web"]
MCRejects == {<<files, "a">>}
MCEnabledSets == {{files, apps, web}, {apps, web}}
MCPlaces == [p \in Plugins |-> IF p = files THEN {1, 2} ELSE {1}]
MCWhiteLists == {{}, {files}}
=============================================================================
