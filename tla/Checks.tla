-------------------------------- MODULE Checks --------------------------------
(* A validator of the code is a list of checks; it returns the first that fails. *)
EXTENDS Sequences, FiniteSetsExt

Fails(outcome) == outcome # "ok"

\* The first of the checks, in the order of the code, that fails.
FirstFailure(checks) ==
    IF \A i \in DOMAIN checks : checks[i] = "ok" THEN "ok"
    ELSE checks[Min({i \in DOMAIN checks : Fails(checks[i])})]

Check(holds, code) == IF holds THEN "ok" ELSE code
===============================================================================
