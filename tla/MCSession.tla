----------------------------- MODULE MCSession -----------------------------
(* Small instances of Session for TLC. *)
EXTENDS Session
\* A patient librarian, with and without restarts and lost answers, one who only
\* hurries, and one with everything but the habit of retyping.
PatientToHurried ==
    {{}, {"restarts", "loses"}, {"hurries"}, {"hurries", "restarts", "loses"}}
OnlyPatient == {{}}
============================================================================
