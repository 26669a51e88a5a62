----------------------------- MODULE MCSession -----------------------------
(***************************************************************************)
(* Instances of Session for TLC: up to three shells, a and b sharing the   *)
(* session file (IRODS_ENVIRONMENT_FILE), c with a file of its own.        *)
(***************************************************************************)
EXTENDS Session, TLC

CONSTANTS a, b, c, shared, own

MCSessionFileOf == [s \in Shells |-> IF s = c THEN own ELSE shared]

MCSymmetry == Permutations(Shells \ {c})

\* What the steps of icd, ipwd and iexit depend on: not on the exit statuses
\* of earlier commands.
MCCwdView == <<files, server, pc, disturbed, cdVars, exVars>>

\* What the steps of ipasswd, iadmin, iinit and iexit depend on: not on the
\* exit statuses of earlier commands, nor on what overlapped records.
MCPasswordView == <<files, server, pc, disturbed, pwVars, envFile, myEnv,
                    update, merged, exVars, otherPw>>

\* What the steps of ipasswd, iinit and iexit and the properties of the files
\* depend on: not on the exit statuses of earlier commands, nor on what they
\* left in disturbed (a native ipasswd leaves it when it saves its password).
MCFilesView == <<files, server, pc, {s \in disturbed : InWindow(s)}, pwVars, iiVars, exVars>>

IinitRuns(s) ==
    pc[s] \in {"ii_prompt", "ii_read", "ii_open", "ii_write", "ii_reload", "ii_connect", "ii_auth"}

\* Two iinit run at a time only while nobody is logged in: up to its login no
\* iinit looks at .irodsA or the token.
MCIinitsBeforeLogin ==
    authFile # NoFile \/ token = "present" =>
        \A s, t \in Shells : IinitRuns(s) /\ IinitRuns(t) => s = t
============================================================================
