------------------------------- MODULE Iexit -------------------------------
(***************************************************************************)
(* iexit: remove the session file, then .irodsA, then on request the       *)
(* session token file (iexit.cpp, main).                                   *)
(***************************************************************************)
EXTENDS SessionState

VARIABLE withToken   \* shells whose iexit has --remove-session-token-file

\* The session file goes first.  A service account (or one whose status is
\* unknown) keeps its credentials unless -f is given.
ExStart(s) ==
    /\ "iexit" \in Commands
    /\ pc[s] = "idle"
    /\ UnlinkSession(s)
    /\ \E serviceAccount, force, remove \in BOOLEAN :
         IF serviceAccount /\ ~force
         THEN Exit(s, 0) /\ UNCHANGED withToken
         ELSE /\ pc' = [pc EXCEPT ![s] = "ex_auth"]
              /\ withToken' = IF remove THEN withToken \union {s} ELSE withToken
              /\ exit' = [exit EXCEPT ![s] = 0]
    /\ UNCHANGED <<authFile, token, server, disturbed>>

\* Mutant: the credentials are emptied instead of removed.
ExEmptyAuth(s) ==
    /\ pc[s] = "ex_auth"
    /\ WriteAuthFile(s, Empty)
    /\ IF s \in withToken THEN Goto(s, "ex_token") ELSE Exit(s, 0)
    /\ UNCHANGED <<session, linked, token, server, withToken>>

\* obfRmPw; its result is ignored (with -v the user may also say no).
ExRemoveAuth(s) ==
    /\ pc[s] = "ex_auth"
    /\ \/ WriteAuthFile(s, NoFile)
       \/ UNCHANGED <<authFile, disturbed>>
    /\ IF s \in withToken THEN Goto(s, "ex_token") ELSE Exit(s, 0)
    /\ UNCHANGED <<session, linked, token, server, withToken>>

ExRemoveToken(s) ==
    /\ pc[s] = "ex_token"
    /\ token' \in {"absent", token}
    /\ withToken' = withToken \ {s}
    /\ Exit(s, 0)
    /\ UNCHANGED <<session, linked, authFile, server, disturbed>>

ExSteps(s) == ExRemoveAuth(s) \/ ExRemoveToken(s)
============================================================================
