--------------------------- MODULE SessionState ---------------------------
(***************************************************************************)
(* The state the session commands of one iRODS user share: the files under *)
(* ~/.irods on the client host, the account and the collections on the     *)
(* server, and the program each shell is running.  The commands themselves *)
(* are modules Ipasswd, Moduser, Iinit, Icd and Iexit; module Session      *)
(* composes them.                                                          *)
(***************************************************************************)
EXTENDS Naturals

CONSTANTS
    Shells,         \* terminal sessions; each runs one command at a time
    SessionFiles,   \* irods_environment.json.PID (or .cwd) files
    SessionFileOf,  \* the session file of each shell (icd.cpp, usage)
    EnvVarShells,   \* shells whose environment variables give host, user...
    Collections,    \* collections that may exist on the server
    Home,           \* the home collection, what an absent session file means
    ShortPasswords, \* passwords the client pads before it sends them
    LongPasswords,  \* passwords too long to be padded
    Garbled,        \* a password nobody typed
    Temporary,      \* a password the server issued for a limited time
    NoFile,         \* the file does not exist
    Empty,          \* the file was truncated and not yet (or never) written
    Broken,         \* the file holds bytes that do not parse
    Commands        \* the commands the shells may run in this instance

Passwords == ShortPasswords \union LongPasswords

ASSUME SessionAssumption ==
    /\ SessionFileOf \in [Shells -> SessionFiles]
    /\ EnvVarShells \subseteq Shells
    /\ Home \in Collections
    /\ ShortPasswords \intersect LongPasswords = {}
    /\ Garbled \notin Passwords
    /\ Temporary \notin Passwords \union {Garbled}
    /\ NoFile \notin Passwords \union {Garbled, Temporary, Empty, Broken}
    /\ Empty # Broken
    /\ Collections \intersect {NoFile, Empty, Broken} = {}
    /\ Commands \subseteq {"ipasswd", "iinit", "icd", "ipwd", "iexit", "iadmin"}

VARIABLES
    session,    \* contents of each session file
    linked,     \* shells that have the session file open that is on disk
    authFile,   \* contents of .irodsA
    token,      \* the session token file: "absent" or "present"
    serverPw,   \* the account's password in the catalog
    colls,      \* the collections that exist
    pc,         \* where the program of each shell is; "idle" at the prompt
    exit,       \* exit status of each shell's last command, 0 while one runs
    disturbed   \* history: shells with an ipasswd or iadmin in whose work
                \* somebody else wrote .irodsA or changed the account, or
                \* that iadmin itself changed the account

files  == <<session, linked, authFile, token>>
server == <<serverPw, colls>>

---------------------------------------------------------------------------
(* The pieces every command uses *)

Start(s, cmd, first) ==
    /\ cmd \in Commands
    /\ pc[s] = "idle"
    /\ pc' = [pc EXCEPT ![s] = first]
    /\ exit' = [exit EXCEPT ![s] = 0]

Goto(s, label) ==
    /\ pc' = [pc EXCEPT ![s] = label]
    /\ UNCHANGED exit

Exit(s, code) ==
    /\ pc' = [pc EXCEPT ![s] = "idle"]
    /\ exit' = [exit EXCEPT ![s] = code]

\* An ipasswd has saved the password it was given, or an iadmin has
\* authenticated, and it is not yet at the end of its work.
InWindow(s) ==
    pc[s] \in {"pw_auth", "pw_new", "pw_again", "pw_encode", "pw_admin", "pw_savenew",
               "ad_command", "ad_send"}

\* A change of .irodsA or of the account is seen by every other one;
\* the window of the one that makes it is between its two writes.
DisturbOthers(s) ==
    disturbed' = {t \in Shells : IF t = s
                                 THEN t \in disturbed /\ pc[t] \notin {"pw_save", "pw_savenew"}
                                 ELSE t \in disturbed \/ InWindow(t)}

\* obfSavePw and obfRmPw of shell s.
WriteAuthFile(s, content) ==
    /\ authFile' = content
    /\ DisturbOthers(s)

\* unlink of shell s's session file: whoever has it open keeps the old one.
UnlinkSession(s) ==
    /\ session' = [session EXCEPT ![SessionFileOf[s]] = NoFile]
    /\ linked' = {t \in linked : SessionFileOf[t] # SessionFileOf[s]}

\* Native authentication reads .irodsA, or asks for a password if there is
\* none.  It can succeed only with the account's password or with a temporary
\* one that is still valid.
NativeAuthCanSucceed ==
    authFile \in {serverPw, Temporary} \/ (authFile = NoFile /\ serverPw \in Passwords)

\* Another scheme asks for a password too and records what the server returns:
\* a session token, or (PAM) a temporary password in .irodsA.
RecordCredential(s) ==
    \/ /\ token' = "present"
       /\ UNCHANGED <<authFile, disturbed>>
    \/ /\ WriteAuthFile(s, Temporary)
       /\ UNCHANGED token

\* The working collection getRodsEnv finds: without a readable session file
\* it is the home collection.
Cwd(f) == IF session[f] \in Collections THEN session[f] ELSE Home
===========================================================================
