------------------------------ MODULE Session ------------------------------
(***************************************************************************)
(* The session commands together: several shells of one user run ipasswd,  *)
(* iinit, iadmin, icd, ipwd and iexit over the same files at once, any of  *)
(* them may be killed between two steps, and the server changes beneath    *)
(* them.                                                                   *)
(***************************************************************************)
EXTENDS Ipasswd, Moduser, Iinit, Icd, Iexit

cdVars == <<target, verified>>
exVars == withToken

vars == <<files, server, pc, exit, disturbed, pwVars, iiVars, cdVars, exVars, otherPw>>

Killed == 130

TypeOK ==
    /\ session \in [SessionFiles -> Collections \union {NoFile, Empty, Broken}]
    /\ linked \in SUBSET Shells
    /\ authFile \in Passwords \union {NoFile, Temporary}
    /\ token \in {"absent", "present"}
    /\ serverPw \in Passwords \union {Garbled}
    /\ otherPw \in Passwords \union {Garbled}
    /\ colls \in SUBSET Collections
    /\ pc \in [Shells -> {"idle",
          "pw_connect", "pw_save", "pw_auth", "pw_new", "pw_again", "pw_encode",
          "pw_admin", "pw_savenew",
          "ad_connect", "ad_auth", "ad_command", "ad_send",
          "ii_prompt", "ii_read", "ii_open", "ii_write", "ii_reload",
          "ii_connect", "ii_auth",
          "cd_connect", "cd_auth", "cd_check", "cd_open", "cd_write",
          "ex_auth", "ex_token"}]
    /\ exit \in [Shells -> {0, 1, 2, 3, 4, 5, 6, 7, 8, Killed}]
    /\ disturbed \in SUBSET Shells
    /\ target \in [Shells -> Collections \union {NoFile}]
    /\ verified \in SUBSET Collections
    /\ withToken \in SUBSET Shells
    /\ PwType
    /\ IiType

Init ==
    /\ session = [f \in SessionFiles |-> NoFile]
    /\ linked = {}
    /\ authFile = NoFile
    /\ token = "absent"
    /\ serverPw \in Passwords
    /\ colls = Collections
    /\ pc = [s \in Shells |-> "idle"]
    /\ exit = [s \in Shells |-> 0]
    /\ disturbed = {}
    /\ target = [s \in Shells |-> NoFile]
    /\ verified = {}
    /\ withToken = {}
    /\ PwInit
    /\ AdInit
    /\ IiInit

---------------------------------------------------------------------------

\* The steps of a running program.
Step(s) ==
    \/ PwSteps(s) /\ UNCHANGED <<iiVars, cdVars, exVars, otherPw>>
    \/ AdSteps(s) /\ UNCHANGED <<iiVars, cdVars, exVars>>
    \/ IiSteps(s) /\ UNCHANGED <<pwVars, cdVars, exVars, otherPw>>
    \/ (CdSteps(s) \/ CdAuthenticate(s, NativeScheme(Contents)))
         /\ UNCHANGED <<pwVars, iiVars, exVars, otherPw>>
    \/ ExSteps(s) /\ UNCHANGED <<pwVars, iiVars, cdVars, otherPw>>

\* The user types a command.
Type(s) ==
    \/ PwStart(s, NativeScheme(Contents)) /\ UNCHANGED <<iiVars, cdVars, exVars, otherPw>>
    \/ AdStart(s, NativeScheme(Contents)) /\ UNCHANGED <<iiVars, cdVars, exVars>>
    \/ IiStart(s) /\ UNCHANGED <<pwVars, cdVars, exVars, otherPw>>
    \/ (CdStart(s) \/ CdHome(s) \/ Ipwd(s))
         /\ UNCHANGED <<pwVars, iiVars, exVars, otherPw>>
    \/ ExStart(s) /\ UNCHANGED <<pwVars, iiVars, cdVars, otherPw>>

\* A program is interrupted; what it wrote stays.
Kill(s) ==
    /\ pc[s] # "idle"
    /\ Exit(s, Killed)
    /\ linked' = linked \ {s}
    /\ PwForget(s)
    /\ IiForget(s)
    /\ target' = [target EXCEPT ![s] = NoFile]
    /\ withToken' = withToken \ {s}
    /\ disturbed' = disturbed \ {s}
    /\ overlapped' = overlapped \ {s}
    /\ UNCHANGED <<session, authFile, token, server, envFile, verified, otherPw>>

\* iadmin moduser ... password, by an administrator elsewhere.
AdminSetsPassword ==
    /\ serverPw' \in Passwords
    /\ disturbed' = disturbed \union {t \in Shells : InWindow(t)}
    /\ UNCHANGED <<files, colls, pc, exit, pwVars, iiVars, cdVars, exVars, otherPw>>

\* Anybody creates and removes collections.
CollectionsChange ==
    /\ "icd" \in Commands
    /\ colls' \in SUBSET Collections
    /\ UNCHANGED <<files, serverPw, pc, exit, disturbed, pwVars, iiVars,
                   cdVars, exVars, otherPw>>

Next ==
    \/ \E s \in Shells : Step(s) \/ Type(s) \/ Kill(s)
    \/ AdminSetsPassword
    \/ CollectionsChange

Spec == Init /\ [][Next]_vars

\* A running program goes on; nobody has to type a command.
FairSpec == Spec /\ \A s \in Shells : WF_vars(Step(s))
---------------------------------------------------------------------------
(* Properties *)

\* What an ipasswd or iadmin knows of the account's password as it goes along.
HoldsThePassword(s) ==
    /\ pc[s] = "pw_auth" => authFile \in Passwords
    /\ pc[s] \in {"pw_new", "pw_again", "pw_encode"} => authFile \in {serverPw, NoFile}
    /\ pc[s] = "pw_admin" /\ ~Plain(s) => key[s] = serverPw
    /\ pc[s] = "pw_savenew" => serverPw = newPw[s]
    /\ pc[s] \in {"ad_command", "ad_send"} => authFile \in {serverPw, Temporary, NoFile}
    /\ pc[s] = "ad_send" /\ ~Plain(s) /\ "typed" \notin opts[s]
         => key[s] \in {serverPw, Temporary}

\* Unless another process wrote .irodsA or changed the account during its work,
\* a native ipasswd encodes the new password with the account's password, never
\* with a temporary one, and saves at the end the one the server now has.  A
\* native iadmin, which saves no password first, encodes with what it could
\* authenticate with: the account's password, or the temporary one that iinit
\* --ttl or PAM left in .irodsA.  (Both rely on .irodsA being the same in
\* authenticate_client and in obfGetPw, and do not lock it; an iadmin that
\* changes the user's own password interferes with itself.)
CredentialsAgree ==
    \A s \in Shells : IsNativePw(s) /\ s \notin disturbed => HoldsThePassword(s)

\* An ipasswd or iadmin about to send an unpadded password, encoded with a key
\* that nothing vouches for.
SendsUnchecked(s) ==
    /\ pc[s] \in {"pw_admin", "ad_send"}
    /\ newPw[s] \in LongPasswords
    /\ \/ s \in disturbed \/ ~IsNativePw(s)
       \/ pc[s] = "ad_send" /\ ("typed" \in opts[s] \/ key[s] = Temporary)

\* An account gets a password nobody typed only through an ipasswd or iadmin
\* that sends an unpadded password while another process interferes, or that
\* authenticated with another scheme than the one .irodsA belongs to, or
\* through an iadmin whose key is a temporary password (iinit --ttl) or one it
\* asked for.  A native ipasswd that nobody disturbs never garbles an account.
GarbledHasCause ==
    /\ [][serverPw' = Garbled => \E s \in Shells : SendsUnchecked(s)]_serverPw
    /\ [][otherPw' = Garbled => \E s \in Shells : SendsUnchecked(s)]_otherPw

\* Once .irodsA is removed (iexit), it is written again only by a command
\* that asks for the current password (iinit, ipasswd), or by an ipasswd that
\* was already at work when the file was removed, or that never needs the file
\* (--no-scramble).
RestoredOnlyByLogin ==
    [][authFile = NoFile =>
         \E s \in Shells : \/ pc[s] \in {"pw_save", "ii_auth"}
                           \/ pc[s] = "pw_auth" /\ ~IsNativePw(s)
                           \/ /\ pc[s] = "pw_savenew"
                              /\ s \in disturbed \/ Plain(s)]_authFile

\* An iinit that no other iinit overlaps stores exactly the settings it goes
\* on to work with: all the file had when it started, and the new answers
\* (save_updates_to_irods_environment reads the file again, merges and
\* rewrites the whole of it, then reloads it).
SettingsKept ==
    [][\A s \in Shells :
         /\ pc[s] = "ii_write" /\ pc'[s] # pc[s] /\ s \notin overlapped
         /\ envFile' \in Env
         => envFile' = myEnv[s]]_vars

\* The settings every command needs are written incomplete only if the user
\* left them blank, has them in environment variables, or runs two iinit at
\* the same time: what configure_required_settings asks for is exactly what
\* the file it merges with lacks.
RequiredComplete ==
    \A s \in Shells :
        /\ pc[s] \in {"ii_open", "ii_write"} /\ s \notin overlapped
        /\ s \notin EnvVarShells /\ update[s]["required"] # "blank"
        => merged[s]["required"] = "given"

\* In a session file that is not shared, an icd that succeeds has stored the
\* collection it was asked for ("Upon success, the current working
\* collection is stored", icd.cpp usage).
IcdStores ==
    [][\A s \in Shells :
         /\ pc[s] = "cd_write" /\ pc'[s] = "idle" /\ exit'[s] = 0
         /\ \A t \in Shells \ {s} : SessionFileOf[t] # SessionFileOf[s]
         => session'[SessionFileOf[s]] = target[s]]_vars

\* Through truncations, short and overlapping writes, unlinks and kills, the
\* working collection is home or a collection that was found on the server.
WC == INSTANCE WorkingCollection WITH
        Sessions <- SessionFiles,
        cwd      <- [f \in SessionFiles |-> Cwd(f)],
        known    <- verified

WorkingCollectionSpec == WC!Spec

\* A command that runs comes to its end: ipasswd's loop gives up.
Terminates == \A s \in Shells : pc[s] # "idle" ~> pc[s] = "idle"
============================================================================
