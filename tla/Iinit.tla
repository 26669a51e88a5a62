------------------------------- MODULE Iinit -------------------------------
(***************************************************************************)
(* iinit: complete the client environment file from the user's answers and *)
(* authenticate, recording the credentials (iinit.cpp).  The environment   *)
(* file is read at the start (getRodsEnv), read again, merged with the     *)
(* answers and rewritten through a truncation, without a lock.             *)
(***************************************************************************)
EXTENDS SessionState

CONSTANTS
    Unset,      \* a setting the file does not have
    Schemes,    \* authentication schemes in use
    TlsValues   \* what --with-ssl may set

\* "required" stands for host, port, user and zone, which iinit asks for
\* only if they are missing; an empty answer is stored and still missing.
Settings == {"required", "scheme", "tls"}

ValuesOf(k) ==
    CASE k = "required" -> {"blank", "given"}
      [] k = "scheme"   -> Schemes
      [] k = "tls"      -> TlsValues

AnyValue == {Unset, "blank", "given"} \union Schemes \union TlsValues

Env == {env \in [Settings -> AnyValue] :
          \A k \in Settings : env[k] \in ValuesOf(k) \union {Unset}}

NoSettings == [k \in Settings |-> Unset]

ASSUME IinitAssumption ==
    /\ {NoFile, Empty, Broken} \intersect Env = {}
    /\ Unset \notin {"blank", "given"} \union Schemes \union TlsValues

VARIABLES
    envFile,     \* contents of irods_environment.json
    myEnv,       \* the settings each shell's iinit works with
    update,      \* those among them the user was asked for
    merged,      \* what is to be written to the file
    overlapped   \* history: shells with an iinit since whose start another
                 \* one wrote the environment file

iiVars == <<envFile, myEnv, update, merged, overlapped>>

IiType ==
    /\ envFile \in Env \union {NoFile, Empty, Broken}
    /\ myEnv \in [Shells -> Env]
    /\ update \in [Shells -> Env]
    /\ merged \in [Shells -> Env]
    /\ overlapped \in SUBSET Shells

IiInit ==
    /\ envFile = NoFile
    /\ myEnv = [s \in Shells |-> NoSettings]
    /\ update = [s \in Shells |-> NoSettings]
    /\ merged = [s \in Shells |-> NoSettings]
    /\ overlapped = {}

\* Mutant: what does not parse is taken as it is.
ContentsUnparsed == envFile

\* A file that does not exist or does not parse gives no setting.
Contents == IF envFile \in Env THEN envFile ELSE NoSettings

\* getRodsEnv falls back to the native scheme.
NativeScheme(env) == env["scheme"] \in {Unset, "native"}

Merge(old, new) ==
    [k \in Settings |-> IF new[k] = Unset THEN old[k] ELSE new[k]]

InEnvWindow(s) == pc[s] \in {"ii_prompt", "ii_read", "ii_open", "ii_write"}

WriteEnvFile(s, content) ==
    /\ envFile' = content
    /\ overlapped' = {t \in Shells : IF t = s
                          THEN t \in overlapped /\ pc[t] # "ii_write"
                          ELSE t \in overlapped \/ InEnvWindow(t)}

\* The process is gone, and its locals with it.
IiForget(s) ==
    /\ myEnv' = [myEnv EXCEPT ![s] = NoSettings]
    /\ update' = [update EXCEPT ![s] = NoSettings]
    /\ merged' = [merged EXCEPT ![s] = NoSettings]

IiExit(s, code) == Exit(s, code) /\ IiForget(s)

IiStay == UNCHANGED <<files, server, disturbed>>

\* getRodsEnv.
IiStart(s) ==
    /\ Start(s, "iinit", "ii_prompt")
    /\ myEnv' = [myEnv EXCEPT ![s] = Contents]
    /\ overlapped' = overlapped \ {s}
    /\ UNCHANGED <<envFile, update, merged>>
    /\ IiStay

\* Mutant: a file that exists is taken to be complete.
MissingWithoutFile(s) == envFile = NoFile /\ s \notin EnvVarShells

\* Required settings are asked for if neither the file nor the shell's
\* environment variables give them.
Missing(s) == myEnv[s]["required"] # "given" /\ s \notin EnvVarShells

\* configure_required_settings, configure_auth_scheme (--prompt-auth-scheme)
\* and configure_tls (--with-ssl).  An unusable option or ~/.irods ends it.
IiPrompt(s) ==
    /\ pc[s] = "ii_prompt"
    /\ \/ /\ \E new \in Env :
               /\ Missing(s) <=> new["required"] # Unset
               /\ update' = [update EXCEPT ![s] = new]
               /\ myEnv' = [myEnv EXCEPT ![s] = Merge(@, new)]
          /\ Goto(s, "ii_read")
          /\ UNCHANGED merged
       \/ IiExit(s, 1)
    /\ UNCHANGED <<envFile, overlapped>>
    /\ IiStay

\* Mutant: the answers replace the file instead of being merged into it.
IiReadNothing(s) ==
    /\ pc[s] = "ii_read"
    /\ merged' = [merged EXCEPT ![s] = update[s]]
    /\ Goto(s, "ii_open")
    /\ UNCHANGED <<envFile, myEnv, update, overlapped>>
    /\ IiStay

\* save_updates_to_irods_environment: parse what the file holds now, ...
IiRead(s) ==
    /\ pc[s] = "ii_read"
    /\ merged' = [merged EXCEPT ![s] = Merge(Contents, update[s])]
    /\ Goto(s, "ii_open")
    /\ UNCHANGED <<envFile, myEnv, update, overlapped>>
    /\ IiStay

\* ... truncate it (a failure is only printed), ...
IiOpen(s) ==
    /\ pc[s] = "ii_open"
    /\ \/ Goto(s, "ii_write") /\ WriteEnvFile(s, Empty)
       \/ Goto(s, "ii_reload") /\ UNCHANGED <<envFile, overlapped>>
    /\ UNCHANGED <<myEnv, update, merged>>
    /\ IiStay

\* ... and write the merged settings.  A failed write is not noticed, and
\* over the bytes of another iinit the result may not parse.
IiWrite(s) ==
    /\ pc[s] = "ii_write"
    /\ \/ WriteEnvFile(s, merged[s])
       \/ envFile # Empty /\ WriteEnvFile(s, Broken)
       \/ UNCHANGED <<envFile, overlapped>>
    /\ Goto(s, "ii_reload")
    /\ UNCHANGED <<myEnv, update, merged>>
    /\ IiStay

\* _reloadRodsEnv: iinit goes on with what the file holds by now, which may
\* be another iinit's.  A setting the file lacks is dropped or stays.
IiReload(s) ==
    /\ pc[s] = "ii_reload"
    /\ \E env \in {Contents, Merge(myEnv[s], Contents)} :
         myEnv' = [myEnv EXCEPT ![s] = env]
    /\ update' = [update EXCEPT ![s] = NoSettings]
    /\ merged' = [merged EXCEPT ![s] = NoSettings]
    /\ Goto(s, "ii_connect")
    /\ UNCHANGED <<envFile, overlapped>>
    /\ IiStay

IiConnect(s) ==
    /\ pc[s] = "ii_connect"
    /\ \/ Goto(s, "ii_auth") /\ UNCHANGED <<myEnv, update, merged>>
       \/ IiExit(s, 2)
    /\ UNCHANGED <<envFile, overlapped>>
    /\ IiStay

\* authenticate_client with record_auth_file and force_password_prompt: the
\* password the user types is recorded, with --ttl replaced by a temporary
\* one, or what the other scheme returns is.  What was typed may have been
\* recorded by a login that fails.
IiAuthenticate(s) ==
    /\ pc[s] = "ii_auth"
    /\ \/ /\ NativeScheme(myEnv[s])
          /\ \/ /\ serverPw \in Passwords
                /\ \E kept \in {serverPw, Temporary} : WriteAuthFile(s, kept)
                /\ IiExit(s, 0)
             \/ /\ \E typed \in Passwords : WriteAuthFile(s, typed)
                /\ IiExit(s, 7)
          /\ UNCHANGED token
       \/ /\ ~NativeScheme(myEnv[s])
          /\ RecordCredential(s)
          /\ IiExit(s, 0)
       \/ /\ IiExit(s, 7)
          /\ UNCHANGED <<authFile, token, disturbed>>
    /\ UNCHANGED <<session, linked, server, envFile, overlapped>>

IiSteps(s) ==
    \/ IiPrompt(s) \/ IiRead(s) \/ IiOpen(s) \/ IiWrite(s)
    \/ IiReload(s) \/ IiConnect(s) \/ IiAuthenticate(s)
=============================================================================
