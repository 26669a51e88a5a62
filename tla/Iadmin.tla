------------------------------- MODULE Iadmin -------------------------------
(***************************************************************************)
(* iadmin's commands, by the way a failure of theirs is reported           *)
(* (iadmin.cpp, doCommand).  A kind of command stands for all those        *)
(* handled alike; what they change on the server is not told apart.        *)
(***************************************************************************)
EXTENDS CommandLoop

\* Mutant: generalAdmin only returns the status.
GeneralAdminReturns(ok) == Call(ok) /\ Unrecorded(ok)

\* generalAdmin: one call, its status recorded.
GeneralAdmin(ok) == Call(ok) /\ Recorded(ok)

\* mkuser, aua, suq, mkresc, rmuser, ...: whatever came of it, the return
\* value is 0.  (lt resc_type is done this way too.)
Change ==
    /\ pc = "command" /\ cmd = "change"
    /\ \E ok \in BOOLEAN : GeneralAdmin(ok)
    /\ Return(0)
    /\ UNCHANGED <<loopVars, cmd>>

\* atg and rfg: a permission failure is recorded, then the call is made in
\* another form, whose status is not.
Group ==
    /\ cmd = "group"
    /\ \/ /\ pc = "command"
          /\ \/ \E ok \in BOOLEAN : GeneralAdmin(ok) /\ Return(0)
             \/ /\ connected
                /\ Record(FALSE)
                /\ failed' = TRUE
                /\ pc' = "user"
                /\ UNCHANGED <<ret, exit, connected, refused>>
       \/ /\ pc = "user"
          /\ \E ok \in BOOLEAN : Call(ok) /\ Unrecorded(ok)
          /\ Return(0)
    /\ UNCHANGED <<loopVars, cmd>>

\* Mutant: rum reports that there was nothing to remove as an error.
RemoveUnusedAsError ==
    /\ pc = "command" /\ cmd = "rum"
    /\ \E answer \in {"removed", "nothing to remove", "error"} :
         /\ Call(answer # "error")
         /\ Record(answer = "removed")
         /\ Failing(answer # "error")
         /\ UNCHANGED refused
    /\ Return(0)
    /\ UNCHANGED <<loopVars, cmd>>

\* rum: CAT_SUCCESS_BUT_WITH_NO_INFO counts as success.
RemoveUnused ==
    /\ pc = "command" /\ cmd = "rum"
    /\ \E answer \in {"removed", "nothing to remove", "error"} :
         GeneralAdmin(answer # "error")
    /\ Return(0)
    /\ UNCHANGED <<loopVars, cmd>>

\* asq, rsq, set_delay_server, remove_session_tokens: the status is recorded
\* and returned.
SpecificQuery ==
    /\ pc = "command" /\ cmd = "query"
    /\ \E ok \in BOOLEAN :
         GeneralAdmin(ok) /\ Return(IF ok THEN 0 ELSE Error)
    /\ UNCHANGED <<loopVars, cmd>>

\* -2 for a failure, nothing recorded.
InvalidUnless(ok) ==
    Call(ok) /\ Unrecorded(ok) /\ Return(IF ok THEN 0 ELSE -2)

\* modrepl: a failed call, a bad option and an exception are alike.
ModifyReplica ==
    /\ pc = "command" /\ cmd = "modrepl"
    /\ \E ok \in BOOLEAN : InvalidUnless(ok)
    /\ UNCHANGED <<loopVars, cmd>>

\* get_ and set_grid_configuration, each with a check of the user's type.
GridConfig ==
    /\ pc = "command" /\ cmd = "gridconfig"
    /\ \E ok \in BOOLEAN : InvalidUnless(ok)
    /\ UNCHANGED <<loopVars, cmd>>

\* get_delay_server_info returns 1 if one of its calls fails.
DelayServerInfo ==
    /\ pc = "command" /\ cmd = "delayinfo"
    /\ \E ok \in BOOLEAN :
         Call(ok) /\ Failing(ok) /\ Return(IF ok THEN 0 ELSE 1)
    /\ UNCHANGED <<loopVars, cmd, lastCommandStatus, refused>>

\* lu and lua return the error of a name that does not parse.
ListByName ==
    /\ pc = "command" /\ cmd = "byname"
    /\ \/ \E ok \in BOOLEAN : Call(ok) /\ Failing(ok) /\ Return(0)
       \/ failed' = TRUE /\ Return(Error) /\ UNCHANGED connected
    /\ UNCHANGED <<loopVars, cmd, lastCommandStatus, refused>>

\* The other listings catch and print what goes wrong, and return 0.
List ==
    /\ pc = "command" /\ cmd = "list"
    /\ \E ok \in BOOLEAN : Call(ok) /\ Failing(ok) /\ Return(0)
    /\ UNCHANGED <<loopVars, cmd, lastCommandStatus, refused>>

\* moduser password: not with no-scramble on an old server, and with the
\* administrator's own password, from .irodsA or else asked for.
Password ==
    /\ pc = "command" /\ cmd = "password"
    /\ \/ /\ Unrecorded(FALSE)
          /\ Return(0)
       \/ /\ pc' \in {"general", "prompt"}
          /\ UNCHANGED <<ret, exit, lastCommandStatus, history>>
    /\ UNCHANGED <<loopVars, cmd, connected>>

\* modrescdatapaths, modresc name and modzone name ask for a confirmation.
Confirmed ==
    /\ pc = "command" /\ cmd = "confirmed"
    /\ pc' = "prompt"
    /\ UNCHANGED <<loopVars, cmd, ret, exit, lastCommandStatus, connected, history>>

\* Mutant: the answer is read together with the line after it.
AnswerAhead ==
    /\ pc = "prompt"
    /\ \E line \in {"end of input", "yes", "other"} :
         /\ line # "end of input" => lines < MaxLines
         /\ lines' = IF line = "end of input" THEN lines ELSE lines + 2
         /\ IF cmd = "password" \/ line = "yes"
            THEN pc' = "general" /\ UNCHANGED <<ret, exit>>
            ELSE Return(0)
    /\ UNCHANGED <<tool, given, keepGoing, firstTime, cmd, lastCommandStatus,
                   connected, history>>

\* The answer is the next line of the standard input: in a script, the line
\* after the command.
Answer ==
    /\ pc = "prompt"
    /\ \E line \in {"end of input", "yes", "other"} :
         /\ line # "end of input" => lines < MaxLines
         /\ lines' = IF line = "end of input" THEN lines ELSE lines + 1
         /\ IF cmd = "password" \/ line = "yes"
            THEN pc' = "general" /\ UNCHANGED <<ret, exit>>
            ELSE Return(0)
    /\ UNCHANGED <<tool, given, keepGoing, firstTime, cmd, lastCommandStatus,
                   connected, history>>

AfterAnswer ==
    /\ pc = "general"
    /\ \E ok \in BOOLEAN : GeneralAdmin(ok)
    /\ Return(0)
    /\ UNCHANGED <<loopVars, cmd>>

IadminSteps ==
    \/ Change \/ Group \/ RemoveUnused \/ SpecificQuery
    \/ ModifyReplica \/ GridConfig \/ DelayServerInfo \/ ListByName \/ List
    \/ Password \/ Confirmed \/ Answer \/ AfterAnswer
=============================================================================
