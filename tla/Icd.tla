-------------------------------- MODULE Icd --------------------------------
(***************************************************************************)
(* icd and ipwd: change and show the working collection, which is kept in  *)
(* the session file (icd.cpp, ipwd.cpp).  icd asks the server whether the  *)
(* collection exists, and only then truncates and writes the file.         *)
(***************************************************************************)
EXTENDS SessionState

VARIABLES
    target,    \* the collection each shell's icd was asked for, or NoFile
    verified   \* history: collections some icd found on the server

CdExit(s, code) ==
    /\ Exit(s, code)
    /\ target' = [target EXCEPT ![s] = NoFile]

SessionNow(s) == session[SessionFileOf[s]]

SetSession(s, content) ==
    session' = [session EXCEPT ![SessionFileOf[s]] = content]

OnlyReads == UNCHANGED <<files, server, disturbed, verified>>

\* icd COLLECTION: the path, made absolute with the working collection.
CdStart(s) ==
    /\ Start(s, "icd", "cd_connect")
    /\ \E c \in Collections : target' = [target EXCEPT ![s] = c]
    /\ OnlyReads

\* icd without an argument removes the session file and is done.
CdHome(s) ==
    /\ "icd" \in Commands
    /\ pc[s] = "idle"
    /\ UnlinkSession(s)
    /\ exit' = [exit EXCEPT ![s] = 0]
    /\ UNCHANGED <<pc, target, authFile, token, server, disturbed, verified>>

CdConnect(s) ==
    /\ pc[s] = "cd_connect"
    /\ \/ Goto(s, "cd_auth") /\ UNCHANGED target
       \/ CdExit(s, 2)
    /\ OnlyReads

CdAuthenticate(s, isNative) ==
    /\ pc[s] = "cd_auth"
    /\ \/ /\ isNative => NativeAuthCanSucceed
          /\ Goto(s, "cd_check")
          /\ UNCHANGED target
       \/ CdExit(s, 7)
    /\ OnlyReads

\* Mutant: objState is not looked at.
CdCheckNothing(s) ==
    /\ pc[s] = "cd_check"
    /\ verified' = verified \union {target[s]}
    /\ Goto(s, "cd_open")
    /\ UNCHANGED <<target, files, server, disturbed>>

\* getRodsObjType: an error, no such collection, or one that exists now.
CdCheck(s) ==
    /\ pc[s] = "cd_check"
    /\ \/ /\ target[s] \in colls
          /\ verified' = verified \union {target[s]}
          /\ Goto(s, "cd_open")
          /\ UNCHANGED target
       \/ /\ CdExit(s, 4)
          /\ UNCHANGED verified
       \/ /\ target[s] \notin colls
          /\ CdExit(s, 3)
          /\ UNCHANGED verified
    /\ UNCHANGED <<files, server, disturbed>>

\* open with O_TRUNC ...
CdOpen(s) ==
    /\ pc[s] = "cd_open"
    /\ \/ /\ SetSession(s, Empty)
          /\ linked' = linked \union {s}
          /\ Goto(s, "cd_write")
          /\ UNCHANGED <<target, authFile, token>>
       \/ CdExit(s, 5) /\ UNCHANGED files
    /\ UNCHANGED <<server, disturbed, verified>>

\* Mutant: the result of write is not compared with the length.
CdWriteUnchecked(s) ==
    /\ pc[s] = "cd_write"
    /\ \E content \in {target[s], Broken} : SetSession(s, content)
    /\ CdExit(s, 0)
    /\ linked' = linked \ {s}
    /\ UNCHANGED <<authFile, token, server, disturbed, verified>>

\* ... and write, from offset 0.  Bytes written to a file that was unlinked
\* meanwhile are lost; over another icd's they may leave that one's tail; a
\* short write does not parse.
CdWrite(s) ==
    /\ pc[s] = "cd_write"
    /\ \/ /\ s \notin linked
          /\ CdExit(s, 0)
          /\ UNCHANGED session
       \/ /\ s \in linked
          /\ SetSession(s, target[s])
          /\ CdExit(s, 0)
       \/ /\ s \in linked /\ SessionNow(s) # Empty
          /\ SetSession(s, Broken)
          /\ CdExit(s, 0)
       \/ /\ \/ s \in linked /\ SetSession(s, Broken)
             \/ UNCHANGED session
          /\ CdExit(s, 6)
    /\ linked' = linked \ {s}
    /\ UNCHANGED <<authFile, token, server, disturbed, verified>>

\* ipwd prints the working collection, or fails on an unreadable file.
Ipwd(s) ==
    /\ "ipwd" \in Commands
    /\ pc[s] = "idle"
    /\ \E code \in IF SessionNow(s) \in {Empty, Broken} THEN {0, 2} ELSE {0} :
         exit' = [exit EXCEPT ![s] = code]
    /\ UNCHANGED <<pc, target>>
    /\ OnlyReads

CdSteps(s) ==
    CdConnect(s) \/ CdCheck(s) \/ CdOpen(s) \/ CdWrite(s)
============================================================================
