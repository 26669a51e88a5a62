# Verification of the iRODS iCommands

This directory holds TLA+ models of the command-line clients of iRODS
(`src/src/*.cpp`, about 17,800 lines), the TLC runs that check them on small
instances, and theorems about them checked by TLAPS. Source files are named
without their directory: `ipasswd.cpp` is `src/src/ipasswd.cpp`.

## 1. The system

Some fifty small programs share one host directory, `~/.irods`, and one server.
Each runs to its end without threads; what makes them hard is between the
programs and between their steps: files that several terminals read and rewrite
without a lock, a server that may carry out a request and lose the answer,
results that come in pages, and interruptions at any call.

| part | state it keeps | operations | hard behaviour | what makes it correct |
|---|---|---|---|---|
| ipasswd | `.irodsA`, the account's password on the server | save the current password, authenticate, ask for the new one, encode it with what `.irodsA` holds, change it, save it | two places to change, other terminals in between, lost answers, unpadded passwords | `.irodsA` and the account agree unless something interfered; nothing ruins the account's password without a named cause |
| iinit | `irods_environment.json`, `.irodsA`, the token file | prompt for missing settings, read, merge, truncate, write, reload, authenticate | unlocked read-modify-write, environment variables that hide missing settings, temporary passwords (`--ttl`, PAM) that are not the account's | no setting is lost, the required ones end up in the file |
| icd, ipwd | the session file of the terminal | check the collection, truncate and write; show it; remove it | terminals sharing a session file, collections that vanish, kills between truncation and write | the working collection is home or one that was found on the server |
| iexit | session file, `.irodsA`, token file | remove each in turn | ignored failures, service accounts, logins in progress elsewhere | what it removed comes back only through a login |
| istream | a replica, standard input and output | open, seek, stream in buffers, close | short reads, failing writes, late delivery, several writers, offsets and counts at the limits | bytes arrive in order and in place; the exit status tells whether all that were counted did |
| iadmin, iticket, igroupadmin | the exit status to be, the words of the current line | one command from the arguments or a loop over lines | which failures reach the exit status; quotes, blanks and the sizes of two arrays in `getInput` | the exit status tells of a failure; the words are those that were typed |
| iqdel, iqmod, iqstat | the server's queue of delayed rules | delete by id or by query page, modify, list | deleting what is being paged through, rules that run or change hands meanwhile, several ids with one status | only what was asked for is removed, and success means that it is gone |
| imeta | attributes of objects | add, remove, modify, set, copy, list | labelled arguments in any order, paged listings | what the user labelled is what is sent |
| iquest, iquery, iquota, iuserinfo, ilsresc | the resources drawn so far (ilsresc) | paged queries | a full last page, errors on a later page, prompts between pages, parents named before they are listed | every row, and a status that tells if some are missing |
| irule | a rule file, perhaps a copy of one from the server | parse sections or lines, substitute arguments, prompt, submit | arguments by position, by label and by prompt, over lists on several lines | what is submitted is what the file and the arguments say; nothing is left behind |
| iput, iget, icp, irepl, irm, irsync, ichmod, itouch, isysmeta and a dozen more | none of their own | options, environment, connection, login, one library call or one for each path | which failures reach the exit status, requests of several paths, `i:` prefixes of irsync | the exit status tells of a failure, and how far the request got |
| ils, ips, ienv, ierror, ihelp and other displays | none | the same phases, then print | anonymous users | as above |
| itree, iapitest, rulegen, userspace packager, scripts | | | | not modelled, section 6 |

Programs interact only through the files and the server: ipasswd, iadmin,
iinit and iexit through `.irodsA`; iinit and everybody through the environment file; icd,
ipwd and iexit through the session file; several istream through the replica;
iqdel, iqmod and iqstat through the queue. `getRodsEnv`, `obfSavePw`,
`obfGetPw`, `rcConnect`, `authenticate_client`, `rcUserAdmin`, `putUtil` and its
kin, and the `dstream` classes belong to libraries outside this repository; they
are modelled from how the programs use them.

## 2. The modules

### Session commands

`SessionState` declares what the commands share; `Ipasswd`, `Iinit`, `Icd` and
`Iexit` extend it with the locals and the steps of one program each; `Moduser`
adds iadmin's `moduser NAME password`, which changes an account the way ipasswd
does (of the loop and of the other commands of iadmin, see below); `Session`
puts them together: any number of shells, each running one program at a time,
kills at any point, an administrator who sets the password, collections that
come and go. `MCSession` gives it small instances.

A shell's `pc` names the next system call or question of its program, so an
action is what happens between two points at which another process can be
seen. `exit` is the status of the last command.

- `session`, `authFile`, `token`, `envFile` are the contents of the files. A
  file that was truncated and not written is `Empty`, one that does not parse
  `Broken`. `linked` distinguishes a session file that was unlinked while an
  icd had it open: what that icd writes is lost.
- `serverPw` is the account's password; `Garbled` is one nobody typed. Passwords
  are split into those the client pads (`ShortPasswords`) and those too long
  for it (`LongPasswords`), the one thing about them the server can notice:
  decoding with the wrong key destroys the padding.
- `Temporary` is a password the server issued for a limited time. It works for
  a login, but it is not the account's: a new password encoded with it is
  encoded with the wrong key. It gets into `.irodsA` through `iinit --ttl` and
  through the schemes that record what the server made (PAM); `RecordCredential`
  is what ipasswd and iinit keep after a login with such a scheme: the token, or
  `.irodsA`.
- `disturbed` and `overlapped` are history variables: which ipasswd or iadmin had
  `.irodsA` or the account changed under it since it saved the password it was
  given or, for iadmin, logged in (an iadmin may do that to itself), which iinit had the environment file rewritten under it.
- `otherPw` is the password of another user's account, which only iadmin changes.
- Library calls that can fail may always fail. `rcUserAdmin` may also succeed
  and have its answer lost. Authentication with the native scheme can succeed
  only with the account's password or a temporary one.
- iinit's dozen settings are three: `required` (host, port, user, zone, asked for
  only when missing), `scheme` and `tls`.

`WorkingCollection` is the abstract specification of what icd, ipwd and iexit
keep: a working collection per session that is home or was looked up and found.
`Session` implements it with the refinement mapping of `WC`.

### istream

`Istream` models processes that read or write one replica. The bytes are data
that matter here: `content` is the replica, `moved` what a process has read and
handed to its other stream, `stored` how much of that has been delivered, which
may be as late as the close. `size` is what the catalog says. A turn of the
loops of `stream_bytes` is an action (`Turn`); each read may get part of what
there is and fail, each write may deliver some and fail. Opening for writing
truncates, keeps or appends. `InAfter` is the state of the in stream after a
read: when the standard input comes up short, `std::istream::read` leaves it at
its end, whether it ended or failed, and the code cannot tell the two apart.
`before`, `meddled` and `cut` are history: what the replica held when a process
opened it, who had it changed since, and whose input failed before its end.

### The administration shells

iadmin, iticket and igroupadmin are one loop around three `doCommand`.
`CommandLoop` holds the loop, the exit status and what their commands have in
common; `Iadmin`, `Iticket` and `Igroupadmin` hold one `doCommand` each;
`AdminShell` is one run of any of them. A command is represented by its kind:
commands whose failure takes the same way into the exit status are one kind
(the commands of iadmin, some fifty, are eleven kinds). `cmd` stands for the
words, `ret` for what `doCommand` returned, `lastCommandStatus` for the variable
of that name. A call is carried out, refused, or finds the connection broken,
after which no call succeeds. `refused` and `failed` are history: the kinds of
changes that were asked for in vain since a success was recorded, and whether
anything ever failed. Two undefined behaviours of the code are choices here:
igroupadmin `lg` reading a pointer that was never set may crash, and iticket
reading the row count of a failed page does.

### The queue of delayed rules

`RuleQueue` models shells that run iqdel, iqmod or iqstat, each from its command
line (`line`) to its exit, while the server queues rules, executes them and
removes them. `queue` says for each rule whose it is, or that it is not queued
yet (`Unborn`) or any more (`Gone`); an id is used once. A query fixes its rows
when it is sent (`wanted`) and hands them out in pages of `PageSize` (`page`,
`more`): what a row says may be old when it is used. iqmod may give a rule to
another user. `told` is what the exit status of an iqdel speaks of: all that was
found, or the last id given. `failed` and `handed` are history: which iqstat had a
page fail, which rules were given away after an iqdel had found them.

`QueueService` is the abstract specification of a deletion: a request names
rules as they are at one moment, only these are removed, and a success is
answered only when none of those it answers for is queued. `RuleQueue`
implements it with the mapping of `Q`.

### One connection, one request

Most programs are a sequence of phases: options, environment, path resolution,
connection, login, the request, the exit, each phase with an exit status of its
own. `ClientPhases` holds the phases before the request and the state of one
run; a program is then a tuple of phases read off its `main`, for instance
`<<Options(1), Check(1), Connect(2), Login(7), ...>>`.

- `OneCall` has the programs whose request is one library call, or one for each
  path (ichmod, isysmeta mod). The library carries the request out for some of
  the paths (`done`) and reports failures (`failed`); irsync's decision which
  side is local is made here, from `written` to `paths`.
- `Listings` has those that show query results: iquest, ilsresc, `imeta ls`,
  `isysmeta ls` and `ldt`, iuserinfo, iquota. `total`, `printed` and `more` are the
  rows of the query at hand. A full last page leaves the query open, and the
  next answer is "no rows". What each program makes of each answer is a set of
  exit statuses in its own action. For ilsresc `parents` and `shown` are the
  resources and those it has drawn.
- `Imeta` has the changing commands, and the sorting of the labelled arguments
  of `mod` (`given`, `sent`).
- `Clients` is one run of any of these. `trouble` is history: what went wrong or
  was not found.

### From text to commands

- `GetInput` models `getInput` of the three shells character by character, with
  the buffer, the array of words, the two kinds of quotes and the overrun of
  either size as the code has them. A character is a letter, a blank, one of two
  quotes or the newline.
- `Irule` models irule: the three ways a rule is given (a file of the new syntax,
  one of the old syntax, the command line), a file of the new syntax line by
  line through its sections, one of the old one through its three lines, inputs
  replaced by position, by label (the code compares prefixes) or by prompting,
  the copy of a file that came from the server, the connection, all exits. A
  value is where it comes from (`origin`, which argument, the file or the user)
  and how often it was quoted.
- `Input` is one run of either.

Options that only select a message, the choice of the replica (`-R`, `-n`), `-h`
and the layout of the output are left out of all modules.

## 3. The runs

| run | question | instance |
|---|---|---|
| MCPassword | is the key in hand the account's password, what ruins the account's password | 2 shells, ipasswd, iadmin, iinit and iexit, a padded, an unpadded and temporary passwords, native scheme, 1 try |
| MCCwd | does the session file implement the working collection, does an icd that succeeds store its collection | 3 shells, two of them sharing a session file, 2 collections |
| MCLoginFiles | does the environment file keep its settings, what brings `.irodsA` back once it is removed | 2 shells, one with environment variables, iinit, iexit and ipasswd, native scheme and PAM, 1 password, 1 try |
| MCTermination | do the session commands end | 1 shell, ipasswd, iinit, icd and iexit, fairness |
| MCIstreamOne | is the data intact, does the status tell, does it end | 1 process, contents of 0 to 4 bytes or none, offsets -1 to 2, counts -1 to 4 and all, buffer of 2 |
| MCIstreamTwo | and with two processes at once | 2 processes, buffer of 1 |
| MCIstreamOffset | does a read from an offset to the end succeed | violated, section 4 |
| MCAdminShell | what do the exit statuses 0 and 4 tell, is one command one command, does the loop end | each of the three programs, a command or up to 3 lines |
| MCRuleQueue | does iqdel implement the queue service, whose rules does it remove, does iqstat list all, do the programs end | 2 shells with 5 and 4 command lines, 3 rules, 2 users, pages of 2 rows |
| MCRuleQueueBoth | are `-a` and `-u` refused together | violated, section 4 |
| MCClients | what may a caller conclude from the exit status of the single-request programs; are listings whole; are labelled arguments sorted; is nothing asked before the login | every program, up to 3 paths, up to 6 rows or 4 resources, pages of 3 rows |
| MCInput | are the words and the inputs of a rule those that were given; does irule leave nothing behind | inputs `*a` and `*ab`, up to 2 inputs, 4 lines, 2 arguments; lines of up to 6 characters, a buffer of 7, 2 words |

**Bounds.** Two shells are enough for the session commands: each property is
about one program and what some other one does meanwhile, and the files have
one content whoever wrote it; MCCwd takes a third shell, with a session file of
its own. `MaxTries` is 3 in MCTermination as in the code; where the number of tries does not
matter it is less. A padded password, an unpadded one and a temporary one give a
right and a wrong key for a new password of each kind; MCLoginFiles asks only who
writes, for which one password will do. In it two iinit run at once only while
nobody is logged in (`MCIinitsBeforeLogin`): up to its login, which ends it, an iinit
looks neither at `.irodsA` nor at the token. With a buffer of 2 the counts -1 to 4
are on both sides of zero, of one buffer and of two, and the offsets reach
beyond the end of the smaller contents. The bytes of a replica and of an input
are all different, so a byte out of place shows.

With three lines a failure, a success that hides it and a third command or
answer fit into one run of the loop; what a command does depends on nothing
earlier but `firstTime`, `lastCommandStatus` and the connection.

Three rules and pages of two give a full page, a rest and a rule that comes or
goes in between. Six rows and pages of three give no page, a part of one, exactly
one, one and a rest, and exactly two; four resources are a page and one more, so
a parent may be on an earlier page, a later one or the same. `Statuses` has a
status that is a multiple of 256 and the one that means "no rows".

`BufferSize` 7 holds a line of five characters and its newline; a line of six
leaves its newline to the next call. Two words are exceeded by the same lines. Labels `*a` and `*ab` are the shortest of
which one begins the other, on which the comparison of prefixes turns.

**Symmetry and views.** MCPassword and MCCwd permute what is interchangeable.
`MCPasswordView` leaves out the exit statuses of earlier commands and what
`overlapped` records, on which no step of the run depends; `MCFilesView` leaves out
the former, and what `disturbed` records of a program outside its window, which a
native ipasswd leaves when it saves the password it was given.
`MCCwdView` leaves out variables icd, ipwd and iexit do not read.

**Fairness.** `FairSpec` assumes that a running program takes its next step:
library calls return, with success or failure, and the user answers a question
that is asked (or closes the terminal). Nothing is assumed of the user typing
another command (nor of an iadmin's user ever leaving it, so it is not in
MCTermination; MCAdminShell shows that its loop ends with its input), of kills, of
the administrator, of other users or of the
server's executing rules. ipasswd's loop ends because it counts, istream's and
the shells' because their input does, iqdel's and iqstat's because the result of
a query is finite and a page that cannot be deleted is not asked for again.
`Clients` and `Input` state no fairness: a run of them is a walk along phases
that are counted.

**Deadlock.** The session runs check it (a prompt always accepts a command). The
other programs end and do not start again, so their runs do not.

## 4. What the runs found

- `MCIstreamOffset`: `istream read -o N` without `-c` delivers everything from the
  offset to the end and then fails with status 1, because the count of a read
  is the smaller of the replica's size and `--count`, not reduced by the offset
  (`istream.cpp:321`).
- `MCRuleQueueBoth`: `iqdel -a -u USER` is not refused ("The -a and -u options
  cannot be used together", `iqdel.cpp:196`): main passes no user name when `-a`
  is given, so the test never sees both, and the rules of all users go.

Seen while modelling, without a run of their own:

- `istream write` without `-c` whose standard input fails ends with status 0 and
  part of the input in the replica. The loop ends at the first short read, and
  `in.eof()` (`istream.cpp:225`) holds after a failed one too, for `std::istream::read`
  sets eofbit on both; "Error: Failed to read all bytes." (226) and its status 1
  are not reached. With `-c` the count is short and the status 1. `ExitTellsCount`
  and `WrittenAsAsked` except this case by name (`cut`).
- `irule -s -F FILE` quotes the values the file gives (`irule.cpp:722`, 731), while
  the usage says "string mode does not affect input parameter values in rule
  files" (`irule.cpp:813`). `QuotedOnce` is about the other values and names this.
- After `moduser` of the user's own password an iadmin encodes the next one with the
  old password, which `.irodsA` still holds: a short one is refused, a long one
  becomes a password nobody typed. After `iinit --ttl`, or with what PAM left in
  `.irodsA`, an iadmin does the same without any interference: its login works and
  its key is wrong. `GarbledHasCause` names these cases; a native ipasswd, which
  saves the password it is given before it logs in, is not exposed to the second.
- ipasswd says "Saved password, but failed to connect to server"
  (`ipasswd.cpp:91`) at a point where nothing has been saved.
- `ExitTells` of the shells is as strong as the code allows; its operator `Untold`
  names the commands whose failure never reaches the exit status, among them
  `moduser ... no-scramble` on a server without the feature, which according to
  its comment (`iadmin.cpp:1232`) is to "exit with an error". A refused change of
  the grid configuration is told only on the command line, not in the loop
  (`iadmin.cpp:1684`). quit does not always "exit with zero" (`iadmin.cpp:1886`):
  after an earlier failure the status is 4.
- `Untold` of `Clients` names the programs that end with 0 whatever became of the
  request: irmdir, isysmeta mod, iclienthints, izonereport, and iscan, whose
  status is the library's modulo 256.
- A row count is read through a pointer that is null (iticket, imeta) or was never
  set (igroupadmin) when a query fails. The models let them crash there.
- ilsresc decides page by page whether parents are names or ids; with more
  resources than a page holds, a zone before 4.2 loses some. `TreeWhole` says
  when the tree is whole.
- iquest's `upper` overwrites `no-distinct` (`iquest.cpp:166`); `isysmeta mod`
  changes all replicas where its comment says replica 0 (`isysmeta.cpp:294`).
- irule: a list of inputs on a second line takes the positional arguments from
  the first one again; a labelled argument replaces an input whose name it
  begins; with `-s` a default that is kept at the prompt is not quoted; a file of
  the old syntax without its third line is sent; some failures leave the copy
  of the file or the connection behind. `ValuesAsGiven`, `InputsAsWritten` and
  `NothingLeft` name these cases as their exceptions.

## 5. What is proved

All theorems hold for every value of the constants that satisfies the named
assumptions (`SessionAssumption`, `IpasswdAssumption`, `IinitAssumption`,
`IstreamAssumption`, `InputAssumption`, `CommandLoopAssumption`, `RuleQueueAssumption`,
`PathsAssumption`, `RowsAssumption`, `RuleAssumption`, `BufferAssumption`), which say
that distinct things are distinct, that sizes are numbers, that a status that
tells a failure is negative, that the ids in question are finitely many, that
the name of an input is not empty, and (`InputAssumption`) that nobody pipes more bytes
into istream than a signed 64-bit integer counts.

- `SessionProofs!TypeCorrect`: `TypeOK` of the composed session commands. It is
  inductive as it stands, thanks to its conjunct that a new password was
  entered before the points that use it.
- `SessionProofs!CredentialsSafe`: `CredentialsAgree`, the password ipasswd
  encodes with is the account's and the one it saves is the account's; the key
  of an iadmin is the account's or a temporary one. The
  induction goes over each writer of `.irodsA` and of the account: it either is
  the shell itself, or marks the shell as disturbed; an iadmin that changes the
  user's own account marks itself.
- `SessionProofs!GarbledCauses`: the action property `GarbledHasCause`, a
  consequence of the invariant: an undisturbed native ipasswd has the right key,
  an undisturbed native iadmin that or a temporary one, and with a wrong one
  the server refuses a padded password. MCPassword has the native
  scheme only; the theorems hold for any set of schemes.
- `SharedFilesProofs!RequiredAsked` and `SettingsWritten`: `RequiredComplete` and
  `SettingsKept`. The invariant (`EnvInv`) ties the copy an iinit works with to the
  file it has read and to what it asked for; whoever rewrites the file marks the
  others as overlapped.
- `SharedFilesProofs!RestoredByLogin`: `RestoredOnlyByLogin`. The invariant
  (`KeyInv`) says that an undisturbed ipasswd that has encoded its new password took
  the key from `.irodsA`, and that it is still there; one case for each writer,
  the login of ipasswd and iinit with a scheme that writes `.irodsA` among them.
- `SharedFilesProofs!IcdSuccess`: `IcdStores`, a success of icd in a session file of
  its own.
- `SharedFilesProofs!SessionImplementsWorkingCollection`: the refinement.
  The invariant needed is that every collection in a session file, and the
  target of every icd that is past its check, is in `verified`; each step then
  maps to a lookup, a change, a server step or a stutter.
- `IstreamProofs!TypeCorrect`: `TypeOK` of istream. Its invariant adds what makes
  it inductive: a process reads and writes only after it opened an existing
  replica and checked that its offset is not negative.
- `IstreamDataProofs!DataUndamaged`: `Undamaged`. It rests on two lemmas about
  sequences of any length: a piece and the bytes after it are a piece
  (`PartExtends`), and two deliveries in a row are as good as one (`SpliceTwice`).
  The invariant adds that an undisturbed reader's replica is still as it was when
  it was opened, and that nothing is known before a process opens it.
- `IstreamDataProofs!CountKept`: `ExitTellsCount`. The invariant (`CountInv`, proved
  in `IstreamProofs`) is the accounting of the loops: full buffers still to read, the
  remainder and what was read never add up to more than the count. That a write
  without `--count` has read all of an input that did not fail is part of `AskedInv`.
- `IstreamDataProofs!WrittenInPlace`: `WrittenAsAsked`, from three invariants: the bytes
  are in place (`DataInv`), as many as were counted (`CountInv`), and those are the ones
  asked for (`AskedInv`: a writer's count is its `--count`, and where it found the end
  of an input that did not fail it has read all of it). Here `InputAssumption` is used: of a longer input
  the default count would be a piece only.
- `AdminShellProofs!TypeCorrect`: `TypeOK`, for any number of lines.
- `AdminShellProofs!OneCommandOnly`: `ReadsNoCommand`. The invariant says that
  until the first command is over `firstTime` holds and the command is the one of
  the command line, and that only iadmin, which is not interactive then, returns
  other statuses than those that end the loop.
- `AdminShellProofs!ExitStatusTells`, `FourTells`: `ExitTells` and
  `FourAfterFailure`. The invariant (`StatusInv`) says at each point of the loop
  which refusals `lastCommandStatus` still tells of; between the return of -2 and
  the loop's look at it, and between the two calls of atg, the two disagree.
- `RuleQueueProofs!TypeCorrect`, `ListsAllAlways`, `RemovesOwn`: `TypeOK`, `ListsAll`
  and `OthersOnlyIfHanded`, for every page size and number of shells, rules and
  users. The invariant (`Inv`) divides the result of a query into what was dealt
  with, the page at hand and what is still to come, and says of each what the
  queue may have become meanwhile.
- `RuleQueueProofs!ImplementsQueueService`: the refinement. The first step of an
  iqdel with ids, the query of one with `-a` or `-u`, maps to `Ask`, each deletion to `Remove`, the end to `Answer`; that
  a success answers for nothing that is queued is the part of the invariant about
  rules dealt with: `Gone` is for ever.
- `ClientsProofs`: every property of `Clients`, for any number of paths, rows and
  resources, every page size and every set of failure statuses: `TypeCorrect`,
  `StatusZeroIsSuccess`, `RefusedMeansUntouched`, `FirstFailureStops`, `LoginFirst`,
  `SyncPrefixes`, `StatusHasReason`, `ListingsComplete` and `ModReordered`. The proof
  has three parts. First, every program is `WellOrdered`: its phases come in the
  order local checks, connection, login, late checks, work, each with exit
  statuses that `Fits` what the properties need (a failed call of a program that
  is not in `Untold` gives no multiple of 256, and so on); this is the only part
  that looks at the single programs, and what the properties except is visible
  there as a condition on the program. Second, the invariant (`IInv`) says for a
  program in a phase of some kind what is connected, done and known: nothing
  before the work; for ichmod the first n paths; for a query the rows read so
  far, and that a page that is not followed by another was the last. Third, each
  step keeps it, and each step to an exit gives the properties. For the tree of
  ilsresc the invariant (`Hierarchy`) is that each parent is given by id or by
  name, and all by id once the first page had all resources; from it `DrawTree`
  shows everything `Below` the roots. For imeta mod, `Reordered` says what the
  sorted arguments are for up to four of them in any order.
- `InputProofs`: every property of `Input`, whatever the number of inputs, lines,
  arguments and characters: `InputTypes`, `RuleInputsAsWritten`, `RuleValuesAsGiven`,
  `RuleNothingLeft` and `CommandWords`. The invariant has a half for each program.
  That of irule (`RuleInv`) says that the inputs already added and those to come
  are together the ones written (`PendingInv`), what is quoted (`QuotedInv`) and,
  at each step, what is connected and copied (`ConnectionInv`). What the arguments
  make of a list is a fact about `Taken`, which goes from argument to argument:
  `TakenInv` says after k of them that labels and places are kept, and which
  argument the value of each input is from. That of getInput (`LineInv`) says that
  the buffer is a piece of the line, that the words so far are pieces of the
  buffer one behind the other (`PiecesInv`, with the place each begins at), that
  there are no more of them than blanks and quotes before the scan (`CountInv`), and,
  for every way of dividing the line at blanks into typed words (`TypedLine`), how
  many of them are taken and where in the next the scan is (`WordsInv`), so that the
  words of a line of any length come back one by one. The two statements about all prefixes of a list are proved by their
  least counterexample.

Only model-checked: the liveness properties `Terminates` and `ProgramsEnd`, which are
out of the prover's reach, and the two violations of section 4, which TLC finds.

## 6. Not modelled

- itree draws recursively what ils fetches; iapitest is a test program.
- rulegen translates rules from one language to another, with a generated
  parser; the userspace packager and the scripts build packages and wrap
  commands. None of them keeps a state or runs concurrently with anything.
- Of imeta: the query functions that nothing calls (`imeta.cpp`, lines 651 to 926).
- Of iadmin and iticket: what the commands change on the server (but for the
  passwords), and what the rows of a listing hold.
- Of all programs: the layout of what is printed, and the resolution of paths.

## 7. Plan

What is left: an abstract specification of `stream_bytes` (a transfer of a given
piece) that `Istream` implements, and iadmin's other commands by what they change
on the server.
