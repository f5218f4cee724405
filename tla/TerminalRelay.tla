--------------------------- MODULE TerminalRelay ---------------------------
(***************************************************************************)
(* lab1a/lab1a.c: the terminal is put in raw mode; one loop polls keyboard *)
(* and shell, echoes what is typed and writes it to the shell through a    *)
(* pipe, and shows what the shell writes to a second pipe.  The program    *)
(* and the shell block on full pipes, the shell can end at any time, and   *)
(* the results of poll() are used after the keyboard has been served.      *)
(* poll() has no timeout, so it returns at once, with nothing to do or not.*)
(***************************************************************************)
EXTENDS ShellProcess

CONSTANTS
  Keys,         \* the keys, of "a", "CR", "^C" and "^D"
  TypedLength   \* bound: how many keys are typed

\* What the shell writes can be told from the echo of what is typed.
ASSUME KeysAssumption ==
  TypedLength \in Nat /\ (Keys \cup {"CR"}) \cap ShellBytes \subseteq {"EOT", "NL"}

VARIABLES
  program,       \* is --shell given
  typed,         \* all that will ever be typed
  untyped, keys, \* what is not typed yet, and what the terminal holds
  shell_status,  \* does main believe that the shell is there
  eof,           \* has ^D been read
  revents,       \* what poll() said last
  buff, outputbuff,     \* what was read and is not processed yet
  pc,            \* where main is in its loop
  display,       \* what the terminal shows
  reports,       \* the SHELL EXIT lines
  terminal,      \* "raw" or "normal"
  exit           \* Running, or the exit status of lab1a

keyVars == <<program, typed, untyped, keys>>
endVars == <<reports, terminal, exit>>
mainVars == <<shell_status, eof, revents, buff, outputbuff, pc, display>>
vars == <<shellVars, keyVars, mainVars, endVars>>

Init ==
  /\ ShellInit
  /\ program \in BOOLEAN
  /\ typed \in BoundedSeq(Keys, TypedLength)
  /\ untyped = typed /\ keys = <<>>
  /\ shell = IF program THEN "ready" ELSE "reaped"
  /\ shell_status = program
  /\ eof = FALSE
  /\ revents = [key |-> FALSE, shell |-> FALSE, hup |-> FALSE]
  /\ buff = <<>> /\ outputbuff = <<>>
  /\ pc = "poll"
  /\ display = <<>> /\ reports = <<>>
  /\ terminal = "raw"
  /\ exit = Running

-----------------------------------------------------------------------------
(* main. *)

\* reset(): the terminal is put back and the program ends.
Reset(code) == terminal' = "normal" /\ exit' = code

\* shell_status = 0; getShellExitStatus().  waitpid() does not wait: of a shell
\* that is not dead yet it reports 0, and of one already reaped it fails.
LoseShell ==
  /\ shell_status' = FALSE
  /\ IF shell = "reaped"
     THEN Reset(1) /\ UNCHANGED <<reports, shell>>
     ELSE /\ reports' = Append(reports, WaitResult)
          /\ Reap
          /\ UNCHANGED <<terminal, exit>>

\* if (shell_status == 1) ...
LoseShellIfThere ==
  IF shell_status THEN LoseShell ELSE UNCHANGED <<shell_status, shell, endVars>>

\* Mutant: what poll() once said is still taken to be true.
PollSticky ==
  /\ pc = "poll" /\ ~eof
  /\ revents' = [key |-> revents.key \/ keys # <<>>,
                 shell |-> revents.shell \/ fromShell # <<>>, hup |-> shell \in ShellGone]
  /\ pc' = "keyboard"
  /\ UNCHANGED <<shellVars, keyVars, endVars,
                 shell_status, eof, buff, outputbuff, display>>

Poll ==
  /\ pc = "poll" /\ ~eof
  /\ revents' = [key |-> keys # <<>>, shell |-> fromShell # <<>>, hup |-> shell \in ShellGone]
  /\ pc' = "keyboard"
  /\ UNCHANGED <<shellVars, keyVars, endVars,
                 shell_status, eof, buff, outputbuff, display>>

\* Mutant: more is read than buff[] holds.
ReadKeyboardPastEnd ==
  /\ pc = "keyboard"
  /\ IF revents.key
     THEN buff' = keys /\ keys' = <<>>
     ELSE UNCHANGED <<buff, keys>>
  /\ pc' = "keys"
  /\ UNCHANGED <<shellVars, program, typed, untyped, endVars,
                 shell_status, eof, revents, outputbuff, display>>

ReadKeyboard ==
  /\ pc = "keyboard"
  /\ IF revents.key
     THEN /\ buff' = FirstOf(keys, BuffSize)
          /\ keys' = RestOf(keys, BuffSize)
     ELSE UNCHANGED <<buff, keys>>
  /\ pc' = "keys"
  /\ UNCHANGED <<shellVars, program, typed, untyped, endVars,
                 shell_status, eof, revents, outputbuff, display>>

\* 0x04: the pipe is closed, the exit status reported, the other keys dropped.
HandleEof ==
  /\ pc = "keys" /\ buff # <<>> /\ Head(buff) = "^D"
  /\ eof' = TRUE
  /\ LoseShellIfThere
  /\ buff' = <<>>
  /\ UNCHANGED <<toShell, fromShell, status, received, written, keyVars,
                 revents, outputbuff, pc, display>>

\* 0x03: SIGINT to the shell, which may handle it.  A reaped one has no process.
HandleInterrupt ==
  /\ pc = "keys" /\ buff # <<>> /\ Head(buff) = "^C"
  /\ IF shell_status /\ shell = "reaped"
     THEN Reset(1) /\ UNCHANGED <<shell, status>>
     ELSE /\ IF shell_status THEN Interrupt ELSE UNCHANGED <<shell, status>>
          /\ UNCHANGED <<terminal, exit>>
  /\ buff' = Tail(buff)
  /\ UNCHANGED <<toShell, fromShell, received, written, keyVars, reports,
                 shell_status, eof, revents, outputbuff, pc, display>>

EchoKey ==
  /\ pc = "keys" /\ buff # <<>> /\ Head(buff) \notin {"^C", "^D"}
  /\ display' = display \o Shown(Head(buff))
  /\ IF shell_status
     THEN pc' = "forward" /\ UNCHANGED buff
     ELSE buff' = Tail(buff) /\ UNCHANGED pc
  /\ UNCHANGED <<shellVars, keyVars, endVars, shell_status, eof, revents, outputbuff>>

\* Mutant: the pipe does not block, and a byte for which there is no room is lost.
ForwardKeyNonblocking ==
  /\ pc = "forward"
  /\ toShell' = IF Len(toShell) < PipeSize THEN Append(toShell, Forwarded(Head(buff))) ELSE toShell
  /\ buff' = Tail(buff) /\ pc' = "keys"
  /\ UNCHANGED <<fromShell, shell, status, received, written, keyVars, endVars,
                 shell_status, eof, revents, outputbuff, display>>

\* write(parent_to_child[1], ...): waits for room; a pipe that nobody reads
\* means SIGPIPE, which is not handled.
ForwardKey ==
  /\ pc = "forward"
  /\ IF shell \in ShellGone
     THEN exit' = SigPipe /\ UNCHANGED <<toShell, buff, pc>>
     ELSE /\ Len(toShell) < PipeSize
          /\ toShell' = Append(toShell, Forwarded(Head(buff)))
          /\ buff' = Tail(buff) /\ pc' = "keys"
          /\ UNCHANGED exit
  /\ UNCHANGED <<fromShell, shell, status, received, written, keyVars, reports, terminal,
                 shell_status, eof, revents, outputbuff, display>>

\* The loop over the keys has ended.
KeysDone == pc = "keys" /\ buff = <<>>

ReadShell ==
  /\ KeysDone
  /\ IF shell_status /\ revents.shell
     THEN /\ outputbuff' = FirstOf(fromShell, BuffSize)
          /\ fromShell' = RestOf(fromShell, BuffSize)
     ELSE UNCHANGED <<outputbuff, fromShell>>
  /\ pc' = "show"
  /\ UNCHANGED <<toShell, shell, status, received, written, keyVars, endVars,
                 shell_status, eof, revents, buff, display>>

\* Mutant: what was read together with an EOT is dropped.
ShowByteBreaks ==
  /\ pc = "show" /\ outputbuff # <<>>
  /\ IF Head(outputbuff) = "EOT"
     THEN LoseShellIfThere /\ UNCHANGED display /\ outputbuff' = <<>>
     ELSE /\ display' = display \o Shown(Head(outputbuff))
          /\ outputbuff' = Tail(outputbuff)
          /\ UNCHANGED <<shell_status, shell, endVars>>
  /\ UNCHANGED <<toShell, fromShell, status, received, written, keyVars,
                 eof, revents, buff, pc>>

\* An EOT from the shell is taken for its end, but what follows is still shown.
ShowByte ==
  /\ pc = "show" /\ outputbuff # <<>>
  /\ IF Head(outputbuff) = "EOT"
     THEN LoseShellIfThere /\ UNCHANGED display
     ELSE /\ display' = display \o Shown(Head(outputbuff))
          /\ UNCHANGED <<shell_status, shell, endVars>>
  /\ outputbuff' = Tail(outputbuff)
  /\ UNCHANGED <<toShell, fromShell, status, received, written, keyVars,
                 eof, revents, buff, pc>>

\* Mutant: shell_status is not looked at.
CheckHangupAgain ==
  /\ pc = "show" /\ outputbuff = <<>>
  /\ IF revents.hup THEN LoseShell ELSE UNCHANGED <<shell_status, shell, endVars>>
  /\ pc' = "poll"
  /\ UNCHANGED <<toShell, fromShell, status, received, written, keyVars,
                 eof, revents, buff, outputbuff, display>>

CheckHangup ==
  /\ pc = "show" /\ outputbuff = <<>>
  /\ IF revents.hup THEN LoseShellIfThere ELSE UNCHANGED <<shell_status, shell, endVars>>
  /\ pc' = "poll"
  /\ UNCHANGED <<toShell, fromShell, status, received, written, keyVars,
                 eof, revents, buff, outputbuff, display>>

\* Mutant: the loop is not left.
LeaveLoopNot ==
  /\ pc = "poll" /\ eof
  /\ eof' = FALSE
  /\ UNCHANGED <<shellVars, keyVars, endVars,
                 shell_status, revents, buff, outputbuff, pc, display>>

\* The test of the loop, and reset(init_termios_p, 0).
LeaveLoop ==
  /\ pc = "poll" /\ eof
  /\ Reset(0)
  /\ UNCHANGED <<shellVars, keyVars, mainVars, reports>>

Main ==
  /\ exit = Running
  /\ \/ Poll \/ ReadKeyboard \/ HandleEof \/ HandleInterrupt \/ EchoKey \/ ForwardKey
     \/ ReadShell \/ ShowByte \/ CheckHangup \/ LeaveLoop

-----------------------------------------------------------------------------
TypeKey ==
  /\ untyped # <<>>
  /\ keys' = Append(keys, Head(untyped))
  /\ untyped' = Tail(untyped)
  /\ UNCHANGED <<program, typed>>

User == exit = Running /\ TypeKey /\ UNCHANGED <<shellVars, mainVars, endVars>>

Shell == exit = Running /\ ShellMust /\ UNCHANGED <<keyVars, mainVars, endVars>>
ShellChoice == exit = Running /\ ShellMay /\ UNCHANGED <<keyVars, mainVars, endVars>>

\* The process has ended: nothing moves any more.
Ended == exit # Running /\ UNCHANGED vars

Next == Main \/ User \/ Shell \/ ShellChoice \/ Ended

\* All processes are scheduled; the shell goes on reading its input between the
\* bytes it writes, and what the user types reaches the terminal.
Spec == Init /\ [][Next]_vars /\ WF_vars(Main) /\ WF_vars(Shell) /\ WF_vars(User)

-----------------------------------------------------------------------------
(* Properties. *)

\* Type invariant.
TypeOK ==
  /\ ShellTypeOK
  /\ \A s \in {typed, untyped, keys, buff} : s \in Seq(Keys)
  /\ outputbuff \in Seq(ShellBytes)
  /\ Len(buff) <= BuffSize /\ Len(outputbuff) <= BuffSize
  /\ {program, shell_status, eof} \subseteq BOOLEAN
  /\ ToSet(reports) \subseteq Statuses
  /\ pc \in {"poll", "keyboard", "keys", "forward", "show"}
  /\ terminal \in {"raw", "normal"}
  /\ exit \in {Running, 0, 1, SigPipe}

\* The keys that main has dealt with.
Processed == FirstOf(typed, Len(typed) - Len(untyped) - Len(keys) - Len(buff))

\* Every key typed while main has a shell reaches it once and in order, however
\* the pipe fills up; after that nothing does.
KeysReachShell ==
  LET sent == received \o toShell IN
  IF shell_status THEN sent = SentBy(Processed) ELSE IsPrefix(sent, SentBy(typed))

\* What the shell has written is on the display, in order, or still in a buffer
\* or the pipe: nothing is lost between poll(), read() and the echoes.
OutputInOrder == ShellText(display \o outputbuff \o fromShell) = ShellText(written)

\* The three places that give the shell up report its status once between them,
\* before a normal exit (a status of 0 may be that of a shell that still runs);
\* so waitpid() and kill() never meet a process that was already waited for.
OneExitReport ==
  /\ Len(reports) <= (IF program THEN 1 ELSE 0)
  /\ exit = 0 => (program <=> Len(reports) = 1)
  /\ exit # 1

\* A descriptor is read only if it has something: the answers of poll() are not
\* stale when they are used.
ReadsDoNotBlock ==
  /\ pc = "keyboard" /\ revents.key => keys # <<>>
  /\ KeysDone /\ shell_status /\ revents.shell => fromShell # <<>>

\* After ^D the program ends with the terminal as it was, unless a key was
\* written to a shell that had just ended, or program and shell wait for each
\* other to read from a full pipe.
EofEndsProgram ==
  (\E n \in DOMAIN typed : typed[n] = "^D")
    => <>(exit = 0 /\ terminal = "normal") \/ <>(exit = SigPipe) \/ <>[]BothPipesFull

\* lab1a.c:264 "get exit status from shell": what SHELL EXIT reports is how the
\* shell ended.
ReportsTheStatus == \A n \in DOMAIN reports : reports[n] = status
=============================================================================
