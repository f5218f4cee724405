---------------------------- MODULE ShellProcess ----------------------------
(***************************************************************************)
(* The shell that lab1a/lab1a.c and lab1b/lab1b-server.c fork, and the two *)
(* pipes between it and them.  The shell is any program: it reads, writes  *)
(* and ends as it likes, and waits only for a pipe that is full or empty.  *)
(***************************************************************************)
EXTENDS Integers, Sequences, SequencesExt

CONSTANTS
  BuffSize,     \* the 256 of the buffers
  PipeSize,     \* what a pipe holds
  ShellBytes,   \* what the shell can write, of "x", "y", "NL" and "EOT"
  ShellOutput,  \* bound: how many bytes the shell writes
  ExitStatuses  \* what the shell can end with

ASSUME BoundsAssumption == BuffSize \in Nat \ {0} /\ PipeSize \in Nat \ {0}

Running == -1
SigPipe == 141     \* killed by SIGPIPE, as a shell reports it
ShellGone == {"closed", "dead", "reaped"}
Exited(stat) == [sig |-> 0, stat |-> stat]
Killed(sig) == [sig |-> sig, stat |-> 0]

\* What waitpid() can report: 0 also stands for a shell that has not ended.
Statuses == {Exited(stat) : stat \in ExitStatuses \cup {0}} \cup {Killed(2)}

VARIABLES
  toShell,       \* parent_to_child
  fromShell,     \* child_to_parent
  shell,         \* the process: ready, writing, then closed, dead, reaped
  status,        \* how it ended
  received, written  \* history: what it has read and written

shellVars == <<toShell, fromShell, shell, status, received, written>>

ShellInit ==
  /\ toShell = <<>> /\ fromShell = <<>>
  /\ status = Exited(0)
  /\ received = <<>> /\ written = <<>>

\* The first n elements of s, and the others.
FirstOf(s, n) == SubSeq(s, 1, IF Len(s) < n THEN Len(s) ELSE n)
RestOf(s, n) == SubSeq(s, n + 1, Len(s))

\* A return or a newline is shown as both, and reaches the shell as a newline.
Shown(byte) == IF byte \in {"CR", "NL"} THEN <<"CR", "NL">> ELSE <<byte>>
ShownAll(s) == FlattenSeq([n \in DOMAIN s |-> Shown(s[n])])
Forwarded(key) == IF key \in {"CR", "NL"} THEN "NL" ELSE key

\* The bytes that a sequence of keys is to send to the shell.
Sent(key) == IF key \in {"^C", "^D"} THEN <<>> ELSE <<Forwarded(key)>>
SentBy(s) == FlattenSeq([n \in DOMAIN s |-> Sent(s[n])])

\* The bytes of s that only the shell can have written.
TextOf(byte) == IF byte \in ShellBytes \ {"EOT", "NL"} THEN <<byte>> ELSE <<>>
ShellText(s) == FlattenSeq([n \in DOMAIN s |-> TextOf(s[n])])

\* What waitpid() with WNOHANG tells of it: 0 unless it is dead.
WaitResult == IF shell = "dead" THEN status ELSE Exited(0)
Reap == shell' = IF shell = "dead" THEN "reaped" ELSE shell

\* SIGINT, which the shell may handle.
Interrupt ==
  \/ UNCHANGED <<shell, status>>
  \/ shell \notin ShellGone /\ shell' = "closed" /\ status' = Killed(2)

-----------------------------------------------------------------------------
ShellReads ==
  /\ shell = "ready" /\ toShell # <<>>
  /\ received' = Append(received, Head(toShell))
  /\ toShell' = Tail(toShell)
  /\ UNCHANGED <<fromShell, shell, status, written>>

\* It has a byte to write: it does nothing else until there is room.
ShellWantsToWrite ==
  /\ shell = "ready" /\ Len(written) < ShellOutput
  /\ shell' = "writing"
  /\ UNCHANGED <<toShell, fromShell, status, received, written>>

ShellWrites ==
  /\ shell = "writing" /\ Len(fromShell) < PipeSize
  /\ \E byte \in ShellBytes :
       fromShell' = Append(fromShell, byte) /\ written' = Append(written, byte)
  /\ shell' = "ready"
  /\ UNCHANGED <<toShell, status, received>>

\* It ends on a command, at the end of its input, or because the program could
\* not be executed.  Its descriptors are closed before it can be waited for.
ShellExits ==
  /\ shell = "ready"
  /\ shell' = "closed"
  /\ status' \in {Exited(stat) : stat \in ExitStatuses}
  /\ UNCHANGED <<toShell, fromShell, received, written>>

ShellDies ==
  /\ shell = "closed"
  /\ shell' = "dead"
  /\ UNCHANGED <<toShell, fromShell, status, received, written>>

\* What a shell that is scheduled does sooner or later, and what it may do.
ShellMust == ShellReads \/ ShellWrites \/ ShellDies
ShellMay == ShellWantsToWrite \/ ShellExits

BothPipesFull == Len(toShell) = PipeSize /\ Len(fromShell) = PipeSize

ShellTypeOK ==
  /\ \A s \in {written, fromShell} : s \in Seq(ShellBytes)
  /\ Len(toShell) <= PipeSize /\ Len(fromShell) <= PipeSize
  /\ shell \in {"ready", "writing"} \cup ShellGone
  /\ status \in Statuses
=============================================================================
