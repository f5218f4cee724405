----------------------- MODULE TerminalRelay_proofs -----------------------
(***************************************************************************)
(* Proofs about TerminalRelay, for every size of the buffers and the pipes, *)
(* however much is typed and written, and whenever the shell ends.         *)
(***************************************************************************)
EXTENDS TerminalRelay, InductionLemmas

\* What toShell, fromShell and display can hold.
Lines == {Forwarded(k) : k \in Keys}
Echoes == Keys \cup ShellBytes \cup {"CR", "NL"}

-----------------------------------------------------------------------------
(* The inductive invariant, in parts. *)

Typed ==
  /\ ShellTypeOK
  /\ received \in Seq(Lines) /\ toShell \in Seq(Lines)
  /\ typed \in Seq(Keys) /\ untyped \in Seq(Keys) /\ keys \in Seq(Keys) /\ buff \in Seq(Keys)
  /\ outputbuff \in Seq(ShellBytes) /\ display \in Seq(Echoes)
  /\ Len(buff) <= BuffSize /\ Len(outputbuff) <= BuffSize
  /\ program \in BOOLEAN /\ shell_status \in BOOLEAN /\ eof \in BOOLEAN
  /\ revents \in [key : BOOLEAN, shell : BOOLEAN, hup : BOOLEAN]
  /\ reports \in Seq(Statuses)
  /\ pc \in {"poll", "keyboard", "keys", "forward", "show"}
  /\ terminal \in {"raw", "normal"}
  /\ exit \in {Running, 0, 1, SigPipe}

\* Which buffer is in use at which point of the loop.
Loop ==
  /\ pc \in {"poll", "keyboard", "show"} => buff = <<>>
  /\ pc # "show" => outputbuff = <<>>
  /\ pc = "forward" => shell_status /\ buff # <<>> /\ Head(buff) \notin {"^C", "^D"}

\* What poll() said is still true when it is used.
Answers ==
  /\ pc = "keyboard" /\ revents.key => keys # <<>>
  /\ pc \in {"keyboard", "keys", "forward"} /\ shell_status /\ revents.shell => fromShell # <<>>

\* The shell is believed to be there until it is reported, once.
Ending ==
  /\ ~program => shell = "reaped" /\ ~shell_status /\ reports = <<>>
  /\ program => (shell_status <=> reports = <<>>) /\ Len(reports) <= 1
  /\ shell_status => shell # "reaped"
  /\ eof => ~shell_status
  /\ exit # 1 /\ (exit = 0 => eof)

-----------------------------------------------------------------------------
(* Sequences. *)

LEMMA Sizes == BuffSize \in Nat \ {0} /\ PipeSize \in Nat \ {0} /\ TypedLength \in Nat
  BY BoundsAssumption, KeysAssumption

LEMMA StreamsAreSequences ==
  ASSUME NEW s \in BoundedSeq(Keys, TypedLength)
  PROVE  s \in Seq(Keys)
  <1>1. PICK m \in 0 .. TypedLength : s \in [1 .. m -> Keys]
    BY DEF BoundedSeq, SeqOf
  <1>2. m \in Nat
    BY Sizes
  <1>3. QED
    BY <1>1, <1>2, FunctionsAreSequences

\* A read takes the front and leaves the others.
LEMMA ReadParts ==
  ASSUME NEW S, NEW s \in Seq(S), NEW n \in Nat
  PROVE  /\ FirstOf(s, n) \in Seq(S) /\ RestOf(s, n) \in Seq(S)
         /\ Len(FirstOf(s, n)) <= n /\ Len(RestOf(s, n)) <= Len(s)
         /\ FirstOf(s, n) \o RestOf(s, n) = s
  BY CutInTwo DEF FirstOf, RestOf

\* What is echoed for a key or a byte of the shell.
LEMMA EchoIsShown ==
  ASSUME NEW byte \in Keys \cup ShellBytes
  PROVE  Shown(byte) \in Seq(Echoes)
  <1>1. byte \in Echoes /\ "CR" \in Echoes /\ "NL" \in Echoes
    BY DEF Echoes
  <1>2. <<byte>> \in Seq(Echoes) /\ <<"CR", "NL">> \in Seq(Echoes)
    BY <1>1
  <1>3. QED
    BY <1>2 DEF Shown

\* The end of the shell is noticed at most once, and it is there then.
LEMMA LoseShellEffect ==
  ASSUME Typed, Ending, LoseShellIfThere
  PROVE  /\ shell_status' = FALSE /\ UNCHANGED <<terminal, exit>>
         /\ shell' \in {shell, "reaped"}
         /\ shell_status => shell # "reaped" /\ \E w \in Statuses : reports' = Append(reports, w)
         /\ ~shell_status => shell' = shell /\ reports' = reports
  <1>1. CASE shell_status
    <2>1. shell # "reaped" /\ LoseShell
      BY <1>1 DEF Ending, LoseShellIfThere
    <2>2. WaitResult \in Statuses
      BY DEF WaitResult, Typed, ShellTypeOK, Statuses
    <2>3. QED
      BY <1>1, <2>1, <2>2 DEF LoseShell, Reap
  <1>2. CASE ~shell_status
    BY <1>2 DEF LoseShellIfThere, endVars, Typed
  <1>3. QED
    BY <1>1, <1>2

LEMMA LoseShellTyped ==
  ASSUME Typed, Ending, LoseShellIfThere, UNCHANGED <<toShell, fromShell, status, written>>
  PROVE  /\ ShellTypeOK' /\ reports' \in Seq(Statuses)
         /\ shell_status' \in BOOLEAN /\ UNCHANGED <<terminal, exit>>
  <1>1. /\ shell_status' = FALSE /\ UNCHANGED <<terminal, exit>> /\ shell' \in {shell, "reaped"}
        /\ (\E w \in Statuses : reports' = Append(reports, w)) \/ reports' = reports
    BY LoseShellEffect DEF Typed
  <1>2. reports \in Seq(Statuses)
    BY DEF Typed
  <1>3. reports' \in Seq(Statuses)
    BY <1>1, <1>2, AppendProperties
  <1>4. ShellTypeOK'
    BY <1>1 DEF Typed, ShellTypeOK, ShellGone
  <1>5. QED
    BY <1>1, <1>3, <1>4

\* What the steps of the shell itself do to what the program sees.
LEMMA ShellEffect ==
  ASSUME Typed, ShellMust \/ ShellMay
  PROVE  /\ ShellTypeOK' /\ received' \in Seq(Lines) /\ toShell' \in Seq(Lines)
         /\ shell # "reaped" /\ shell' # "reaped"
         /\ fromShell # <<>> => fromShell' # <<>>
  <1> USE DEF Typed, ShellTypeOK, ShellGone
  <1>1. Len(toShell) \in Nat /\ Len(fromShell) \in Nat
    OBVIOUS
  <1>2. CASE ShellReads
    <2>1. Head(toShell) \in Lines /\ toShell' \in Seq(Lines) /\ Len(toShell') = Len(toShell) - 1
      BY <1>2, HeadFirst DEF ShellReads
    <2>2. received' \in Seq(Lines)
      BY <1>2, <2>1, AppendProperties DEF ShellReads
    <2>3. UNCHANGED <<fromShell, shell, status, written>> /\ shell = "ready"
      BY <1>2 DEF ShellReads
    <2>4. QED
      BY <1>1, <2>1, <2>2, <2>3, Sizes
  <1>3. CASE ShellWantsToWrite
    BY <1>3 DEF ShellWantsToWrite
  <1>4. CASE ShellWrites
    <2>1. PICK byte \in ShellBytes :
            fromShell' = Append(fromShell, byte) /\ written' = Append(written, byte)
      BY <1>4 DEF ShellWrites
    <2>2. /\ fromShell' \in Seq(ShellBytes) /\ written' \in Seq(ShellBytes)
          /\ fromShell' # <<>> /\ Len(fromShell') = Len(fromShell) + 1
      BY <2>1, AppendProperties
    <2>3. Len(fromShell) < PipeSize /\ shell = "writing" /\ shell' = "ready" /\ UNCHANGED <<toShell, status, received>>
      BY <1>4 DEF ShellWrites
    <2>4. QED
      BY <1>1, <2>2, <2>3, Sizes
  <1>5. CASE ShellExits
    BY <1>5 DEF ShellExits, Statuses
  <1>6. CASE ShellDies
    BY <1>6 DEF ShellDies
  <1>7. QED
    BY <1>2, <1>3, <1>4, <1>5, <1>6 DEF ShellMust, ShellMay

LEMMA TypedStep ==
  ASSUME Typed, Loop, Answers, Ending, [Next]_vars
  PROVE  Typed'
  <1> USE DEF Typed, keyVars, endVars, mainVars, shellVars
  <1>1. Len(toShell) \in Nat /\ Len(fromShell) \in Nat /\ Len(buff) \in Nat /\ Len(outputbuff) \in Nat
    BY DEF ShellTypeOK
  <1>2. CASE Poll
    BY <1>2 DEF Poll, ShellTypeOK
  <1>3. CASE ReadKeyboard
    <2>1. /\ FirstOf(keys, BuffSize) \in Seq(Keys) /\ RestOf(keys, BuffSize) \in Seq(Keys)
          /\ Len(FirstOf(keys, BuffSize)) <= BuffSize
      BY ReadParts, Sizes
    <2>2. QED
      BY <1>3, <2>1 DEF ReadKeyboard, ShellTypeOK
  <1>4. CASE HandleEof
    <2>1. LoseShellIfThere
      BY <1>4 DEF HandleEof
    <2>2. ShellTypeOK' /\ reports' \in Seq(Statuses) /\ shell_status' \in BOOLEAN /\ UNCHANGED <<terminal, exit>>
      BY <1>4, <2>1, LoseShellTyped DEF HandleEof
    <2>3. <<>> \in Seq(Keys) /\ Len(<<>>) = 0
      BY EmptySeq
    <2>4. QED
      BY <1>4, <2>2, <2>3, Sizes DEF HandleEof
  <1>5. CASE HandleInterrupt
    <2>1. buff' \in Seq(Keys) /\ Len(buff') <= BuffSize
      BY <1>1, <1>5, HeadFirst, Sizes DEF HandleInterrupt
    <2>2. ShellTypeOK'
      BY <1>5 DEF HandleInterrupt, Interrupt, ShellTypeOK, ShellGone, Statuses
    <2>3. terminal' \in {"raw", "normal"} /\ exit' \in {Running, 0, 1, SigPipe}
      BY <1>5 DEF HandleInterrupt, Reset
    <2>4. QED
      BY <1>5, <2>1, <2>2, <2>3 DEF HandleInterrupt
  <1>6. CASE EchoKey
    <2>1. Head(buff) \in Keys /\ Tail(buff) \in Seq(Keys) /\ Len(Tail(buff)) <= BuffSize
      BY <1>1, <1>6, HeadFirst, Sizes DEF EchoKey
    <2>2. display' \in Seq(Echoes)
      BY <1>6, <2>1, EchoIsShown, ConcatProperties DEF EchoKey
    <2>3. buff' \in Seq(Keys) /\ Len(buff') <= BuffSize /\ pc' \in {"forward", "keys"}
      BY <1>6, <2>1 DEF EchoKey
    <2>4. QED
      BY <1>6, <2>2, <2>3 DEF EchoKey, ShellTypeOK
  <1>7. CASE ForwardKey
    <2>1. Head(buff) \in Keys /\ Tail(buff) \in Seq(Keys) /\ Len(Tail(buff)) <= BuffSize
      BY <1>1, <1>7, HeadFirst, Sizes DEF ForwardKey, Loop
    <2>2. Append(toShell, Forwarded(Head(buff))) \in Seq(Lines)
          /\ Len(Append(toShell, Forwarded(Head(buff)))) = Len(toShell) + 1
      BY <2>1, AppendProperties DEF Lines
    <2>3. toShell' \in Seq(Lines) /\ Len(toShell') <= PipeSize
      <3>1. CASE toShell' = toShell
        BY <3>1 DEF ShellTypeOK
      <3>2. CASE toShell' # toShell
        <4>1. toShell' = Append(toShell, Forwarded(Head(buff))) /\ Len(toShell) < PipeSize
          BY <1>7, <3>2 DEF ForwardKey
        <4>2. Len(toShell') = Len(toShell) + 1 /\ toShell' \in Seq(Lines)
          BY <2>2, <4>1, Zenon
        <4>3. QED
          BY <1>1, <4>1, <4>2, Sizes
      <3>3. QED
        BY <3>1, <3>2
    <2>4. buff' \in Seq(Keys) /\ Len(buff') <= BuffSize /\ pc' \in {"forward", "keys"}
          /\ exit' \in {Running, 0, 1, SigPipe}
      BY <1>7, <2>1 DEF ForwardKey
    <2>5. QED
      BY <1>7, <2>3, <2>4 DEF ForwardKey, ShellTypeOK
  <1>8. CASE ReadShell
    <2>1. /\ FirstOf(fromShell, BuffSize) \in Seq(ShellBytes) /\ RestOf(fromShell, BuffSize) \in Seq(ShellBytes)
          /\ Len(FirstOf(fromShell, BuffSize)) <= BuffSize /\ Len(RestOf(fromShell, BuffSize)) <= Len(fromShell)
      BY ReadParts, Sizes DEF ShellTypeOK
    <2>2. /\ outputbuff' \in Seq(ShellBytes) /\ fromShell' \in Seq(ShellBytes)
          /\ Len(outputbuff') <= BuffSize /\ Len(fromShell') <= Len(fromShell) /\ Len(fromShell') \in Nat
      BY <1>1, <1>8, <2>1 DEF ReadShell, ShellTypeOK
    <2>3. QED
      BY <1>1, <1>8, <2>2, Sizes DEF ReadShell, ShellTypeOK
  <1>9. CASE ShowByte
    <2>1. Head(outputbuff) \in ShellBytes /\ outputbuff' \in Seq(ShellBytes) /\ Len(outputbuff') <= BuffSize
      BY <1>1, <1>9, HeadFirst, Sizes DEF ShowByte
    <2>2. display' \in Seq(Echoes)
      <3>1. Shown(Head(outputbuff)) \in Seq(Echoes)
        BY <2>1, EchoIsShown
      <3>2. display \o Shown(Head(outputbuff)) \in Seq(Echoes)
        BY <3>1, ConcatProperties
      <3>3. QED
        BY <1>9, <3>2 DEF ShowByte
    <2>3. ShellTypeOK' /\ reports' \in Seq(Statuses) /\ shell_status' \in BOOLEAN /\ UNCHANGED <<terminal, exit>>
      <3>1. CASE LoseShellIfThere
        BY <1>9, <3>1, LoseShellTyped DEF ShowByte
      <3>2. CASE UNCHANGED <<shell_status, shell, endVars>>
        BY <1>9, <3>2 DEF ShowByte, ShellTypeOK
      <3>3. QED
        BY <1>9, <3>1, <3>2 DEF ShowByte
    <2>4. QED
      BY <1>9, <2>1, <2>2, <2>3 DEF ShowByte
  <1>10. CASE CheckHangup
    <2>1. ShellTypeOK' /\ reports' \in Seq(Statuses) /\ shell_status' \in BOOLEAN /\ UNCHANGED <<terminal, exit>>
      <3>1. CASE LoseShellIfThere
        BY <1>10, <3>1, LoseShellTyped DEF CheckHangup
      <3>2. CASE UNCHANGED <<shell_status, shell, endVars>>
        BY <1>10, <3>2 DEF CheckHangup, ShellTypeOK
      <3>3. QED
        BY <1>10, <3>1, <3>2 DEF CheckHangup
    <2>2. QED
      BY <1>10, <2>1 DEF CheckHangup
  <1>11. CASE LeaveLoop
    BY <1>11 DEF LeaveLoop, Reset, ShellTypeOK
  <1>12. CASE User
    <2>1. Head(untyped) \in Keys /\ untyped' \in Seq(Keys)
      BY <1>12, HeadFirst DEF User, TypeKey
    <2>2. keys' \in Seq(Keys)
      BY <1>12, <2>1, AppendProperties DEF User, TypeKey
    <2>3. QED
      BY <1>12, <2>1, <2>2 DEF User, TypeKey, ShellTypeOK
  <1>13. CASE Shell \/ ShellChoice
    <2>1. ShellTypeOK' /\ received' \in Seq(Lines) /\ toShell' \in Seq(Lines)
      BY <1>13, ShellEffect DEF Shell, ShellChoice
    <2>2. QED
      BY <1>13, <2>1 DEF Shell, ShellChoice
  <1>14. CASE UNCHANGED vars
    BY <1>14 DEF vars, ShellTypeOK
  <1>15. QED
    BY <1>2, <1>3, <1>4, <1>5, <1>6, <1>7, <1>8, <1>9, <1>10, <1>11, <1>12, <1>13, <1>14
       DEF Next, Main, Ended

LEMMA LoopStep ==
  ASSUME Typed, Loop, Ending, [Next]_vars
  PROVE  Loop'
  <1> USE DEF Loop, keyVars, endVars, mainVars, shellVars
  <1>1. CASE Poll \/ ReadKeyboard \/ ReadShell \/ LeaveLoop
    BY <1>1 DEF Poll, ReadKeyboard, ReadShell, KeysDone, LeaveLoop
  <1>2. CASE HandleEof \/ HandleInterrupt
    BY <1>2 DEF HandleEof, HandleInterrupt
  <1>3. CASE EchoKey
    BY <1>3 DEF EchoKey
  <1>4. CASE ForwardKey
    BY <1>4 DEF ForwardKey
  <1>5. CASE ShowByte
    BY <1>5 DEF ShowByte
  <1>6. CASE CheckHangup
    BY <1>6 DEF CheckHangup
  <1>7. CASE User \/ Shell \/ ShellChoice \/ UNCHANGED vars
    BY <1>7 DEF User, Shell, ShellChoice, vars
  <1>8. QED
    BY <1>1, <1>2, <1>3, <1>4, <1>5, <1>6, <1>7 DEF Next, Main, Ended

LEMMA AnswersStep ==
  ASSUME Typed, Loop, Answers, [Next]_vars
  PROVE  Answers'
  <1> USE DEF Answers, keyVars, endVars, mainVars, shellVars
  <1>1. CASE Poll
    BY <1>1 DEF Poll
  <1>2. CASE ReadKeyboard
    BY <1>2 DEF ReadKeyboard
  <1>3. CASE HandleEof
    <2>1. shell_status' = FALSE
      BY <1>3 DEF HandleEof, LoseShellIfThere, LoseShell, Typed
    <2>2. QED
      BY <1>3, <2>1 DEF HandleEof
  <1>4. CASE HandleInterrupt \/ EchoKey \/ ForwardKey
    BY <1>4 DEF HandleInterrupt, EchoKey, ForwardKey
  <1>5. CASE ReadShell \/ ShowByte \/ CheckHangup \/ LeaveLoop
    BY <1>5 DEF ReadShell, ShowByte, CheckHangup, LeaveLoop
  <1>6. CASE User
    <2>1. keys' # <<>>
      <3>1. Head(untyped) \in Keys /\ keys' = Append(keys, Head(untyped)) /\ keys \in Seq(Keys)
        BY <1>6, HeadFirst DEF User, TypeKey, Typed
      <3>2. QED
        BY <3>1, AppendProperties
    <2>2. QED
      BY <1>6, <2>1 DEF User, TypeKey
  <1>7. CASE Shell \/ ShellChoice
    <2>1. fromShell # <<>> => fromShell' # <<>>
      BY <1>7, ShellEffect DEF Shell, ShellChoice
    <2>2. QED
      BY <1>7, <2>1 DEF Shell, ShellChoice
  <1>8. CASE UNCHANGED vars
    BY <1>8 DEF vars
  <1>9. QED
    BY <1>1, <1>2, <1>3, <1>4, <1>5, <1>6, <1>7, <1>8 DEF Next, Main, Ended

LEMMA EndingAfterLoss ==
  ASSUME Typed, Ending, LoseShellIfThere, exit = Running, UNCHANGED program
  PROVE  Ending'
  <1>1. /\ shell_status' = FALSE /\ exit' = exit
        /\ shell_status => \E w \in Statuses : reports' = Append(reports, w)
        /\ ~shell_status => shell' = shell /\ reports' = reports
    BY LoseShellEffect
  <1>2. reports \in Seq(Statuses) /\ program \in BOOLEAN /\ shell_status \in BOOLEAN
    BY DEF Typed
  <1>3. CASE shell_status
    <2>1. program /\ reports = <<>>
      BY <1>2, <1>3 DEF Ending
    <2>2. PICK w \in Statuses : reports' = Append(<<>>, w)
      BY <1>1, <1>3, <2>1
    <2>3. reports' # <<>> /\ Len(reports') = 1
      BY <2>2
    <2>4. QED
      BY <1>1, <1>2, <2>1, <2>3 DEF Ending, Running
  <1>4. CASE ~shell_status
    BY <1>1, <1>4 DEF Ending, Running
  <1>5. QED
    BY <1>3, <1>4

LEMMA EndingStep ==
  ASSUME Typed, Loop, Ending, [Next]_vars
  PROVE  Ending'
  <1> USE DEF keyVars, endVars, mainVars, shellVars
  <1>1. CASE Poll \/ ReadKeyboard \/ EchoKey \/ ReadShell
    BY <1>1 DEF Poll, ReadKeyboard, EchoKey, ReadShell, Ending
  <1>2. CASE exit = Running /\ HandleEof
    BY <1>2, EndingAfterLoss DEF HandleEof
  <1>3. CASE HandleInterrupt
    <2>1. UNCHANGED <<exit, shell_status, program, eof, reports>>
      BY <1>3 DEF HandleInterrupt, Ending
    <2>2. shell' = shell \/ (shell_status /\ shell' = "closed")
      BY <1>3 DEF HandleInterrupt, Interrupt, Ending
    <2>3. QED
      BY <2>1, <2>2 DEF Ending, Typed
  <1>4. CASE exit = Running /\ ForwardKey
    BY <1>4 DEF ForwardKey, Ending, SigPipe, Running
  <1>5. CASE exit = Running /\ ShowByte
    <2>1. CASE LoseShellIfThere
      BY <1>5, <2>1, EndingAfterLoss DEF ShowByte
    <2>2. CASE UNCHANGED <<shell_status, shell, endVars>>
      BY <1>5, <2>2 DEF ShowByte, Ending
    <2>3. QED
      BY <1>5, <2>1, <2>2 DEF ShowByte
  <1>6. CASE exit = Running /\ CheckHangup
    <2>1. CASE LoseShellIfThere
      BY <1>6, <2>1, EndingAfterLoss DEF CheckHangup
    <2>2. CASE UNCHANGED <<shell_status, shell, endVars>>
      BY <1>6, <2>2 DEF CheckHangup, Ending
    <2>3. QED
      BY <1>6, <2>1, <2>2 DEF CheckHangup
  <1>7. CASE LeaveLoop
    BY <1>7 DEF LeaveLoop, Reset, Ending
  <1>8. CASE User
    BY <1>8 DEF User, TypeKey, Ending
  <1>9. CASE Shell \/ ShellChoice
    <2>1. shell # "reaped" /\ shell' # "reaped"
      BY <1>9, ShellEffect DEF Shell, ShellChoice
    <2>2. QED
      BY <1>9, <2>1 DEF Shell, ShellChoice, Ending
  <1>10. CASE UNCHANGED vars
    BY <1>10 DEF vars, Ending
  <1>11. QED
    BY <1>1, <1>2, <1>3, <1>4, <1>5, <1>6, <1>7, <1>8, <1>9, <1>10 DEF Next, Main, Ended

IInv == Typed /\ Loop /\ Answers /\ Ending

LEMMA InitIInv == Init => IInv
  <1> SUFFICES ASSUME Init PROVE IInv
    OBVIOUS
  <1>1. typed \in Seq(Keys)
    BY StreamsAreSequences DEF Init
  <1>2. \A S : <<>> \in Seq(S)
    BY EmptySeq
  <1>3. Exited(0) \in Statuses
    BY DEF Statuses
  <1>4. Typed
    <2>1. ShellTypeOK
      <3>1. Len(<<>>) = 0 /\ fromShell = <<>> /\ toShell = <<>> /\ written = <<>> /\ status = Exited(0)
        BY DEF Init, ShellInit
      <3>2. shell \in {"ready", "reaped"}
        BY DEF Init
      <3>3. QED
        BY <1>2, <1>3, <3>1, <3>2, Sizes DEF ShellTypeOK, ShellGone
    <2>2. /\ received \in Seq(Lines) /\ toShell \in Seq(Lines)
          /\ untyped \in Seq(Keys) /\ keys \in Seq(Keys) /\ buff \in Seq(Keys)
          /\ outputbuff \in Seq(ShellBytes) /\ display \in Seq(Echoes) /\ reports \in Seq(Statuses)
      BY <1>1, <1>2 DEF Init, ShellInit
    <2>3. Len(buff) <= BuffSize /\ Len(outputbuff) <= BuffSize
      BY Sizes DEF Init
    <2>4. revents \in [key : BOOLEAN, shell : BOOLEAN, hup : BOOLEAN]
      BY DEF Init
    <2>5. QED
      BY <1>1, <2>1, <2>2, <2>3, <2>4 DEF Init, Typed, Running
  <1>5. Loop /\ Answers
    BY DEF Init, Loop, Answers
  <1>6. Ending
    BY DEF Init, Ending, Running
  <1>7. QED
    BY <1>4, <1>5, <1>6 DEF IInv

LEMMA StepIInv == IInv /\ [Next]_vars => IInv'
  BY TypedStep, LoopStep, AnswersStep, EndingStep DEF IInv

\* The buffers and the pipes are never overrun, and main is always in one of the
\* five places of its loop (lab1a.c:181-271).
THEOREM TypesCorrect == Spec => []TypeOK
  <1>1. IInv => TypeOK
    BY DEF IInv, Typed, TypeOK, ToSet
  <1>2. QED
    BY InitIInv, StepIInv, <1>1, PTL DEF Spec

\* The answers of poll() are not stale when they are used (lab1a.c:190, 242): main
\* never blocks in a read, whatever the shell and the user do meanwhile.
THEOREM NoReadBlocks == Spec => []ReadsDoNotBlock
  <1>1. IInv => ReadsDoNotBlock
    BY DEF IInv, Answers, ReadsDoNotBlock, KeysDone
  <1>2. QED
    BY InitIInv, StepIInv, <1>1, PTL DEF Spec

\* The ^D, the EOT and the hangup give the shell up and report its status at most
\* once between them (0 while it still runs: WNOHANG), and a normal exit never
\* comes before the report.
THEOREM ReportedOnce == Spec => []OneExitReport
  <1>1. IInv => OneExitReport
    <2>1. SUFFICES ASSUME Typed, Ending PROVE OneExitReport
      BY DEF IInv
    <2>2. reports = <<>> <=> Len(reports) = 0
      BY <2>1, EmptySeq DEF Typed
    <2>3. Len(reports) \in Nat
      BY <2>1 DEF Typed
    <2>4. CASE program
      <3>1. Len(reports) <= 1 /\ (exit = 0 => reports # <<>>) /\ exit # 1
        BY <2>1, <2>4 DEF Ending
      <3>2. QED
        BY <2>2, <2>3, <2>4, <3>1 DEF OneExitReport
    <2>5. CASE ~program
      <3>1. reports = <<>> /\ exit # 1
        BY <2>1, <2>5 DEF Ending
      <3>2. QED
        BY <2>2, <2>3, <2>5, <3>1 DEF OneExitReport
    <2>6. QED
      BY <2>1, <2>4, <2>5 DEF Typed
  <1>2. QED
    BY InitIInv, StepIInv, <1>1, PTL DEF Spec

-----------------------------------------------------------------------------
(* What the shell has written. *)

LEMMA TextConcat ==
  ASSUME NEW s \in Seq(Echoes), NEW t \in Seq(Echoes)
  PROVE  ShellText(s) \in Seq(Echoes) /\ ShellText(s \o t) = ShellText(s) \o ShellText(t)
  <1> DEFINE m == [byte \in Echoes |-> TextOf(byte)]
  <1>1. ASSUME NEW byte \in Echoes
        PROVE  TextOf(byte) \in Seq(Echoes)
    BY DEF TextOf
  <1>2. \A byte \in Echoes : m[byte] = TextOf(byte)
    OBVIOUS
  <1> HIDE DEF m
  <1>3. PICK f : f = m
    OBVIOUS
  <1>4. Spells(f, Echoes, Echoes)
    BY <1>1, <1>2, <1>3 DEF Spells
  <1>5. Spelled(f, s) \in Seq(Echoes)
    BY <1>4, SpelledTyped
  <1>6. Spelled(f, s \o t) = Spelled(f, s) \o Spelled(f, t)
    BY <1>4, SpelledConcat
  <1>7. ASSUME NEW u \in Seq(Echoes)
        PROVE  ShellText(u) = Spelled(f, u)
    <2>1. \A n \in DOMAIN u : f[u[n]] = TextOf(u[n])
      BY <1>2, <1>3, LenProperties, ElementOfSeq
    <2>2. QED
      BY <2>1, Zenon DEF ShellText, Spelled, Each
  <1>8. s \o t \in Seq(Echoes)
    BY ConcatProperties
  <1>9. QED
    BY <1>5, <1>6, <1>7, <1>8, Zenon

LEMMA TextOne ==
  ASSUME NEW byte \in Echoes
  PROVE  ShellText(<<byte>>) = TextOf(byte) /\ ShellText(<<>>) = <<>>
  <1> DEFINE m == [b \in Echoes |-> TextOf(b)]
  <1>1. ASSUME NEW b \in Echoes
        PROVE  TextOf(b) \in Seq(Echoes)
    BY DEF TextOf
  <1>2. m[byte] \in Seq(Echoes) /\ m[byte] = TextOf(byte)
    BY <1>1
  <1>3. [n \in DOMAIN <<byte>> |-> TextOf(<<byte>>[n])] = [n \in DOMAIN <<byte>> |-> m[<<byte>>[n]]]
    OBVIOUS
  <1>4. [n \in DOMAIN <<>> |-> TextOf(<<>>[n])] = [n \in DOMAIN <<>> |-> m[<<>>[n]]]
    OBVIOUS
  <1> HIDE DEF m
  <1>5. Spelled(m, <<byte>>) = m[byte] /\ Spelled(m, <<>>) = <<>>
    BY <1>2, SpelledOne
  <1>6. QED
    BY <1>2, <1>3, <1>4, <1>5 DEF ShellText, Spelled, Each

\* The echo of a key is not taken for a byte of the shell.
LEMMA EchoIsNoText ==
  ASSUME NEW k \in Keys
  PROVE  ShellText(Shown(k)) = <<>>
  <1>1. k \in Echoes /\ "CR" \in Echoes /\ "NL" \in Echoes
    BY DEF Echoes
  <1>2. TextOf(k) = <<>> /\ TextOf("CR") = <<>> /\ TextOf("NL") = <<>>
    BY KeysAssumption DEF TextOf
  <1>3. ShellText(<<"CR", "NL">>) = <<>>
    <2>1. <<"CR", "NL">> = <<"CR">> \o <<"NL">> /\ <<"CR">> \in Seq(Echoes) /\ <<"NL">> \in Seq(Echoes)
      BY <1>1
    <2>2. ShellText(<<"CR", "NL">>) = ShellText(<<"CR">>) \o ShellText(<<"NL">>)
      BY <2>1, TextConcat
    <2>3. ShellText(<<"CR">>) = <<>> /\ ShellText(<<"NL">>) = <<>>
      BY <1>1, <1>2, TextOne
    <2>4. QED
      BY <2>2, <2>3
  <1>4. ShellText(<<k>>) = <<>>
    BY <1>1, <1>2, TextOne
  <1>5. QED
    BY <1>3, <1>4 DEF Shown

\* A byte of the shell is shown as it is, or has no text, and neither has EOT.
LEMMA TextIsShown ==
  ASSUME NEW byte \in ShellBytes
  PROVE  /\ byte # "EOT" => ShellText(Shown(byte)) = ShellText(<<byte>>)
         /\ byte = "EOT" => ShellText(<<byte>>) = <<>>
  <1>1. byte \in Echoes /\ "CR" \in Echoes /\ "NL" \in Echoes
    BY DEF Echoes
  <1>2. CASE byte = "EOT"
    <2>1. TextOf(byte) = <<>>
      BY <1>2 DEF TextOf
    <2>2. QED
      BY <1>1, <1>2, <2>1, TextOne
  <1>3. CASE byte = "NL"
    <2>1. TextOf("CR") = <<>> /\ TextOf("NL") = <<>>
      BY KeysAssumption DEF TextOf
    <2>2. <<"CR", "NL">> = <<"CR">> \o <<"NL">> /\ <<"CR">> \in Seq(Echoes) /\ <<"NL">> \in Seq(Echoes)
      BY <1>1
    <2>3. ShellText(<<"CR", "NL">>) = ShellText(<<"CR">>) \o ShellText(<<"NL">>)
      BY <2>2, TextConcat
    <2>4. ShellText(<<"CR">>) = <<>> /\ ShellText(<<"NL">>) = <<>>
      BY <1>1, <2>1, TextOne
    <2>5. Shown(byte) = <<"CR", "NL">>
      BY <1>3 DEF Shown
    <2>6. QED
      BY <1>3, <2>3, <2>4, <2>5
  <1>4. CASE byte \notin {"EOT", "NL"}
    <2>1. byte # "CR"
      BY <1>4, KeysAssumption
    <2>2. QED
      BY <1>4, <2>1 DEF Shown
  <1>5. QED
    BY <1>2, <1>3, <1>4

\* The bytes of the shell are on the display, in the buffer or in the pipe.
Shows == ShellText(display) \o (ShellText(outputbuff) \o ShellText(fromShell)) = ShellText(written)

LEMMA TypedText ==
  ASSUME Typed
  PROVE  \A s \in {display, outputbuff, fromShell, written} : s \in Seq(Echoes)
  <1>1. ShellBytes \subseteq Echoes
    BY DEF Echoes
  <1>2. QED
    BY <1>1, SeqMonotonic DEF Typed, ShellTypeOK

LEMMA ShowsStep ==
  ASSUME Typed, Loop, Shows, Typed', [Next]_vars
  PROVE  Shows'
  <1> USE DEF keyVars, endVars, mainVars, shellVars
  <1>1. \A s \in {display, outputbuff, fromShell, written} : s \in Seq(Echoes) /\ ShellText(s) \in Seq(Echoes)
    BY TypedText, TextConcat
  <1>2. \A a, b, c \in Seq(Echoes) : (a \o b) \o c = a \o (b \o c)
    BY ConcatAssociative
  <1>3. \A a, b \in Seq(Echoes) : a \o b \in Seq(Echoes)
    BY ConcatProperties
  <1>4. CASE EchoKey
    <2>1. Head(buff) \in Keys
      BY <1>4, HeadFirst DEF EchoKey, Typed
    <2>2. Shown(Head(buff)) \in Seq(Echoes) /\ ShellText(Shown(Head(buff))) = <<>>
      BY <2>1, EchoIsShown, EchoIsNoText
    <2>3. ShellText(display \o Shown(Head(buff))) = ShellText(display) \o <<>>
      <3>1. ShellText(display \o Shown(Head(buff))) = ShellText(display) \o ShellText(Shown(Head(buff)))
        BY <1>1, <2>2, TextConcat
      <3>2. QED
        BY <2>2, <3>1
    <2>4. ShellText(display') = ShellText(display)
      BY <1>1, <1>4, <2>3, ConcatEmptySeq DEF EchoKey
    <2>5. UNCHANGED <<outputbuff, fromShell, written>>
      BY <1>4 DEF EchoKey
    <2>6. QED
      BY <2>4, <2>5 DEF Shows
  <1>5. CASE ReadShell
    <2>1. UNCHANGED <<display, written>> /\ outputbuff = <<>>
      BY <1>5 DEF ReadShell, KeysDone, Loop
    <2>2. CASE UNCHANGED <<outputbuff, fromShell>>
      BY <2>1, <2>2 DEF Shows
    <2>3. CASE outputbuff' = FirstOf(fromShell, BuffSize) /\ fromShell' = RestOf(fromShell, BuffSize)
      <3>1. /\ outputbuff' \in Seq(Echoes) /\ fromShell' \in Seq(Echoes)
            /\ outputbuff' \o fromShell' = fromShell
        BY <1>1, <2>3, ReadParts, Sizes
      <3>2. ShellText(outputbuff') \o ShellText(fromShell') = ShellText(fromShell)
        BY <3>1, TextConcat
      <3>3. ShellText(outputbuff) \o ShellText(fromShell) = ShellText(fromShell)
        <4>1. "NL" \in Echoes
          BY DEF Echoes
        <4>2. ShellText(<<>>) = <<>>
          BY <4>1, TextOne
        <4>3. QED
          BY <1>1, <2>1, <4>2, ConcatEmptySeq
      <3>4. QED
        BY <2>1, <3>2, <3>3 DEF Shows
    <2>4. QED
      BY <1>5, <2>2, <2>3 DEF ReadShell
  <1>6. CASE ShowByte
    <2>1. UNCHANGED <<fromShell, written>> /\ outputbuff # <<>> /\ outputbuff' = Tail(outputbuff)
      BY <1>6 DEF ShowByte
    <2>2. PICK byte \in ShellBytes : byte = Head(outputbuff) /\ outputbuff = <<byte>> \o outputbuff'
      BY <2>1, HeadFirst DEF Typed
    <2>3. <<byte>> \in Seq(Echoes) /\ outputbuff' \in Seq(Echoes)
      <3>1. outputbuff' \in Seq(Echoes)
        BY <1>1, <2>1, HeadFirst
      <3>2. byte \in Echoes
        BY DEF Echoes
      <3>3. QED
        BY <3>1, <3>2
    <2>4. PICK x \in Seq(Echoes), y \in Seq(Echoes), z \in Seq(Echoes), d \in Seq(Echoes) :
            /\ x = ShellText(<<byte>>) /\ y = ShellText(outputbuff')
            /\ z = ShellText(fromShell) /\ d = ShellText(display)
      BY <1>1, <2>3, TextConcat
    <2>5. ShellText(outputbuff) = x \o y
      <3>1. ShellText(<<byte>> \o outputbuff') = ShellText(<<byte>>) \o ShellText(outputbuff')
        BY <2>3, TextConcat
      <3>2. QED
        BY <2>2, <2>4, <3>1
    <2>6. ShellText(display') = d \o x
      <3>1. CASE byte = "EOT"
        <4>1. x = <<>> /\ display' = display
          BY <1>6, <2>2, <2>4, <3>1, TextIsShown DEF ShowByte
        <4>2. QED
          BY <2>4, <4>1, ConcatEmptySeq
      <3>2. CASE byte # "EOT"
        <4>1. display' = display \o Shown(byte)
          BY <1>6, <2>2, <3>2 DEF ShowByte
        <4>2. Shown(byte) \in Seq(Echoes) /\ ShellText(Shown(byte)) = x
          BY <2>4, <3>2, EchoIsShown, TextIsShown
        <4>3. QED
          <5>1. ShellText(display \o Shown(byte)) = ShellText(display) \o ShellText(Shown(byte))
            BY <1>1, <4>2, TextConcat
          <5>2. QED
            BY <2>4, <4>1, <4>2, <5>1
      <3>3. QED
        BY <3>1, <3>2
    <2>7. d \o ((x \o y) \o z) = (d \o x) \o (y \o z)
      <3>1. (x \o y) \o z = x \o (y \o z) /\ y \o z \in Seq(Echoes)
        BY <1>2, <1>3
      <3>2. d \o (x \o (y \o z)) = (d \o x) \o (y \o z)
        BY <1>2, <3>1, Zenon
      <3>3. QED
        BY <3>1, <3>2
    <2>8. d \o ((x \o y) \o z) = ShellText(written)
      BY <2>4, <2>5 DEF Shows
    <2>9. QED
      BY <2>1, <2>4, <2>6, <2>7, <2>8 DEF Shows
  <1>7. CASE (Shell \/ ShellChoice) /\ ShellWrites
    <2>1. PICK byte \in ShellBytes :
            fromShell' = Append(fromShell, byte) /\ written' = Append(written, byte)
      BY <1>7 DEF ShellWrites
    <2>2. byte \in Echoes /\ <<byte>> \in Seq(Echoes)
      BY DEF Echoes
    <2>3. fromShell' = fromShell \o <<byte>> /\ written' = written \o <<byte>>
      BY <1>1, <2>1, <2>2, AppendIsConcat
    <2>4. PICK x \in Seq(Echoes), y \in Seq(Echoes), z \in Seq(Echoes), d \in Seq(Echoes) :
            /\ x = ShellText(<<byte>>) /\ y = ShellText(outputbuff)
            /\ z = ShellText(fromShell) /\ d = ShellText(display)
      BY <1>1, <2>2, TextConcat
    <2>5. ShellText(fromShell') = z \o x /\ ShellText(written') = ShellText(written) \o x
      BY <1>1, <2>2, <2>3, <2>4, TextConcat
    <2>6. d \o (y \o (z \o x)) = (d \o (y \o z)) \o x
      <3>1. (y \o z) \o x = y \o (z \o x) /\ y \o z \in Seq(Echoes)
        BY <1>2, <1>3
      <3>2. d \o ((y \o z) \o x) = (d \o (y \o z)) \o x
        BY <1>2, <3>1, Zenon
      <3>3. QED
        BY <3>1, <3>2
    <2>7. UNCHANGED <<display, outputbuff>>
      BY <1>7 DEF Shell, ShellChoice
    <2>8. QED
      BY <2>4, <2>5, <2>6, <2>7 DEF Shows
  <1>8. CASE UNCHANGED <<display, outputbuff, fromShell, written>>
    BY <1>8 DEF Shows
  <1>9. CASE Poll \/ ReadKeyboard \/ HandleEof \/ HandleInterrupt \/ ForwardKey \/ CheckHangup \/ LeaveLoop \/ User
    BY <1>8, <1>9 DEF Poll, ReadKeyboard, HandleEof, HandleInterrupt, ForwardKey, CheckHangup, LeaveLoop, User
  <1>10. CASE Shell \/ ShellChoice
    BY <1>7, <1>8, <1>10 DEF Shell, ShellChoice, ShellMust, ShellMay, ShellReads, ShellWantsToWrite, ShellExits, ShellDies
  <1>11. QED
    BY <1>4, <1>5, <1>6, <1>8, <1>9, <1>10 DEF Next, Main, Ended, vars

\* Nothing the shell writes is lost, repeated or reordered between poll(), read()
\* and the echoes (lab1a.c:241-260), however full the pipe and the buffer are.
THEOREM OutputIsShown == Spec => []OutputInOrder
  <1>1. Init => Shows
    <2>1. "NL" \in Echoes
      BY DEF Echoes
    <2>2. ShellText(<<>>) = <<>>
      BY <2>1, TextOne
    <2>3. <<>> \o <<>> = <<>>
      OBVIOUS
    <2>4. QED
      BY <2>2, <2>3 DEF Init, ShellInit, Shows
  <1>2. IInv /\ Shows /\ [Next]_vars => Shows'
    BY StepIInv, ShowsStep DEF IInv
  <1>3. \A a, b, c \in Seq(Echoes) : (a \o b) \o c = a \o (b \o c)
    BY ConcatAssociative
  <1>4. IInv /\ Shows => OutputInOrder
    <2>1. SUFFICES ASSUME Typed, Shows PROVE OutputInOrder
      BY DEF IInv
    <2>2. display \in Seq(Echoes) /\ outputbuff \in Seq(Echoes) /\ fromShell \in Seq(Echoes)
      BY <2>1, TypedText
    <2>3. display \o outputbuff \in Seq(Echoes)
      BY <2>2, ConcatProperties
    <2>4. ShellText((display \o outputbuff) \o fromShell) = (ShellText(display) \o ShellText(outputbuff)) \o ShellText(fromShell)
      BY <2>2, <2>3, TextConcat
    <2>5. ShellText(display) \in Seq(Echoes) /\ ShellText(outputbuff) \in Seq(Echoes) /\ ShellText(fromShell) \in Seq(Echoes)
      BY <2>2, TextConcat
    <2>6. QED
      <3>1. (ShellText(display) \o ShellText(outputbuff)) \o ShellText(fromShell)
            = ShellText(display) \o (ShellText(outputbuff) \o ShellText(fromShell))
        BY <1>3, <2>5, Zenon
      <3>2. QED
        BY <2>1, <2>4, <3>1, Zenon DEF Shows, OutputInOrder
  <1>5. QED
    BY InitIInv, StepIInv, <1>1, <1>2, <1>4, PTL DEF Spec

-----------------------------------------------------------------------------
(* What has been typed. *)

LEMMA SentTyped ==
  ASSUME NEW k \in Keys
  PROVE  Sent(k) \in Seq(Lines)
  <1>1. Forwarded(k) \in Lines
    BY DEF Lines
  <1>2. <<Forwarded(k)>> \in Seq(Lines) /\ <<>> \in Seq(Lines)
    BY <1>1
  <1>3. QED
    BY <1>2 DEF Sent

LEMMA SentBySpelled ==
  ASSUME NEW m, \A k \in Keys : m[k] = Sent(k), NEW s \in Seq(Keys)
  PROVE  SentBy(s) = Spelled(m, s)
  <1>1. \A n \in DOMAIN s : m[s[n]] = Sent(s[n])
    BY LenProperties, ElementOfSeq
  <1>2. QED
    BY <1>1, Zenon DEF SentBy, Spelled, Each

LEMMA SentByTyped ==
  ASSUME NEW s \in Seq(Keys)
  PROVE  SentBy(s) \in Seq(Lines)
  <1> DEFINE m == [k \in Keys |-> Sent(k)]
  <1>1. \A k \in Keys : m[k] = Sent(k) /\ m[k] \in Seq(Lines)
    BY SentTyped
  <1> HIDE DEF m
  <1>2. SentBy(s) = Spelled(m, s)
    BY <1>1, SentBySpelled
  <1>3. Spelled(m, s) \in Seq(Lines)
    BY <1>1, SpelledTyped DEF Spells
  <1>4. QED
    BY <1>2, <1>3

LEMMA SentByConcat ==
  ASSUME NEW s \in Seq(Keys), NEW t \in Seq(Keys)
  PROVE  SentBy(s \o t) = SentBy(s) \o SentBy(t)
  <1> DEFINE m == [k \in Keys |-> Sent(k)]
  <1>1. \A k \in Keys : m[k] = Sent(k) /\ m[k] \in Seq(Lines)
    BY SentTyped
  <1> HIDE DEF m
  <1>2. s \o t \in Seq(Keys)
    BY ConcatProperties
  <1>3. SentBy(s) = Spelled(m, s) /\ SentBy(t) = Spelled(m, t) /\ SentBy(s \o t) = Spelled(m, s \o t)
    BY <1>1, <1>2, SentBySpelled
  <1>4. Spells(m, Keys, Lines)
    BY <1>1 DEF Spells
  <1>5. Spelled(m, s \o t) = Spelled(m, s) \o Spelled(m, t)
    BY <1>4, SpelledConcat
  <1>6. QED
    BY <1>3, <1>5

LEMMA SentByOne ==
  ASSUME NEW k \in Keys
  PROVE  SentBy(<<k>>) = Sent(k)
  <1>1. <<k>> \in Seq(Keys)
    OBVIOUS
  <1> DEFINE m == [x \in Keys |-> Sent(x)]
  <1>2. \A x \in Keys : m[x] = Sent(x) /\ m[x] \in Seq(Lines)
    BY SentTyped
  <1> HIDE DEF m
  <1>3. SentBy(<<k>>) = Spelled(m, <<k>>)
    BY <1>1, <1>2, SentBySpelled
  <1>4. m[k] \in Seq(Lines) /\ m[k] = Sent(k)
    BY <1>2
  <1>5. Spelled(m, <<k>>) = m[k]
    BY <1>4, SpelledOne
  <1>6. QED
    BY <1>3, <1>4, <1>5

LEMMA SentByNone == SentBy(<<>>) = <<>>
  <1>1. [n \in DOMAIN <<>> |-> Sent(<<>>[n])] = <<>>
    OBVIOUS
  <1>2. QED
    BY <1>1, FlattenEmpty DEF SentBy

\* While main has a shell, what it has not dealt with is in the buffer, the
\* terminal or still to be typed, and the shell has been sent all the rest.
Unprocessed == buff \o (keys \o untyped)
SentSoFar == received \o toShell
Split(p) == p \in Seq(Keys) /\ typed = p \o Unprocessed /\ SentSoFar = SentBy(p)

Sends ==
  /\ shell_status => \E p \in Seq(Keys) : Split(p)
  /\ ~shell_status => IsPrefix(SentSoFar, SentBy(typed))

LEMMA SendsIfUnchanged ==
  ASSUME Typed, Typed', Sends, typed' = typed, shell_status' => shell_status,
         SentSoFar' = SentSoFar, shell_status' => Unprocessed' = Unprocessed
  PROVE  Sends'
  <1>1. CASE shell_status'
    <2>1. PICK p \in Seq(Keys) : Split(p)
      BY <1>1 DEF Sends
    <2>2. Split(p)'
      BY <1>1, <2>1 DEF Split
    <2>3. QED
      BY <1>1, <2>2 DEF Sends
  <1>2. CASE ~shell_status' /\ shell_status
    <2>1. PICK p \in Seq(Keys) : Split(p)
      BY <1>2 DEF Sends
    <2>2. keys \o untyped \in Seq(Keys)
      BY ConcatProperties DEF Typed
    <2>3. Unprocessed \in Seq(Keys)
      BY <2>2, ConcatProperties DEF Typed, Unprocessed
    <2>4. SentBy(typed) = SentBy(p) \o SentBy(Unprocessed)
      BY <2>1, <2>3, SentByConcat DEF Split
    <2>5. SentBy(p) \in Seq(Lines) /\ SentBy(Unprocessed) \in Seq(Lines)
      BY <2>3, SentByTyped
    <2>6. IsPrefix(SentBy(p), SentBy(typed))
      BY <2>4, <2>5, PrefixOfConcat
    <2>7. QED
      BY <1>2, <2>1, <2>6 DEF Sends, Split
  <1>3. CASE ~shell_status' /\ ~shell_status
    BY <1>3 DEF Sends
  <1>4. QED
    BY <1>1, <1>2, <1>3

\* The first of the keys in the buffer is dealt with.
LEMMA KeyProcessed ==
  ASSUME Typed, Typed', Sends, UNCHANGED <<typed, keys, untyped, shell_status>>,
         buff # <<>>, buff' = Tail(buff),
         shell_status => SentSoFar' = SentSoFar \o Sent(Head(buff)),
         ~shell_status => SentSoFar' = SentSoFar
  PROVE  Sends'
  <1>1. CASE ~shell_status
    BY <1>1 DEF Sends
  <1>2. CASE shell_status
    <2>1. PICK p \in Seq(Keys) : Split(p)
      BY <1>2 DEF Sends
    <2>2. PICK k \in Keys, r \in Seq(Keys), q \in Seq(Keys) :
            k = Head(buff) /\ r = Tail(buff) /\ buff = <<k>> \o r /\ q = keys \o untyped
      BY HeadFirst, ConcatProperties DEF Typed
    <2>3. <<k>> \in Seq(Keys) /\ r \o q \in Seq(Keys) /\ p \o <<k>> \in Seq(Keys)
      BY ConcatProperties
    <2>4. (<<k>> \o r) \o q = <<k>> \o (r \o q)
      BY <2>3, ConcatAssociative
    <2>5. (p \o <<k>>) \o (r \o q) = p \o (<<k>> \o (r \o q))
      BY <2>3, ConcatAssociative
    <2>6. typed = p \o ((<<k>> \o r) \o q)
      BY <2>1, <2>2 DEF Split, Unprocessed
    <2>7. typed = (p \o <<k>>) \o (r \o q)
      BY <2>4, <2>5, <2>6
    <2>8. Unprocessed' = r \o q
      BY <2>2 DEF Unprocessed
    <2>9. SentBy(p \o <<k>>) = SentBy(p) \o Sent(k)
      BY <2>3, SentByConcat, SentByOne
    <2>10. SentSoFar' = SentBy(p \o <<k>>)
      BY <1>2, <2>1, <2>2, <2>9 DEF Split
    <2>11. Split(p \o <<k>>)'
      BY <2>3, <2>7, <2>8, <2>10 DEF Split
    <2>12. QED
      BY <1>2, <2>3, <2>11 DEF Sends
  <1>3. QED
    BY <1>1, <1>2

LEMMA SendsStep ==
  ASSUME Typed, Loop, Ending, Sends, Typed', [Next]_vars
  PROVE  Sends'
  <1> USE DEF keyVars, endVars, mainVars, shellVars
  <1>1. CASE UNCHANGED <<typed, buff, keys, untyped, received, toShell, shell_status>>
    BY <1>1, SendsIfUnchanged DEF SentSoFar, Unprocessed
  <1>2. CASE Poll \/ ReadShell \/ LeaveLoop
    BY <1>1, <1>2 DEF Poll, ReadShell, LeaveLoop
  <1>3. CASE ReadKeyboard
    <2>1. UNCHANGED <<typed, untyped, received, toShell, shell_status>> /\ buff = <<>>
      BY <1>3 DEF ReadKeyboard, Loop
    <2>2. CASE buff' = FirstOf(keys, BuffSize) /\ keys' = RestOf(keys, BuffSize)
      <3>1. buff' \in Seq(Keys) /\ keys' \in Seq(Keys) /\ buff' \o keys' = keys /\ untyped \in Seq(Keys)
        BY <2>2, ReadParts, Sizes DEF Typed
      <3>2. buff' \o (keys' \o untyped) = keys \o untyped
        <4>1. \A a, b, c \in Seq(Keys) : (a \o b) \o c = a \o (b \o c)
          BY ConcatAssociative
        <4>2. QED
          BY <3>1, <4>1, Zenon
      <3>3. keys \o untyped \in Seq(Keys)
        BY ConcatProperties DEF Typed
      <3>4. Unprocessed' = Unprocessed
        BY <2>1, <3>2, <3>3, ConcatEmptySeq DEF Unprocessed
      <3>5. QED
        BY <2>1, <3>4, SendsIfUnchanged DEF SentSoFar
    <2>3. CASE UNCHANGED <<buff, keys>>
      BY <1>1, <2>1, <2>3
    <2>4. QED
      BY <1>3, <2>2, <2>3 DEF ReadKeyboard
  <1>4. CASE HandleEof \/ ShowByte \/ CheckHangup
    <2>1. UNCHANGED <<typed, keys, untyped, received, toShell>> /\ (shell_status' => shell_status)
      BY <1>4 DEF HandleEof, ShowByte, CheckHangup, LoseShellIfThere, LoseShell
    <2>2. shell_status' => buff' = buff
      BY <1>4 DEF HandleEof, ShowByte, CheckHangup, LoseShellIfThere, LoseShell
    <2>3. QED
      BY <2>1, <2>2, SendsIfUnchanged DEF SentSoFar, Unprocessed
  <1>5. CASE HandleInterrupt
    <2>1. /\ UNCHANGED <<typed, keys, untyped, received, toShell, shell_status>>
          /\ buff # <<>> /\ buff' = Tail(buff) /\ Head(buff) = "^C"
      BY <1>5 DEF HandleInterrupt
    <2>2. Sent(Head(buff)) = <<>>
      BY <2>1 DEF Sent
    <2>3. SentSoFar' = SentSoFar /\ SentSoFar \in Seq(Lines)
      BY <2>1, ConcatProperties DEF SentSoFar, Typed
    <2>4. SentSoFar \o <<>> = SentSoFar
      BY <2>3, ConcatEmptySeq
    <2>5. QED
      BY <2>1, <2>2, <2>3, <2>4, KeyProcessed
  <1>6. CASE EchoKey
    <2>1. CASE shell_status
      BY <1>1, <1>6, <2>1 DEF EchoKey
    <2>2. CASE ~shell_status
      BY <1>6, <2>2, SendsIfUnchanged DEF EchoKey, SentSoFar
    <2>3. QED
      BY <2>1, <2>2
  <1>7. CASE ForwardKey
    <2>1. shell_status /\ buff # <<>> /\ Head(buff) \notin {"^C", "^D"}
      BY <1>7 DEF ForwardKey, Loop
    <2>2. CASE UNCHANGED <<toShell, buff>>
      BY <1>1, <1>7, <2>2 DEF ForwardKey
    <2>3. CASE toShell' = Append(toShell, Forwarded(Head(buff))) /\ buff' = Tail(buff)
      <3>1. UNCHANGED <<typed, keys, untyped, received, shell_status>>
        BY <1>7 DEF ForwardKey
      <3>2. Head(buff) \in Keys
        BY <2>1, HeadFirst DEF Typed
      <3>3. PICK x \in Lines : x = Forwarded(Head(buff)) /\ Sent(Head(buff)) = <<x>>
        BY <2>1, <3>2 DEF Lines, Sent
      <3>4. received \o Append(toShell, x) = Append(received \o toShell, x)
        <4>1. PICK a \in Seq(Lines), b \in Seq(Lines) : a = received /\ b = toShell
          BY DEF Typed
        <4>2. a \o Append(b, x) = Append(a \o b, x)
          BY AppendAfterConcat
        <4>3. QED
          BY <4>1, <4>2
      <3>5. received \o toShell \in Seq(Lines)
        BY ConcatProperties DEF Typed
      <3>6. Append(received \o toShell, x) = (received \o toShell) \o <<x>>
        BY <3>5, AppendIsConcat
      <3>7. SentSoFar' = SentSoFar \o Sent(Head(buff))
        BY <2>3, <3>1, <3>3, <3>4, <3>6 DEF SentSoFar
      <3>8. QED
        BY <2>1, <2>3, <3>1, <3>7, KeyProcessed
    <2>4. QED
      BY <1>7, <2>2, <2>3 DEF ForwardKey
  <1>8. CASE User
    <2>1. UNCHANGED <<typed, buff, received, toShell, shell_status>>
      BY <1>8 DEF User, TypeKey
    <2>2. Append(keys, Head(untyped)) \o Tail(untyped) = keys \o untyped
      BY <1>8, MoveHead DEF User, TypeKey, Typed
    <2>3. keys' \o untyped' = keys \o untyped
      BY <1>8, <2>2 DEF User, TypeKey
    <2>4. QED
      BY <2>1, <2>3, SendsIfUnchanged DEF SentSoFar, Unprocessed
  <1>9. CASE Shell \/ ShellChoice
    <2>1. UNCHANGED <<typed, buff, keys, untyped, shell_status>>
      BY <1>9 DEF Shell, ShellChoice
    <2>2. CASE ShellReads
      <3>1. Append(received, Head(toShell)) \o Tail(toShell) = received \o toShell
        BY <2>2, MoveHead DEF ShellReads, Typed
      <3>2. SentSoFar' = SentSoFar
        BY <2>2, <3>1 DEF ShellReads, SentSoFar
      <3>3. QED
        BY <2>1, <3>2, SendsIfUnchanged DEF Unprocessed
    <2>3. CASE UNCHANGED <<received, toShell>>
      BY <1>1, <2>1, <2>3
    <2>4. QED
      BY <1>9, <2>2, <2>3 DEF Shell, ShellChoice, ShellMust, ShellMay,
           ShellWantsToWrite, ShellWrites, ShellExits, ShellDies
  <1>10. CASE UNCHANGED vars
    BY <1>1, <1>10 DEF vars
  <1>11. QED
    BY <1>2, <1>3, <1>4, <1>5, <1>6, <1>7, <1>8, <1>9, <1>10 DEF Next, Main, Ended

\* Every key typed while main has a shell is written to it once and in order
\* (lab1a.c:195-235), however the reads and the full pipe cut the typing up, and
\* nothing is written after that.
THEOREM KeysAreSent == Spec => []KeysReachShell
  <1>1. Init => Sends
    <2>1. SUFFICES ASSUME Init PROVE Sends
      OBVIOUS
    <2>2. typed \in Seq(Keys) /\ SentBy(typed) \in Seq(Lines)
      BY <2>1, StreamsAreSequences, SentByTyped DEF Init
    <2>3. SentSoFar = <<>> /\ Unprocessed = typed
      BY <2>1, <2>2 DEF Init, ShellInit, SentSoFar, Unprocessed
    <2>4. <<>> \o typed = typed /\ <<>> \in Seq(Keys)
      BY <2>2, ConcatEmptySeq, EmptySeq
    <2>5. Split(<<>>)
      BY <2>3, <2>4, SentByNone DEF Split
    <2>6. <<>> \o SentBy(typed) = SentBy(typed) /\ <<>> \in Seq(Lines)
      BY <2>2, ConcatEmptySeq, EmptySeq
    <2>7. IsPrefix(<<>>, SentBy(typed))
      BY <2>2, <2>6, PrefixOfConcat
    <2>8. QED
      BY <2>3, <2>4, <2>5, <2>7 DEF Sends
  <1>2. IInv /\ Sends /\ [Next]_vars => Sends'
    BY StepIInv, SendsStep DEF IInv
  <1>3. IInv /\ Sends => KeysReachShell
    <2>1. SUFFICES ASSUME Typed, Sends PROVE KeysReachShell
      BY DEF IInv
    <2>2. CASE shell_status
      <3>1. PICK p \in Seq(Keys) : Split(p)
        BY <2>1, <2>2 DEF Sends
      <3>2. keys \o untyped \in Seq(Keys)
        BY <2>1, ConcatProperties DEF Typed
      <3>3. PICK r \in Seq(Keys) : r = Unprocessed
        BY <2>1, <3>2, ConcatProperties DEF Typed, Unprocessed
      <3>4. typed = p \o r
        BY <3>1, <3>3 DEF Split
      <3>5. Len(r) = Len(buff) + (Len(keys) + Len(untyped))
        BY <2>1, <3>2, <3>3, ConcatProperties DEF Typed, Unprocessed
      <3>6. Len(typed) = Len(p) + Len(r) /\ Len(p) \in Nat /\ Len(r) \in Nat
        BY <3>4
      <3>7. Len(buff) \in Nat /\ Len(keys) \in Nat /\ Len(untyped) \in Nat
        BY <2>1 DEF Typed
      <3>8. Len(typed) - Len(untyped) - Len(keys) - Len(buff) = Len(p) /\ ~(Len(typed) < Len(p))
        BY <3>5, <3>6, <3>7
      <3>9. Processed = SubSeq(typed, 1, Len(p))
        BY <3>8 DEF Processed, FirstOf
      <3>10. Processed = p
        BY <3>4, <3>9, FrontOfConcat
      <3>11. QED
        BY <2>2, <3>1, <3>10 DEF KeysReachShell, Split, SentSoFar
    <2>3. CASE ~shell_status
      BY <2>1, <2>3 DEF Sends, KeysReachShell, SentSoFar
    <2>4. QED
      BY <2>2, <2>3
  <1>4. QED
    BY InitIInv, StepIInv, <1>1, <1>2, <1>3, PTL DEF Spec
=============================================================================
