---------------------------- MODULE SensorNode ----------------------------
(***************************************************************************)
(* lab4b/lab4b.c: a loop that reads commands from standard input, samples  *)
(* the temperature, and prints and logs both, and a button whose interrupt *)
(* handler runs in a thread of its own (mraa_gpio_isr) and shuts down.     *)
(* The command buffer is CommandBuffer's.  A printed or logged line is one *)
(* step, though its time of day is written by a separate call.             *)
(***************************************************************************)
EXTENDS CommandBuffer

CONSTANTS
  LogOptions,   \* whether --log is given: a set of booleans
  HasButton,    \* can the button be pressed
  MaxSamples    \* bound: how many samples log and out keep

\* "F", "C" and "SHUTDOWN" name lines that the program writes by itself, and
\* stand for no bytes that are sent to it.
ASSUME NodeAssumption ==
  /\ LogOptions \subseteq BOOLEAN
  /\ Bytes \cap {"F", "C", "SHUTDOWN"} = {}

Running == -1
SegFault == 139   \* 128 + SIGSEGV

Threads == {"main", "isr"}

VARIABLES
  logfile,  \* is --log given
  run_flag, scale, period,  \* the globals that commands set
  pc,       \* where main and the interrupt thread are
  sample,   \* the temperature main has read, by its scale
  log,      \* the lines of the log file
  out,      \* the lines of standard output
  closed,   \* have the sensors been closed
  exit      \* Running, or the exit status of the process

nodeVars == <<logfile, run_flag, scale, period, pc, sample, log, out, closed, exit>>
vars == <<bufferVars, nodeVars>>

\* main is at entry and the button has not been pressed.
NodeInitAt(entry) ==
  /\ Init
  /\ logfile \in LogOptions
  /\ run_flag = TRUE /\ scale = "F" /\ period = 1
  /\ pc = [th \in Threads |-> IF th = "main" THEN entry ELSE "idle"]
  /\ sample = "F"
  /\ log = <<>> /\ out = <<>>
  /\ closed = FALSE
  /\ exit = Running

NodeInit == NodeInitAt("poll")

Samples(s) == Len(SelectSeq(s, LAMBDA line : line \in {"F", "C"}))

\* Standard output with one more line.
Printed(line) ==
  IF line \in {"F", "C"} /\ Samples(out) >= MaxSamples THEN out ELSE Append(out, line)

Goto(th, label) == pc' = [pc EXCEPT ![th] = label]

Logged(line) == log' = IF logfile THEN Append(log, line) ELSE log

-----------------------------------------------------------------------------
(* buttonPress: run by the interrupt thread, and by main for OFF. *)

\* Mutant: the interrupt handler prints and stops the samples, no more.
PrintShutdownOnly(th) ==
  /\ pc[th] = "print"
  /\ out' = Printed("SHUTDOWN")
  /\ run_flag' = FALSE
  /\ Goto(th, IF th = "isr" THEN "returned" ELSE "log")
  /\ UNCHANGED <<logfile, scale, period, sample, log, closed, exit>>

\* The SHUTDOWN line is printed.
PrintShutdown(th) ==
  /\ pc[th] = "print"
  /\ out' = Printed("SHUTDOWN")
  /\ Goto(th, "log")
  /\ UNCHANGED <<logfile, run_flag, scale, period, sample, log, closed, exit>>

LogShutdown(th) ==
  /\ pc[th] = "log"
  /\ Logged("SHUTDOWN")
  /\ Goto(th, "close")
  /\ UNCHANGED <<logfile, run_flag, scale, period, sample, out, closed, exit>>

\* closeSensors: closing what is closed may crash.
CloseSensors(th) ==
  /\ pc[th] = "close"
  /\ closed' = TRUE
  /\ Goto(th, "exit")
  /\ exit' \in IF closed THEN {Running, SegFault} ELSE {Running}
  /\ UNCHANGED <<logfile, run_flag, scale, period, sample, log, out>>

Exit(th) ==
  /\ pc[th] = "exit"
  /\ exit' = 0
  /\ UNCHANGED <<logfile, run_flag, scale, period, pc, sample, log, out, closed>>

ButtonPress(th) ==
  PrintShutdown(th) \/ LogShutdown(th) \/ CloseSensors(th) \/ Exit(th)

\* The button is pressed: mraa calls the handler in its interrupt thread.
Press ==
  /\ HasButton
  /\ pc["isr"] = "idle"
  /\ Goto("isr", "print")
  /\ UNCHANGED <<logfile, run_flag, scale, period, sample, log, out, closed, exit>>

-----------------------------------------------------------------------------
(* main. *)

\* poll() with no timeout: commands are read if there is input.
Poll ==
  /\ pc["main"] = "poll"
  /\ IF input # <<>>
     THEN Receive /\ Goto("main", "scan")
     ELSE Goto("main", "sample") /\ UNCHANGED bufferVars
  /\ UNCHANGED <<logfile, run_flag, scale, period, sample, log, out, closed, exit>>

Scan ==
  /\ pc["main"] = "scan"
  /\ \/ SkipByte /\ UNCHANGED pc
     \/ EndScan /\ Goto("main", "sample")
  /\ log' = IF logfile /\ ~Scanning /\ validPtr = BufferSize
            THEN Append(log, "overlong") ELSE log
  /\ UNCHANGED <<logfile, run_flag, scale, period, sample, out, closed, exit>>

\* Mutant: STOP does not clear run_flag.
ObeyNotStop(keyword) ==
  /\ scale' = CASE keyword = "SCALE=F" -> "F" [] keyword = "SCALE=C" -> "C" [] OTHER -> scale
  /\ run_flag' = CASE keyword = "START" -> TRUE [] OTHER -> run_flag
  /\ period' = CASE keyword = "PERIOD=2" -> 2 [] keyword = "PERIOD=-1" -> -1 [] OTHER -> period

\* The globals that a command sets, by the keyword at its beginning.
Obey(keyword) ==
  /\ scale' = CASE keyword = "SCALE=F" -> "F" [] keyword = "SCALE=C" -> "C" [] OTHER -> scale
  /\ run_flag' = CASE keyword = "STOP" -> FALSE [] keyword = "START" -> TRUE [] OTHER -> run_flag
  /\ period' = CASE keyword = "PERIOD=2" -> 2 [] keyword = "PERIOD=-1" -> -1 [] OTHER -> period

\* Mutant: OFF is an ordinary command.
ProcessCommandNoOff ==
  /\ pc["main"] = "scan" /\ AtNewline
  /\ Obey(Head(Command)) /\ Logged(Head(Command)) /\ TakeCommand
  /\ UNCHANGED <<logfile, pc, sample, out, closed, exit>>

\* Mutant: OFF is not logged before shutting down.
ProcessCommandOffLast ==
  /\ pc["main"] = "scan" /\ AtNewline
  /\ IF Head(Command) = "OFF"
     THEN Goto("main", "print") /\ UNCHANGED <<bufferVars, run_flag, scale, period, log>>
     ELSE Obey(Head(Command)) /\ Logged(Head(Command)) /\ TakeCommand /\ UNCHANGED pc
  /\ UNCHANGED <<logfile, sample, out, closed, exit>>

\* processCommand: OFF is logged and ends in buttonPress, which does not
\* return; any other command is obeyed and then logged, known or not.
ProcessCommand ==
  /\ pc["main"] = "scan" /\ AtNewline
  /\ IF Head(Command) = "OFF"
     THEN Logged("OFF") /\ Goto("main", "print") /\ UNCHANGED <<bufferVars, run_flag, scale, period>>
     ELSE Obey(Head(Command)) /\ Logged(Head(Command)) /\ TakeCommand /\ UNCHANGED pc
  /\ UNCHANGED <<logfile, sample, out, closed, exit>>

\* A temperature is told by the scale that it is computed in.
readTemp == scale

\* if (run_flag) readTemp(): a closed sensor may crash.
Sample ==
  /\ pc["main"] = "sample"
  /\ IF run_flag
     THEN /\ sample' = readTemp
          /\ Goto("main", "printsample")
          /\ exit' \in IF closed THEN {Running, SegFault} ELSE {Running}
     ELSE Goto("main", "poll") /\ UNCHANGED <<sample, exit>>
  /\ UNCHANGED <<logfile, run_flag, scale, period, log, out, closed>>

PrintSample ==
  /\ pc["main"] = "printsample"
  /\ out' = Printed(sample)
  /\ Goto("main", "logsample")
  /\ UNCHANGED <<logfile, run_flag, scale, period, sample, log, closed, exit>>

LogSample ==
  /\ pc["main"] = "logsample"
  /\ IF Samples(log) < MaxSamples THEN Logged(sample) ELSE UNCHANGED log
  /\ Goto("main", "sleep")
  /\ UNCHANGED <<logfile, run_flag, scale, period, sample, out, closed, exit>>

\* sleep(period): of a negative period it does not return for 136 years.
Sleep ==
  /\ pc["main"] = "sleep"
  /\ period >= 0
  /\ Goto("main", "poll")
  /\ UNCHANGED <<logfile, run_flag, scale, period, sample, log, out, closed, exit>>

MainLoop == Poll \/ Scan \/ ProcessCommand
MainSample == Sample \/ PrintSample \/ LogSample \/ Sleep

-----------------------------------------------------------------------------
Main ==
  /\ exit = Running
  /\ MainLoop \/ (MainSample /\ UNCHANGED bufferVars)
              \/ (ButtonPress("main") /\ UNCHANGED bufferVars)

Isr ==
  /\ exit = Running
  /\ ButtonPress("isr") /\ UNCHANGED bufferVars

User ==
  /\ exit = Running
  /\ (Arrive /\ UNCHANGED nodeVars) \/ (Press /\ UNCHANGED bufferVars)

\* The process has ended, or sleeps as good as for ever.
Ended == (exit # Running \/ period < 0) /\ UNCHANGED vars

NodeNext == Main \/ Isr \/ User \/ Ended

\* The threads are scheduled, and what is typed arrives.
NodeSpec ==
  /\ NodeInit /\ [][NodeNext]_vars
  /\ WF_vars(Main) /\ WF_vars(Isr)
  /\ WF_vars(exit = Running /\ Arrive /\ UNCHANGED nodeVars)

-----------------------------------------------------------------------------
(* Properties. *)

\* The last line of s before position j that is in S, or none.
LastOf(s, j, S, none) ==
  LET at == {n \in 1 .. j - 1 : s[n] \in S}
  IN  IF at = {} THEN none ELSE s[CHOOSE n \in at : \A m \in at : m <= n]

\* Read from top to bottom the log tells a true story: every sample is in the
\* scale that the last SCALE command above it asked for, and none follows a
\* STOP that no START has undone.
LogTellsTheTruth ==
  logfile => \A j \in DOMAIN log : log[j] \in {"F", "C"} =>
    /\ LastOf(log, j, {"SCALE=F", "SCALE=C"}, "SCALE=F") = (IF log[j] = "F" THEN "SCALE=F" ELSE "SCALE=C")
    /\ LastOf(log, j, {"STOP", "START"}, "START") = "START"

\* SHUTDOWN is the last line of the output and of the log, and is there once.
EndsWithShutdown ==
  \A s \in {out} \cup (IF logfile THEN {log} ELSE {}) :
    s # <<>> /\ {n \in DOMAIN s : s[n] = "SHUTDOWN"} = {Len(s)}

\* lab4b.c:38 "outputs (and logs) a final sample with the time and the string
\* SHUTDOWN", whoever calls buttonPress.
ShutdownIsFinal == exit = 0 => EndsWithShutdown
=============================================================================
