---------------------------- MODULE NetworkNode ----------------------------
(***************************************************************************)
(* lab4c/lab4c_tcp.c and lab4c/lab4c_tls.c: the sensor node of lab4b with  *)
(* a server in place of standard input and output.  Commands come through  *)
(* a TCP connection, or through TLS on top of it, and samples go out the   *)
(* same way.  The server can leave at any time.  Over TLS the bytes come   *)
(* in records, and what a read leaves of a record stays inside SSL, where  *)
(* poll() on the socket does not see it.  A record arrives whole: SSL_read *)
(* would wait for its rest.                                                *)
(* lab4b itself, link = "stdin", is the same machine without a server.     *)
(***************************************************************************)
EXTENDS SensorNode

CONSTANT Links   \* the programs under study

ASSUME LinksAssumption == Links \subseteq {"stdin", "tcp", "tls"}

SigPipe == 141   \* killed by SIGPIPE, as a shell reports it

VARIABLES
  link,      \* which program runs
  peer,      \* the server: none, open, closed or reset
  shut,      \* has buttonPress shut the socket down
  records,   \* TLS: the records that SSL has not fetched yet
  inssl      \* TLS: the bytes of the last record that are left inside SSL

linkVars == <<link, peer, shut, records, inssl>>
netVars == <<vars, linkVars>>

\* Bound: two different commands are sent, OFF only as the last, or one command
\* after an empty line or after a line that fills the buffer.
Streams ==
  LET line(k) == <<k, NL>>
  IN  {line(p[1]) \o line(p[2]) : p \in {q \in Bytes \X Bytes : q[1] \notin {q[2], "OFF"}}}
      \cup {<<NL>> \o line(k) : k \in Bytes}
      \cup {[n \in 1 .. BufferSize |-> k] \o line(k) : k \in Bytes}

NetInit ==
  /\ link \in Links
  /\ NodeInitAt(IF link = "stdin" THEN "poll" ELSE "connect")
  /\ stream \in Streams
  /\ peer = "none" /\ shut = FALSE
  /\ records = <<>> /\ inssl = <<>>

-----------------------------------------------------------------------------
(* Sending. *)

\* buttonPress is linked to the button before there is a connection.
Connected == pc["main"] # "connect"
Gone == {"closed", "reset"}

\* Both threads are about to call SSL, which has no lock of its own.
Overlap ==
  /\ link = "tls"
  /\ pc["isr"] = "print" /\ pc["main"] \in {"id", "poll", "printsample", "print"}

\* How the process can end in a call that fails, with exit(1) or by a signal:
\* without a connection, on one that is shut down or reset, and when two calls
\* of SSL overlap.
SendErrors ==
  (IF Connected THEN {} ELSE {1, IF link = "tcp" THEN SigPipe ELSE SegFault})
  \cup (IF shut \/ peer = "reset" THEN {1, SigPipe} ELSE {})
  \cup (IF Overlap THEN {1, SegFault} ELSE {})

\* Mutant: the result of send() is not looked at, and SIGPIPE is ignored.
SendUnchecked(th, line, label) ==
  /\ out' = Printed(line)
  /\ Goto(th, label)
  /\ UNCHANGED <<peer, exit>>

\* send() or SSL_write() of a line, which a server that has left answers with a
\* reset of the connection.
Send(th, line, label) ==
  \/ /\ exit' \in SendErrors
     /\ UNCHANGED <<out, peer, pc>>
  \/ /\ Connected /\ ~shut /\ peer # "reset"
     /\ out' = Printed(line)
     /\ peer' = IF peer = "closed" THEN "reset" ELSE peer
     /\ Goto(th, label)
     /\ UNCHANGED exit

\* Without --log, logfd is 0: what is written without looking at logfile goes
\* to standard input.  log is what is written to logfd.
Written(line) == log' = Append(log, line)

globalVars == <<logfile, run_flag, scale, period, sample>>

-----------------------------------------------------------------------------
(* buttonPress. *)

SendShutdown(th) ==
  /\ pc[th] = "print"
  /\ Send(th, "SHUTDOWN", "log")
  /\ UNCHANGED <<globalVars, log, closed, link, shut, records, inssl>>

ShutdownSocket(th) ==
  /\ pc[th] = "exit"
  /\ shut' = TRUE
  /\ Goto(th, "quit")
  /\ UNCHANGED <<globalVars, log, out, closed, exit, link, peer, records, inssl>>

Quit(th) ==
  /\ pc[th] = "quit"
  /\ exit' = 0
  /\ UNCHANGED <<globalVars, pc, log, out, closed, linkVars>>

NetButtonPress(th) ==
  /\ \/ SendShutdown(th) \/ ShutdownSocket(th) \/ Quit(th)
     \/ (LogShutdown(th) \/ CloseSensors(th)) /\ UNCHANGED linkVars
  /\ UNCHANGED bufferVars

-----------------------------------------------------------------------------
(* main. *)

\* connect(), and SSL_connect().
Connect ==
  /\ pc["main"] = "connect"
  /\ \/ peer' = "open" /\ Goto("main", "id") /\ UNCHANGED exit
     \/ exit' = 1 /\ UNCHANGED <<peer, pc>>
  /\ UNCHANGED <<globalVars, log, out, closed, link, shut, records, inssl>>

SendId ==
  /\ pc["main"] = "id"
  /\ Send("main", "ID", "logid")
  /\ UNCHANGED <<globalVars, log, closed, link, shut, records, inssl>>

LogId ==
  /\ pc["main"] = "logid"
  /\ Written("ID")
  /\ Goto("main", "poll")
  /\ UNCHANGED <<globalVars, out, closed, exit, linkVars>>

\* poll() looks at the socket: what is left inside SSL does not count.
Ready ==
  shut \/ peer \in Gone \/ (IF link = "tls" THEN records # <<>> ELSE input # <<>>)

\* What SSL has to give: it fetches a record if it has nothing.
Fetched == IF inssl # <<>> \/ records = <<>> THEN inssl ELSE Head(records)
Unfetched == IF inssl # <<>> \/ records = <<>> THEN records ELSE Tail(records)

\* What one read() or SSL_read() can return: never more than one record.
Available == Len(IF link = "tcp" THEN input ELSE Fetched)

\* What is read is taken from SSL, which keeps the rest.
LeaveInSsl ==
  IF link = "tcp" THEN UNCHANGED <<records, inssl>>
  ELSE /\ inssl' = SubSeq(Fetched, ReadSize(Available) + 1, Len(Fetched))
       /\ records' = Unfetched

\* A read of 0 bytes, at the end of the connection, is taken for nothing to do;
\* after a reset, at the end of a TLS connection that was not announced, or if
\* SSL is being used by the interrupt thread too, it may fail.
NetPoll ==
  /\ pc["main"] = "poll"
  /\ \/ /\ Ready
        /\ ReceiveFrom(Available) /\ LeaveInSsl
        /\ Goto("main", "scan") /\ UNCHANGED exit
     \/ /\ Ready => Available = 0
        /\ Goto("main", "sample")
        /\ UNCHANGED <<bufferVars, exit, records, inssl>>
     \/ /\ Ready
        /\ \/ Available = 0 /\ (peer = "reset" \/ link = "tls") /\ exit' = 1
           \/ Overlap /\ exit' \in {1, SegFault}
        /\ UNCHANGED <<bufferVars, pc, records, inssl>>
  /\ UNCHANGED <<globalVars, log, out, closed, link, peer, shut>>

Commands == {"SCALE=F", "SCALE=C", "STOP", "START", "OFF", "PERIOD=2", "PERIOD=-1"}

\* processCommand: unlike in lab4b a line that is no command is not logged.
NetProcessCommand ==
  /\ pc["main"] = "scan" /\ AtNewline
  /\ IF Head(Command) = "OFF"
     THEN Logged("OFF") /\ Goto("main", "print") /\ UNCHANGED <<bufferVars, run_flag, scale, period>>
     ELSE /\ Obey(Head(Command)) /\ TakeCommand /\ UNCHANGED pc
          /\ IF Head(Command) \in Commands THEN Written(Head(Command)) ELSE UNCHANGED log
  /\ UNCHANGED <<logfile, sample, out, closed, exit, linkVars>>

SendSample ==
  /\ pc["main"] = "printsample"
  /\ Send("main", sample, "logsample")
  /\ UNCHANGED <<globalVars, log, closed, link, shut, records, inssl>>

NetMain ==
  \/ (Connect \/ SendId \/ LogId \/ SendSample) /\ UNCHANGED bufferVars
  \/ NetPoll \/ NetProcessCommand
  \/ Scan /\ UNCHANGED linkVars
  \/ (Sample \/ LogSample \/ Sleep) /\ UNCHANGED <<bufferVars, linkVars>>
  \/ NetButtonPress("main")

-----------------------------------------------------------------------------
(* The server and the network. *)

\* Bytes, or a record with them, arrive from a server that is there.
NetArrive ==
  /\ link = "stdin" \/ peer = "open"
  /\ \E n \in 1 .. Len(unsent) :
       /\ ArriveBytes(n)
       /\ records' = IF link = "tls" THEN Append(records, SubSeq(unsent, 1, n)) ELSE records
  /\ UNCHANGED <<nodeVars, link, peer, shut, inssl>>

\* The server closes the connection, or aborts it.
PeerLeaves ==
  /\ peer = "open"
  /\ peer' \in {"closed", "reset"}
  /\ UNCHANGED <<vars, link, shut, records, inssl>>

-----------------------------------------------------------------------------
AnyMain ==
  /\ exit = Running
  /\ IF link = "stdin" THEN Main /\ UNCHANGED linkVars ELSE NetMain

AnyIsr ==
  /\ exit = Running
  /\ IF link = "stdin" THEN Isr /\ UNCHANGED linkVars ELSE NetButtonPress("isr")

Network == exit = Running /\ NetArrive

AnyPress == exit = Running /\ Press /\ UNCHANGED <<bufferVars, linkVars>>

NetEnded == Ended /\ UNCHANGED linkVars

NetNext ==
  \/ AnyMain \/ AnyIsr \/ AnyPress \/ Network
  \/ exit = Running /\ PeerLeaves
  \/ NetEnded

\* Both threads are scheduled and the network delivers; that the server leaves
\* or the button is pressed is not assumed.
NetSpec ==
  /\ NetInit /\ [][NetNext]_netVars
  /\ WF_netVars(AnyMain) /\ WF_netVars(AnyIsr)
  /\ WF_netVars(Network)

-----------------------------------------------------------------------------
(* Properties. *)

\* Type invariant of lab4b.c and lab4c: over TLS what has arrived is what is left
\* inside SSL and the records behind it.
NetTypeOK ==
  /\ TypeOK
  /\ {run_flag, logfile, closed, shut} \subseteq BOOLEAN
  /\ scale \in {"F", "C"} /\ sample \in {"F", "C"} /\ period \in {-1, 1, 2}
  /\ pc["main"] \in {"connect", "id", "logid", "poll", "scan", "sample", "printsample",
                     "logsample", "sleep", "print", "log", "close", "exit", "quit"}
  /\ pc["isr"] \in {"idle", "print", "log", "close", "exit", "quit"}
  /\ peer \in {"none", "open"} \cup Gone
  /\ exit \in {Running, 0, 1, SegFault, SigPipe}
  /\ IF link = "tls"
     THEN inssl \o FlattenSeq(records) = input
     ELSE records = <<>> /\ inssl = <<>>

\* In a program that ends by itself with status 0, by OFF, SHUTDOWN is the last
\* line that was printed or sent and the last line of the log, with OFF above
\* it; lab4c has told the server its ID before anything else.
OffThenShutdown ==
  exit = 0 /\ pc["isr"] = "idle" =>
    /\ EndsWithShutdown
    /\ logfile => Len(log) > 1 /\ log[Len(log) - 1] = "OFF"
    /\ link # "stdin" => Head(out) = "ID"

\* An OFF line that the buffer delivers as a command, in a stream that never
\* asks for a negative period, shuts the program down, unless the button does,
\* the server leaves, or the line is stuck inside SSL.
OffIsObeyed ==
  (/\ Plain
   /\ \A n \in DOMAIN stream : stream[n] # "PERIOD=-1"
   /\ \E n \in DOMAIN stream :
        /\ stream[n] = "OFF" /\ n < Len(stream) /\ (n = 1 \/ stream[n - 1] = NL)
        /\ \E m \in n .. Len(stream) : stream[m] = NL)
  => \/ <>(exit = 0 \/ pc["isr"] # "idle" \/ peer \in Gone \/ (peer = "none" /\ exit = 1))
     \/ <>[](inssl # <<>>)

\* A pressed button ends the program, whatever main is doing, with or without a
\* connection.
ButtonEndsProgram == pc["isr"] = "print" ~> exit # Running

\* A node whose server has left does not go on sampling for it: it ends, is
\* stopped, or sleeps as good as for ever.
PeerGoneEndsSampling ==
  <>(peer \in Gone) => <>[](exit # Running \/ ~run_flag \/ period < 0)
=============================================================================
