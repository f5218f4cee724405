---------------------------- MODULE RemoteShell ----------------------------
(***************************************************************************)
(* lab1b/lab1b-client.c and lab1b/lab1b-server.c: the client sends what is *)
(* typed through a TCP connection and shows what comes back; the server    *)
(* forwards it to a shell and sends what the shell writes.  Both are on    *)
(* one host (the client connects to 127.0.0.1), so what one sends the      *)
(* other can read at once; the connection does not fill up.                *)
(* With --compress (of both) a zlib stream runs in each direction.  What   *)
(* the connection holds are tokens, sequences of the bytes they stand for: *)
(* a byte each, or what zlib made of them.                                 *)
(***************************************************************************)
EXTENDS ShellProcess

CONSTANTS
  Keys,         \* the keys, of "a", "CR", "^C" and "^D"
  Typed,        \* what may be typed: sequences of keys
  Exchanged,    \* bound: how many keys and bytes of the shell there are together
  Compress,     \* the values of --compress under study
  DecompSize    \* the 500 of decomp_buff

ASSUME RoomAssumption ==
  DecompSize \in Nat /\ BuffSize <= DecompSize /\ DecompSize < 2 * BuffSize

\* What the shell writes can be told from the echo of what is typed, and from
\* what a broken stream makes of it.
ASSUME KeysAssumption ==
  /\ Typed \subseteq Seq(Keys) /\ Compress \subseteq BOOLEAN
  /\ (Keys \cup {"CR", "junk"}) \cap ShellBytes \subseteq {"EOT", "NL"}

SegFault == 139

VARIABLES
  compress,       \* chosen on the command lines, never changed
  typed,          \* all that will ever be typed
  untyped, keys,  \* what is not typed yet, and what the terminal holds
  hungup,         \* has the terminal gone away
  terminal,       \* "raw" or "normal"
  display,        \* what the terminal shows
  cpc, crevents, buffer,      \* the client: where it is, poll(), the keys it read
  logged,         \* its log: what it says was SENT, and RECEIVED
  cexit,          \* Running, or its exit status
  up, down,       \* what the connection holds for the server and the client
  keyStream, shellStream,   \* the zlib streams of each direction, at both ends
  reset,          \* the ends that were told that their peer is gone
  spc, srevents, inputbuff, outputbuff,   \* the server
  sent,           \* history: what it has sent
  reports,        \* its SHELL EXIT lines
  sexit           \* Running, or its exit status

userVars == <<compress, typed, untyped, keys, hungup>>
clientVars == <<terminal, display, cpc, crevents, buffer, logged, cexit>>
serverVars == <<spc, srevents, inputbuff, outputbuff, sent, reports, sexit>>
netVars == <<up, down, keyStream, shellStream, reset>>
vars == <<shellVars, userVars, clientVars, serverVars, netVars>>

ClientInit ==
  /\ terminal = "raw" /\ display = <<>>
  /\ cpc = "poll" /\ crevents = [key |-> FALSE, sock |-> FALSE] /\ buffer = <<>>
  /\ logged = [sent |-> <<>>, received |-> <<>>]
  /\ cexit = Running

\* The shell has been forked.
ServerInit ==
  /\ ShellInit /\ shell = "ready"
  /\ spc = "poll" /\ srevents = [sock |-> FALSE, shell |-> FALSE, hup |-> FALSE]
  /\ inputbuff = <<>> /\ outputbuff = <<>> /\ sent = <<>> /\ reports = <<>>
  /\ sexit = Running

\* A stream: the tokens that deflate() had no room for, the bytes that inflate()
\* had no room for, and whether inflate() has lost its way.
NewStream == [pending |-> <<>>, held |-> <<>>, broken |-> FALSE]

\* The state once connect() and accept() have returned.
Init ==
  /\ ClientInit /\ ServerInit
  /\ compress \in Compress
  /\ typed \in Typed
  /\ untyped = typed /\ keys = <<>> /\ hungup = FALSE
  /\ up = <<>> /\ down = <<>> /\ reset = {}
  /\ keyStream = NewStream /\ shellStream = NewStream

ClientGone == cexit # Running
ServerGone == sexit # Running

-----------------------------------------------------------------------------
(* zlib. *)

Bytes(tokens) == FlattenSeq(tokens)
Plain(s) == [n \in DOMAIN s |-> <<s[n]>>]

\* What deflate() makes of s: one token for all of it, or a header and a token for
\* each byte.
Deflations(s) == IF compress THEN {<<s>>, <<<<>>>> \o Plain(s)} ELSE {Plain(s)}

\* One call of deflate(), with room for BuffSize tokens.  The others wait in the
\* stream for the next call, which is made when there is more to send.
Deflate(stream, s) ==
  {[out |-> FirstOf(tokens, IF compress THEN BuffSize ELSE Len(tokens)),
    stream |-> [stream EXCEPT !.pending = IF compress THEN RestOf(tokens, BuffSize) ELSE <<>>]] :
     tokens \in {stream.pending \o d : d \in Deflations(s)}}

\* One call of inflate(), with room for DecompSize bytes.  It can keep the rest of
\* the last token for the next call; tokens that it has not come to are not given
\* to it again, and what it makes of those that follow is junk or nothing.
Inflate(stream, tokens) ==
  LET all == stream.held \o Bytes(tokens)
      begun == Len(stream.held \o Bytes(Front(tokens))) < DecompSize
      first(held, broken) == [out |-> FirstOf(all, DecompSize),
                              stream |-> [stream EXCEPT !.held = held, !.broken = broken]]
  IN  IF stream.broken THEN {[out |-> s, stream |-> stream] : s \in {<<>>, <<"junk">>}}
      ELSE IF ~compress \/ Len(all) <= DecompSize THEN {[out |-> all, stream |-> [stream EXCEPT !.held = <<>>]]}
      ELSE {first(<<>>, TRUE)} \cup (IF begun THEN {first(RestOf(all, DecompSize), FALSE)} ELSE {})

\* The end of the streams.  Without --compress they were never initialised, nor
\* was the zfree of one of the server's with it: that may fault.
EndStreams(code) == {code, SegFault}

\* What can become of a send() from one end when the other has gone: the bytes are
\* lost, and answered by a reset of the connection; a process that ends with bytes
\* unread resets it, too.  After a reset send() returns -1 with ECONNRESET or raises
\* SIGPIPE, which is not handled: that depends on what the other end did first, and
\* when the reset comes on its shell, which has inherited the socket; both are left
\* open.
Outcomes(end, gone, unread) ==
  IF ~gone THEN {"sent"}
  ELSE {"lost"} \cup (IF end \in reset \/ unread # <<>> THEN {"failed", "killed"} ELSE {})

-----------------------------------------------------------------------------
(* lab1b-client.c. *)

\* reset(): the socket is shut down, the terminal put back, the streams ended.
Reset(code) ==
  terminal' = "normal" /\ cexit' \in (IF compress THEN {code} ELSE EndStreams(code))

ClientPoll ==
  /\ cpc = "poll"
  /\ crevents' = [key |-> keys # <<>> \/ hungup, sock |-> down # <<>> \/ ServerGone]
  /\ cpc' = "keyboard"
  /\ UNCHANGED <<userVars, netVars, terminal, display, buffer, logged, cexit>>

\* read() of the keyboard; 0 bytes, when the terminal is gone, end the client.
ClientReadsKeys ==
  /\ cpc = "keyboard"
  /\ IF crevents.key /\ keys = <<>> THEN Reset(1) ELSE UNCHANGED <<terminal, cexit>>
  /\ buffer' = FirstOf(keys, BuffSize)
  /\ IF crevents.key
     THEN keys' = RestOf(keys, BuffSize) /\ cpc' = "send"
     ELSE UNCHANGED keys /\ cpc' = "sock"
  /\ UNCHANGED <<compress, typed, untyped, hungup, netVars, display, crevents, logged>>

\* The log and send(), then the echo, unless send() fails.
ClientSends ==
  /\ cpc = "send"
  /\ \E d \in Deflate(keyStream, buffer) :
       /\ keyStream' = d.stream
       /\ logged' = [logged EXCEPT !.sent = @ \o Bytes(d.out)]
       /\ IF ServerGone THEN UNCHANGED up ELSE up' = up \o d.out
  /\ \E outcome \in Outcomes("client", ServerGone, up) :
       \/ /\ outcome \in {"sent", "lost"}
          /\ reset' = IF outcome = "lost" THEN reset \cup {"client"} ELSE reset
          /\ display' = display \o ShownAll(buffer)
          /\ cpc' = "sock" /\ UNCHANGED <<terminal, cexit>>
       \/ outcome = "failed" /\ Reset(1) /\ UNCHANGED <<reset, display, cpc>>
       \/ outcome = "killed" /\ cexit' = SigPipe /\ UNCHANGED <<terminal, reset, display, cpc>>
  /\ UNCHANGED <<userVars, down, shellStream, crevents, buffer>>

\* The server maps newlines unless it compresses: then the client does, and ends
\* at the first EOT, with the n bytes before it shown.
ClientShows(s) ==
  IF ~compress THEN display' = display \o s /\ cpc' = "poll" /\ UNCHANGED <<terminal, cexit>>
  ELSE \E n \in 0 .. Len(s) :
         /\ "EOT" \notin ToSet(SubSeq(s, 1, n)) /\ (n < Len(s) => s[n + 1] = "EOT")
         /\ display' = display \o ShownAll(SubSeq(s, 1, n))
         /\ IF n = Len(s) THEN cpc' = "poll" /\ UNCHANGED <<terminal, cexit>>
            ELSE Reset(0) /\ UNCHANGED cpc

\* Mutant: what has been received is logged once it is shown.
ClientReceivesThenLogs ==
  /\ \E r \in Inflate(shellStream, FirstOf(down, BuffSize)) :
       ClientShows(r.out) /\ shellStream' = r.stream
  /\ logged' = [logged EXCEPT !.received = IF cexit' = Running THEN @ \o Bytes(FirstOf(down, BuffSize)) ELSE @]
  /\ down' = RestOf(down, BuffSize)

ClientReceives ==
  /\ \E r \in Inflate(shellStream, FirstOf(down, BuffSize)) :
       ClientShows(r.out) /\ shellStream' = r.stream
  /\ logged' = [logged EXCEPT !.received = @ \o Bytes(FirstOf(down, BuffSize))]
  /\ down' = RestOf(down, BuffSize)

\* Mutant: the client ends as soon as the server has.
ClientReadsSocketNotDown ==
  /\ cpc = "sock"
  /\ \/ crevents.sock /\ ~ServerGone /\ ClientReceives
     \/ ServerGone /\ Reset(1) /\ UNCHANGED <<display, down, shellStream, logged, cpc>>
     \/ ~crevents.sock /\ cpc' = "poll" /\ UNCHANGED <<display, down, shellStream, logged, terminal, cexit>>
  /\ UNCHANGED <<userVars, up, keyStream, reset, crevents, buffer>>

\* read() of the socket, whose end or reset, behind all that was sent, ends the
\* client.
ClientReadsSocket ==
  /\ cpc = "sock"
  /\ \/ crevents.sock /\ down # <<>> /\ ClientReceives
     \/ crevents.sock /\ down = <<>> /\ Reset(1) /\ UNCHANGED <<display, down, shellStream, logged, cpc>>
     \/ ~crevents.sock /\ cpc' = "poll" /\ UNCHANGED <<display, down, shellStream, logged, terminal, cexit>>
  /\ UNCHANGED <<userVars, up, keyStream, reset, crevents, buffer>>

Client ==
  /\ cexit = Running
  /\ \/ ClientPoll \/ ClientReadsKeys \/ ClientSends \/ ClientReadsSocket
  /\ UNCHANGED <<shellVars, serverVars>>

-----------------------------------------------------------------------------
(* lab1b-server.c. *)

\* getShellExitStatus(), shutdown() or close(), end_streams() and exit().
End(code) ==
  /\ reports' = Append(reports, WaitResult)
  /\ sexit' \in EndStreams(code)

ServerPoll ==
  /\ spc = "poll"
  /\ srevents' = [sock |-> up # <<>> \/ ClientGone, shell |-> fromShell # <<>>,
                  hup |-> shell \in ShellGone]
  /\ spc' = "sock"
  /\ UNCHANGED <<shellVars, netVars, inputbuff, outputbuff, sent, reports, sexit>>

ServerReceives ==
  /\ \E r \in Inflate(keyStream, FirstOf(up, BuffSize)) :
       inputbuff' = r.out /\ keyStream' = r.stream
  /\ up' = RestOf(up, BuffSize)
  /\ spc' = "bytes"
  /\ UNCHANGED <<reports, sexit, shell>>

\* Mutant: only a negative result of read() ends the server.
ServerReadsNothing ==
  /\ spc = "sock"
  /\ \/ srevents.sock /\ up # <<>> /\ ServerReceives
     \/ ~(srevents.sock /\ up # <<>>) /\ spc' = "bytes" /\ UNCHANGED <<inputbuff, up, keyStream, reports, sexit, shell>>
  /\ UNCHANGED <<toShell, fromShell, status, received, written, down, shellStream, reset,
                 srevents, outputbuff, sent>>

\* read() of the socket: 0 bytes when the client has gone.
ServerReadsSocket ==
  /\ spc = "sock"
  /\ \/ srevents.sock /\ up # <<>> /\ ServerReceives
     \/ srevents.sock /\ up = <<>> /\ End(0) /\ Reap /\ UNCHANGED <<inputbuff, up, keyStream, spc>>
     \/ ~srevents.sock /\ spc' = "bytes" /\ UNCHANGED <<inputbuff, up, keyStream, reports, sexit, shell>>
  /\ UNCHANGED <<toShell, fromShell, status, received, written, down, shellStream, reset,
                 srevents, outputbuff, sent>>

\* 0x03: the shell is interrupted, and the server ends.
ServerInterrupts ==
  /\ spc = "bytes" /\ inputbuff # <<>> /\ Head(inputbuff) = "^C"
  /\ IF shell = "dead" THEN Reap /\ UNCHANGED status ELSE Interrupt
  /\ End(0)
  /\ UNCHANGED <<toShell, fromShell, received, written, netVars,
                 spc, srevents, inputbuff, outputbuff, sent>>

\* 0x04: the input of the shell is closed, and the server ends.
ServerEof ==
  /\ spc = "bytes" /\ inputbuff # <<>> /\ Head(inputbuff) = "^D"
  /\ End(0) /\ Reap
  /\ UNCHANGED <<toShell, fromShell, status, received, written, netVars,
                 spc, srevents, inputbuff, outputbuff, sent>>

\* Mutant: a return is passed on as it is.
ServerForwardsRaw ==
  /\ spc = "bytes" /\ inputbuff # <<>> /\ Head(inputbuff) \notin {"^C", "^D"}
  /\ Len(toShell) < PipeSize
  /\ toShell' = Append(toShell, Head(inputbuff))
  /\ inputbuff' = Tail(inputbuff)
  /\ UNCHANGED <<fromShell, shell, status, received, written, netVars,
                 spc, srevents, outputbuff, sent, reports, sexit>>

\* write() to the shell: waits for room, or is killed by SIGPIPE.
ServerForwards ==
  /\ spc = "bytes" /\ inputbuff # <<>> /\ Head(inputbuff) \notin {"^C", "^D"}
  /\ IF shell \in ShellGone
     THEN sexit' = SigPipe /\ UNCHANGED <<toShell, inputbuff>>
     ELSE /\ Len(toShell) < PipeSize
          /\ toShell' = Append(toShell, Forwarded(Head(inputbuff)))
          /\ inputbuff' = Tail(inputbuff) /\ UNCHANGED sexit
  /\ UNCHANGED <<fromShell, shell, status, received, written, netVars,
                 spc, srevents, outputbuff, sent, reports>>

ServerReadsShell ==
  /\ spc = "bytes" /\ inputbuff = <<>>
  /\ IF srevents.shell
     THEN outputbuff' = FirstOf(fromShell, BuffSize) /\ fromShell' = RestOf(fromShell, BuffSize)
     ELSE UNCHANGED <<outputbuff, fromShell>>
  /\ spc' = "send"
  /\ UNCHANGED <<toShell, shell, status, received, written, netVars,
                 srevents, inputbuff, sent, reports, sexit>>

\* What one send() takes: with --compress all that was read, else one byte.
Portion == IF compress THEN outputbuff ELSE Shown(Head(outputbuff))

SendsPortion ==
  /\ \E d \in Deflate(shellStream, Portion) : down' = down \o d.out /\ shellStream' = d.stream
  /\ sent' = sent \o Portion
  /\ UNCHANGED <<reset, sexit, reports, shell>>

\* An EOT ends a server that does not compress, and a failed send() one that does;
\* the other does not look at what send() returns.  What is deflated for a client
\* that has gone is seen by nobody.
ServerSends ==
  /\ spc = "send" /\ outputbuff # <<>>
  /\ IF ~compress /\ Head(outputbuff) = "EOT"
     THEN End(0) /\ Reap /\ UNCHANGED <<down, shellStream, reset, outputbuff, sent>>
     ELSE /\ \E outcome \in Outcomes("server", ClientGone, down) :
               \/ outcome = "sent" /\ SendsPortion
               \/ /\ outcome = "lost" \/ (outcome = "failed" /\ ~compress)
                  /\ reset' = reset \cup {"server"}
                  /\ UNCHANGED <<down, shellStream, sent, sexit, reports, shell>>
               \/ /\ outcome = "failed" /\ compress /\ End(1) /\ Reap
                  /\ UNCHANGED <<down, shellStream, reset, sent>>
               \/ /\ outcome = "killed" /\ sexit' = SigPipe
                  /\ UNCHANGED <<down, shellStream, reset, sent, reports, shell>>
          /\ outputbuff' = IF compress THEN <<>> ELSE Tail(outputbuff)
  /\ UNCHANGED <<toShell, fromShell, status, received, written, up, keyStream,
                 spc, srevents, inputbuff>>

ServerHangup ==
  /\ spc = "send" /\ outputbuff = <<>>
  /\ IF srevents.hup
     THEN End(1) /\ Reap /\ UNCHANGED spc
     ELSE spc' = "poll" /\ UNCHANGED <<reports, sexit, shell>>
  /\ UNCHANGED <<toShell, fromShell, status, received, written, netVars,
                 srevents, inputbuff, outputbuff, sent>>

Server ==
  /\ sexit = Running
  /\ \/ ServerPoll \/ ServerReadsSocket \/ ServerInterrupts \/ ServerEof \/ ServerForwards
     \/ ServerReadsShell \/ ServerSends \/ ServerHangup
  /\ UNCHANGED <<userVars, clientVars>>

-----------------------------------------------------------------------------
(* The user, the shell and the system. *)

TypeKey ==
  /\ untyped # <<>>
  /\ keys' = Append(keys, Head(untyped))
  /\ untyped' = Tail(untyped)
  /\ UNCHANGED <<compress, typed, hungup>>

\* The terminal goes away when everything has been typed.
HangUp == untyped = <<>> /\ hungup' = TRUE /\ UNCHANGED <<compress, typed, untyped, keys>>

User == cexit = Running /\ TypeKey /\ UNCHANGED <<shellVars, clientVars, serverVars, netVars>>
UserChoice ==
  cexit = Running /\ ~hungup /\ HangUp /\ UNCHANGED <<shellVars, clientVars, serverVars, netVars>>

Shell == sexit = Running /\ ShellMust /\ UNCHANGED <<userVars, clientVars, serverVars, netVars>>
ShellChoice ==
  /\ sexit = Running /\ ShellMay
  /\ shell' = "writing" => Len(typed) + Len(written) < Exchanged
  /\ UNCHANGED <<userVars, clientVars, serverVars, netVars>>

\* Both programs have ended: nothing moves any more.
Ended == ClientGone /\ ServerGone /\ UNCHANGED vars

Next == Client \/ Server \/ User \/ UserChoice \/ Shell \/ ShellChoice \/ Ended

\* All processes are scheduled, the shell reads its input between the bytes it
\* writes, and what the user types reaches the terminal.
Fairness == WF_vars(Client) /\ WF_vars(Server) /\ WF_vars(Shell) /\ WF_vars(User)

Spec == Init /\ [][Next]_vars /\ Fairness

-----------------------------------------------------------------------------
(* Properties. *)

\* Type invariant; the server leaves nothing that it has read behind when it
\* goes on to read something else.
TypeOK ==
  /\ ShellTypeOK
  /\ compress \in Compress
  /\ typed \in Typed /\ IsSuffix(untyped, typed)
  /\ outputbuff \in Seq(ShellBytes)
  /\ Len(buffer) <= BuffSize /\ Len(outputbuff) <= BuffSize /\ Len(inputbuff) <= DecompSize
  /\ inputbuff # <<>> => spc = "bytes"
  /\ outputbuff # <<>> => spc = "send"
  /\ terminal \in {"raw", "normal"}
  /\ cpc \in {"poll", "keyboard", "send", "sock"}
  /\ cexit \in {Running, 0, 1, SigPipe, SegFault}
  /\ reset \subseteq {"client", "server"}
  /\ spc \in {"poll", "sock", "bytes", "send"}
  /\ ToSet(reports) \subseteq Statuses
  /\ sexit \in {Running, 0, 1, SigPipe, SegFault}

\* Bytes that are still inside the zlib streams at either end, in order.
Inside(stream) == stream.held \o Bytes(stream.pending)

\* What the server has sent is shown in order and all of it, even if it ends
\* right after: the client, unless it lost its terminal or read an EOT, ends only
\* when the server has and everything is read; or, with output unread, when it
\* sends keys to a server that has gone.  Compressed, what deflate() or inflate()
\* had no room for stays behind, and a burst of more than the room of inflate()
\* can make nonsense of all that follows.
AllSentIsShown ==
  IF shellStream.broken THEN Len(sent) > DecompSize
  ELSE IF cexit = 0 THEN IsPrefix(ShellText(display), ShellText(sent))
  ELSE /\ ShellText(display \o shellStream.held \o Bytes(down \o shellStream.pending)) = ShellText(sent)
       /\ ClientGone /\ ~hungup => ServerGone /\ (down = <<>> \/ cpc = "send")

\* The keys reach the shell once and in order through terminal, socket and
\* pipe, unless a burst of them broke the compressed stream.
KeysReachShell ==
  IF keyStream.broken THEN Len(typed) > DecompSize
  ELSE IF ServerGone \/ ClientGone
  THEN IsPrefix(received \o toShell, SentBy(typed))
  ELSE LET inClient == IF cpc = "send" THEN buffer ELSE <<>>
           inStream == keyStream.held \o Bytes(up \o keyStream.pending)
       IN  received \o toShell \o SentBy(inputbuff \o inStream \o inClient \o keys \o untyped) = SentBy(typed)

\* The log accounts for the connection: it has received what was sent and is not
\* on its way, and has sent what was typed and is not in the client.
LogMatchesTraffic ==
  /\ logged.received \o Bytes(down \o shellStream.pending) = sent
  /\ IsPrefix(logged.sent \o Bytes(keyStream.pending), typed)
  /\ ~ClientGone => logged.sent \o Bytes(keyStream.pending) \o (IF cpc = "send" THEN buffer ELSE <<>>)
                      \o keys \o untyped = typed

\* There are keys that stay inside the zlib streams until more are typed, or that
\* got lost there.
KeysStuck == keyStream # NewStream

\* Each end of the session brings the other end down, with the terminal as it
\* was unless the client is killed while it sends, and unless the server and
\* the shell wait for each other at full pipes.  A shell that ends, and a ^D or
\* ^C that is typed, end the session, unless the key stays in the zlib streams.
OneEndEndsBoth ==
  /\ ServerGone ~> (ClientGone /\ (terminal = "normal" \/ cexit = SigPipe))
  /\ ClientGone \/ shell = "dead" ~> ServerGone \/ BothPipesFull
  /\ (\E n \in DOMAIN typed : typed[n] \in {"^C", "^D"})
       => <>ServerGone \/ <>[](BothPipesFull \/ KeysStuck)
=============================================================================
