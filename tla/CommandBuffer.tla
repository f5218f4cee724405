--------------------------- MODULE CommandBuffer ---------------------------
(***************************************************************************)
(* The command buffer of lab4b/lab4b.c, lab4c/lab4c_tcp.c and              *)
(* lab4c/lab4c_tls.c (the three are the same): bytes are read behind those *)
(* already there, scanned for newlines, and each command found is taken    *)
(* out by moving the bytes that follow it to the front.  A buffer that is  *)
(* full without a command is given up.                                     *)
(* A byte is a symbol: NL, a keyword such as "STOP" (commands are compared *)
(* by prefix, so a whole keyword can stand for its bytes) or any other.    *)
(***************************************************************************)
EXTENDS Integers, Sequences, SequencesExt

CONSTANTS
  BufferSize,    \* the 256 of inputbuff[256]
  Bytes,         \* the bytes that can be sent besides NL
  StreamLength   \* bound: how many bytes are sent in all

ASSUME BufferAssumption == BufferSize \in Nat \ {0, 1} /\ StreamLength \in Nat

NL == "\n"

VARIABLES
  stream,      \* all that will ever be sent
  input,       \* what has arrived and has not been read
  unsent,      \* what has not arrived yet
  inputbuff,   \* the valid bytes of inputbuff[], validPtr of them
  commandPtr,  \* index of the byte to look at next, from 0
  scanning,    \* between a read and the end of the loop that follows it
  chunks       \* history: what was taken out of the buffer, in order

bufferVars == <<stream, input, unsent, inputbuff, commandPtr, scanning, chunks>>

validPtr == Len(inputbuff)

Init ==
  /\ stream \in BoundedSeq(Bytes \cup {NL}, StreamLength)
  /\ unsent = stream
  /\ input = <<>>
  /\ inputbuff = <<>>
  /\ commandPtr = 0
  /\ scanning = FALSE
  /\ chunks = <<>>

\* The next n bytes arrive.
ArriveBytes(n) ==
  /\ input' = input \o SubSeq(unsent, 1, n)
  /\ unsent' = SubSeq(unsent, n + 1, Len(unsent))
  /\ UNCHANGED <<stream, inputbuff, commandPtr, scanning, chunks>>

\* Bytes arrive, any number at a time.
Arrive == \E n \in 1 .. Len(unsent) : ArriveBytes(n)

\* Mutant: read(0, inputbuff + validPtr, 256).
ReadSizeWhole(available) == IF available < BufferSize THEN available ELSE BufferSize

\* How many of the available bytes read(0, inputbuff + validPtr, 256 - validPtr)
\* returns.
ReadSize(available) ==
  LET room == BufferSize - validPtr IN IF available < room THEN available ELSE room

\* poll() reports POLLIN, and what is available is read.
ReceiveFrom(available) ==
  /\ ~scanning /\ available > 0
  /\ LET n == ReadSize(available)
     IN  /\ inputbuff' = inputbuff \o SubSeq(input, 1, n)
         /\ input' = SubSeq(input, n + 1, Len(input))
  /\ scanning' = TRUE
  /\ UNCHANGED <<stream, unsent, commandPtr, chunks>>

Receive == ReceiveFrom(Len(input))

\* The byte at commandPtr, an index from 0.
Scanning == scanning /\ commandPtr < validPtr
AtNewline == Scanning /\ inputbuff[commandPtr + 1] = NL

SkipByte ==
  /\ Scanning /\ ~AtNewline
  /\ commandPtr' = commandPtr + 1
  /\ UNCHANGED <<stream, input, unsent, inputbuff, scanning, chunks>>

\* What processCommand is called with.
Command == SubSeq(inputbuff, 1, commandPtr + 1)

\* Mutant: the newline stays in the buffer.
TakeCommandKeepsNewline ==
  /\ AtNewline
  /\ chunks' = Append(chunks, [kind |-> "command", bytes |-> Command])
  /\ inputbuff' = SubSeq(inputbuff, commandPtr + 1, validPtr)
  /\ commandPtr' = 1
  /\ UNCHANGED <<stream, input, unsent, scanning>>

\* Mutant: commandPtr is left where the command ended.
TakeCommandKeepsPtr ==
  /\ AtNewline
  /\ chunks' = Append(chunks, [kind |-> "command", bytes |-> Command])
  /\ inputbuff' = SubSeq(inputbuff, commandPtr + 2, validPtr)
  /\ commandPtr' = commandPtr + 1
  /\ UNCHANGED <<stream, input, unsent, scanning>>

\* Mutant: one command is taken out for each read.
TakeCommandOnePerRead ==
  /\ AtNewline
  /\ chunks' = Append(chunks, [kind |-> "command", bytes |-> Command])
  /\ inputbuff' = SubSeq(inputbuff, commandPtr + 2, validPtr)
  /\ commandPtr' = 0
  /\ scanning' = FALSE
  /\ UNCHANGED <<stream, input, unsent>>

\* The command is processed and the rest moves to the front.  commandPtr is
\* reset to 0 and then, at the end of the loop body, incremented.
TakeCommand ==
  /\ AtNewline
  /\ chunks' = Append(chunks, [kind |-> "command", bytes |-> Command])
  /\ inputbuff' = SubSeq(inputbuff, commandPtr + 2, validPtr)
  /\ commandPtr' = 1
  /\ UNCHANGED <<stream, input, unsent, scanning>>

\* Mutant: a full buffer is not given up.
EndScanNoFlush ==
  /\ scanning /\ commandPtr >= validPtr
  /\ scanning' = FALSE
  /\ UNCHANGED <<stream, input, unsent, inputbuff, commandPtr, chunks>>

\* The loop ends; a full buffer is logged and emptied.
EndScan ==
  /\ scanning /\ commandPtr >= validPtr
  /\ scanning' = FALSE
  /\ IF validPtr = BufferSize
     THEN /\ chunks' = Append(chunks, [kind |-> "overlong", bytes |-> inputbuff])
          /\ inputbuff' = <<>>
          /\ commandPtr' = 0
     ELSE UNCHANGED <<inputbuff, commandPtr, chunks>>
  /\ UNCHANGED <<stream, input, unsent>>

\* Everything has been sent, read and scanned.
Drained == unsent = <<>> /\ input = <<>> /\ ~scanning /\ UNCHANGED bufferVars

Next == Arrive \/ Receive \/ SkipByte \/ TakeCommand \/ EndScan \/ Drained

Spec ==
  /\ Init /\ [][Next]_bufferVars
  /\ WF_bufferVars(Arrive)
  /\ WF_bufferVars(Receive \/ SkipByte \/ TakeCommand \/ EndScan)

-----------------------------------------------------------------------------
(* Properties. *)

\* Type invariant; the bytes read never go past the end of inputbuff[].
TypeOK ==
  /\ \A s \in {stream, input, unsent, inputbuff} : s \in Seq(Bytes \cup {NL})
  /\ validPtr <= BufferSize
  /\ commandPtr \in 0 .. BufferSize
  /\ scanning \in BOOLEAN
  /\ \A c \in 1 .. Len(chunks) :
       chunks[c].kind \in {"command", "overlong"} /\ chunks[c].bytes # <<>>

\* No byte is lost, repeated or moved past another by the copying, however the
\* stream is cut into reads.
BytesConserved ==
  FlattenSeq([c \in DOMAIN chunks |-> chunks[c].bytes]) \o inputbuff \o input \o unsent = stream

\* When poll() is called again there is room for at least one byte: a read of 0
\* bytes would look like an idle terminal for ever.
RoomToRead == ~scanning => validPtr < BufferSize

\* The newlines in s.
Newlines(s) == {n \in DOMAIN s : s[n] = NL}

\* A stream without empty lines and without lines that do not fit.
Plain ==
  \A n \in Newlines(stream) \cup {Len(stream) + 1} :
    LET before == {m \in Newlines(stream) : m < n}
        start == IF before = {} THEN 0 ELSE CHOOSE m \in before : \A k \in before : k <= m
    IN  n - start \in 1 .. BufferSize /\ (n \in Newlines(stream) => n - start > 1)

\* However it is cut into reads, a plain stream is processed line by line; in
\* any stream a command ends at a newline, and a newline inside it can only be
\* its first byte: an empty line joins the line after it, and no more.
LinesProcessed ==
  \A c \in DOMAIN chunks :
    LET bytes == chunks[c].bytes IN
    /\ Plain => chunks[c].kind = "command" /\ Newlines(bytes) = {Len(bytes)}
    /\ chunks[c].kind = "command" => Len(bytes) \in Newlines(bytes)
    /\ Newlines(bytes) \subseteq {1, Len(bytes)}

\* lab4b.c:181 "read until end of a command": a command ends at its newline.
ReadsToEndOfCommand ==
  \A c \in DOMAIN chunks : Cardinality(Newlines(chunks[c].bytes)) <= 1

\* Every complete line is processed, or given up with a full buffer: in the end
\* no newline is left in the buffer, except an empty line at its front.
LinesLeaveTheBuffer ==
  <>[](unsent = <<>> /\ input = <<>> /\ ~scanning /\ Newlines(inputbuff) \subseteq {1})
=============================================================================
