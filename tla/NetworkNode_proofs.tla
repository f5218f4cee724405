------------------------ MODULE NetworkNode_proofs ------------------------
(***************************************************************************)
(* Proofs about CommandBuffer, for every size of the buffer and every      *)
(* stream, however long and however it is cut into reads; and about the    *)
(* three programs that have such a buffer, lab4b and the two of lab4c, for *)
(* every way in which the button and the server interfere.                 *)
(***************************************************************************)
EXTENDS NetworkNode, InductionLemmas

-----------------------------------------------------------------------------
(* The command buffer. *)

Symbols == Bytes \cup {NL}

\* What the invariants need of the types.
Typed ==
  /\ {input, unsent, inputbuff} \subseteq Seq(Symbols)
  /\ commandPtr \in Nat

\* A read is never longer than the room that it is given.
Fits == validPtr <= BufferSize

IInv == Typed /\ Fits /\ RoomToRead

\* One step of the buffer, in any of the programs: lab4c does not always read all
\* that has arrived.
ReceiveSome == \E k \in 1 .. Len(input) : ReceiveFrom(k)
BufferNext == Arrive \/ ReceiveSome \/ SkipByte \/ TakeCommand \/ EndScan \/ Drained

\* What read() returns is available and fits behind what is there; it is
\* something, if there is something and there is room.
LEMMA ReadSizeBounded ==
  ASSUME NEW available \in Nat, Fits, validPtr \in Nat
  PROVE  /\ ReadSize(available) \in 0 .. available
         /\ validPtr + ReadSize(available) <= BufferSize
  BY BufferAssumption DEF ReadSize, Fits

LEMMA StreamsAreSequences ==
  ASSUME NEW s \in BoundedSeq(Symbols, StreamLength)
  PROVE  s \in Seq(Symbols)
  <1>1. PICK m \in 0 .. StreamLength : s \in [1 .. m -> Symbols]
    BY DEF BoundedSeq, SeqOf
  <1>2. m \in Nat
    BY BufferAssumption
  <1>3. QED
    BY <1>1, <1>2, IsASeq

LEMMA InitIInv == Init => IInv
  <1> SUFFICES ASSUME Init PROVE IInv
    OBVIOUS
  <1>1. stream \in Seq(Symbols)
    BY StreamsAreSequences DEF Init, Symbols
  <1>2. <<>> \in Seq(Symbols) /\ Len(<<>>) = 0
    OBVIOUS
  <1>3. QED
    BY <1>1, <1>2, BufferAssumption DEF Init, IInv, Typed, Fits, RoomToRead, validPtr

\* The front of a sequence, and what is left of it.
LEMMA Parts ==
  ASSUME NEW s \in Seq(Symbols), NEW n \in 0 .. Len(s)
  PROVE  /\ SubSeq(s, 1, n) \in Seq(Symbols) /\ Len(SubSeq(s, 1, n)) = n
         /\ SubSeq(s, n + 1, Len(s)) \in Seq(Symbols)
         /\ Len(SubSeq(s, n + 1, Len(s))) = Len(s) - n
  <1>1. n \in Nat /\ Len(s) \in Nat
    OBVIOUS
  <1>2. /\ \A i \in 1 .. n : s[i] \in Symbols
        /\ \A i \in n + 1 .. Len(s) : s[i] \in Symbols
    BY <1>1, ElementOfSeq
  <1>3. SubSeq(s, 1, n) \in Seq(Symbols) /\ Len(SubSeq(s, 1, n)) = n
    BY <1>1, <1>2, SubSeqProperties
  <1>4. /\ SubSeq(s, n + 1, Len(s)) \in Seq(Symbols)
        /\ Len(SubSeq(s, n + 1, Len(s))) = Len(s) - n
    BY <1>1, <1>2, SubSeqProperties
  <1>5. QED
    BY <1>3, <1>4

LEMMA AllIsSome == IInv /\ [Next]_bufferVars => [BufferNext]_bufferVars
  <1>1. ASSUME IInv, Receive
        PROVE  ReceiveSome
    <2>1. PICK k \in Nat : k = Len(input)
      BY <1>1, LenProperties DEF IInv, Typed
    <2>2. k \in 1 .. Len(input)
      BY <1>1, <2>1 DEF Receive, ReceiveFrom
    <2>3. QED
      BY <1>1, <2>1, <2>2 DEF Receive, ReceiveSome
  <1>2. QED
    BY <1>1 DEF Next, BufferNext

LEMMA StepIInv == IInv /\ [BufferNext]_bufferVars => IInv'
  <1> SUFFICES ASSUME IInv, [BufferNext]_bufferVars PROVE IInv'
    OBVIOUS
  <1> USE DEF IInv, Typed, validPtr
  <1>1. Len(inputbuff) \in Nat /\ Len(input) \in Nat /\ BufferSize \in Nat
    BY BufferAssumption
  <1>2. CASE Arrive
    <2>1. PICK n \in 1 .. Len(unsent) : ArriveBytes(n)
      BY <1>2 DEF Arrive
    <2>2. n \in 0 .. Len(unsent)
      OBVIOUS
    <2>3. input' \in Seq(Symbols) /\ unsent' \in Seq(Symbols)
      BY <2>1, <2>2, Parts DEF ArriveBytes
    <2>4. QED
      BY <2>1, <2>3 DEF ArriveBytes, Fits, RoomToRead
  <1>3. CASE ReceiveSome
    <2>1. PICK k \in 1 .. Len(input) : ReceiveFrom(k)
      BY <1>3 DEF ReceiveSome
    <2> DEFINE n == ReadSize(k)
    <2>2. n \in 0 .. k /\ Len(inputbuff) + n <= BufferSize
      BY <1>1, ReadSizeBounded
    <2>3. inputbuff' = inputbuff \o SubSeq(input, 1, n) /\ input' = SubSeq(input, n + 1, Len(input))
      BY <2>1 DEF ReceiveFrom
    <2> HIDE DEF n
    <2>4. n \in 0 .. Len(input)
      BY <1>1, <2>2
    <2>5. SubSeq(input, 1, n) \in Seq(Symbols) /\ Len(SubSeq(input, 1, n)) = n /\ input' \in Seq(Symbols)
      BY <2>3, <2>4, Parts
    <2>6. inputbuff' \in Seq(Symbols) /\ Len(inputbuff') = Len(inputbuff) + n
      BY <2>3, <2>5
    <2>7. scanning' = TRUE /\ unsent' = unsent /\ commandPtr' = commandPtr
      BY <2>1 DEF ReceiveFrom
    <2>8. QED
      BY <2>2, <2>5, <2>6, <2>7 DEF Fits, RoomToRead
  <1>4. CASE SkipByte
    BY <1>4 DEF SkipByte, Scanning, Fits, RoomToRead
  <1>5. CASE TakeCommand
    <2>1. commandPtr + 1 \in 0 .. Len(inputbuff) /\ commandPtr + 1 + 1 = commandPtr + 2
      BY <1>1, <1>5 DEF TakeCommand, AtNewline, Scanning
    <2>2. inputbuff' \in Seq(Symbols) /\ Len(inputbuff') = Len(inputbuff) - (commandPtr + 1)
      BY <1>5, <2>1, Parts DEF TakeCommand
    <2>3. UNCHANGED <<input, unsent, scanning>> /\ commandPtr' = 1 /\ scanning
      BY <1>5 DEF TakeCommand, AtNewline, Scanning
    <2>4. QED
      BY <1>1, <2>1, <2>2, <2>3 DEF Fits, RoomToRead
  <1>6. CASE EndScan
    <2>1. CASE Len(inputbuff) = BufferSize
      BY <1>1, <1>6, <2>1, BufferAssumption DEF EndScan, Fits, RoomToRead
    <2>2. CASE Len(inputbuff) # BufferSize
      BY <1>1, <1>6, <2>2 DEF EndScan, Fits, RoomToRead
    <2>3. QED
      BY <2>1, <2>2
  <1>7. CASE Drained \/ UNCHANGED bufferVars
    BY <1>7 DEF Drained, bufferVars, Fits, RoomToRead
  <1>8. QED
    BY <1>2, <1>3, <1>4, <1>5, <1>6, <1>7 DEF BufferNext

\* Whenever poll() is called there is room for at least one byte, and no read goes
\* past the end of inputbuff[] (lab4b.c:174).
THEOREM RoomIsThere == Spec => [](RoomToRead /\ Fits)
  <1>1. IInv => RoomToRead /\ Fits
    BY DEF IInv
  <1>2. IInv /\ [Next]_bufferVars => IInv'
    BY AllIsSome, StepIInv
  <1>3. QED
    BY InitIInv, <1>1, <1>2, PTL DEF Spec
-----------------------------------------------------------------------------
(* What is taken out of the buffer is what was sent. *)

Chunks == [kind : {"command", "overlong"}, bytes : Seq(Symbols) \ {<<>>}]

ChunksTyped == chunks \in Seq(Chunks) /\ stream \in Seq(Symbols)

\* The bytes taken out so far.
Taken == [c \in DOMAIN chunks |-> chunks[c].bytes]
Done == FlattenSeq(Taken)

\* What is taken out in one step comes behind what was taken out before.
LEMMA TakenOut ==
  ASSUME ChunksTyped, NEW k \in {"command", "overlong"}, NEW b \in Seq(Symbols) \ {<<>>},
         chunks' = Append(chunks, [kind |-> k, bytes |-> b])
  PROVE  chunks' \in Seq(Chunks) /\ Done \in Seq(Symbols) /\ Done' = Done \o b
  <1>1. PICK chunk \in Chunks : chunk = [kind |-> k, bytes |-> b]
    BY DEF Chunks
  <1>2. chunk.bytes = b /\ chunks' = Append(chunks, chunk) /\ chunks \in Seq(Chunks)
    BY <1>1 DEF ChunksTyped
  <1>3. PICK n \in Nat : n = Len(chunks) /\ DOMAIN chunks = 1 .. n
    BY <1>2, LenProperties
  <1>4. \A c \in 1 .. n : chunks[c] \in Chunks
    BY <1>2, <1>3, ElementOfSeq
  <1>5. \A c \in 1 .. n : chunks[c].bytes \in Seq(Symbols)
    BY <1>4 DEF Chunks
  <1>6. Taken \in [1 .. n -> Seq(Symbols)]
    BY <1>3, <1>5 DEF Taken
  <1>7. Taken \in Seq(Seq(Symbols)) /\ Len(Taken) = n
    BY <1>6, FunctionsAreSequences
  <1>8. /\ chunks' \in Seq(Chunks) /\ Len(chunks') = n + 1 /\ DOMAIN chunks' = 1 .. n + 1
        /\ \A c \in 1 .. n : chunks'[c] = chunks[c]
        /\ chunks'[n + 1] = chunk
    BY <1>2, <1>3, AppendProperties, LenProperties
  <1>9. Taken' \in [1 .. n + 1 -> Seq(Symbols)]
    BY <1>2, <1>5, <1>8 DEF Taken
  <1>10. Taken' \in Seq(Seq(Symbols)) /\ Len(Taken') = n + 1
    BY <1>9, FunctionsAreSequences
  <1>11. \A c \in 1 .. n : Taken'[c] = Taken[c]
    BY <1>3, <1>8 DEF Taken
  <1>12. Taken'[n + 1] = b
    BY <1>2, <1>8 DEF Taken
  <1>13. PICK longer \in Seq(Seq(Symbols)) : longer = Append(Taken, b)
    BY <1>7, AppendProperties
  <1>14. Len(longer) = n + 1 /\ longer[n + 1] = b /\ \A c \in 1 .. n : longer[c] = Taken[c]
    BY <1>7, <1>13, AppendProperties
  <1>15. \A c \in 1 .. n + 1 : Taken'[c] = longer[c]
    BY <1>11, <1>12, <1>14
  <1>16. Taken' = Append(Taken, b)
    BY <1>10, <1>13, <1>14, <1>15, SeqEqual
  <1>17. FlattenSeq(Taken) \in Seq(Symbols) /\ FlattenSeq(Append(Taken, b)) = FlattenSeq(Taken) \o b
    BY <1>7, FlattenAppend
  <1>18. QED
    BY <1>8, <1>16, <1>17 DEF Done

LEMMA DoneTyped ==
  ASSUME ChunksTyped
  PROVE  Done \in Seq(Symbols)
  <1>1. PICK n \in Nat : n = Len(chunks) /\ DOMAIN chunks = 1 .. n
    BY LenProperties DEF ChunksTyped
  <1>2. \A c \in 1 .. n : chunks[c] \in Chunks
    BY <1>1, ElementOfSeq DEF ChunksTyped
  <1>3. Taken \in [1 .. n -> Seq(Symbols)]
    BY <1>1, <1>2 DEF Taken, Chunks
  <1>4. Taken \in Seq(Seq(Symbols)) /\ <<>> \in Seq(Symbols)
    BY <1>3, FunctionsAreSequences
  <1>5. QED
    BY <1>4, FlattenAppend DEF Done

\* The front and the rest make up the whole.
LEMMA Rejoined ==
  ASSUME NEW s \in Seq(Symbols), NEW n \in 0 .. Len(s)
  PROVE  SubSeq(s, 1, n) \o SubSeq(s, n + 1, Len(s)) = s
  <1>1. Len(s) \in Nat
    OBVIOUS
  <1>2. 1 \in 1 .. Len(s) + 1 /\ n \in 1 - 1 .. Len(s) /\ Len(s) \in n .. Len(s)
    BY <1>1
  <1>3. SubSeq(s, 1, n) \o SubSeq(s, n + 1, Len(s)) = SubSeq(s, 1, Len(s))
    BY <1>2, ConcatAdjacentSubSeq
  <1>4. QED
    BY <1>3, SubSeqFull

LEMMA Associative ==
  \A s, t, u \in Seq(Symbols) : (s \o t) \o u = s \o (t \o u)
  BY ConcatAssociative

LEMMA ConservedInitially ==
  ASSUME Init
  PROVE  ChunksTyped /\ BytesConserved
  <1>1. stream \in Seq(Symbols) /\ unsent = stream /\ inputbuff = <<>> /\ input = <<>> /\ chunks = <<>>
    BY StreamsAreSequences DEF Init, Symbols
  <1>2. [c \in DOMAIN chunks |-> chunks[c].bytes] = <<>>
    BY <1>1
  <1>3. <<>> \o <<>> = <<>> /\ <<>> \o stream = stream
    BY <1>1, ConcatEmptySeq, EmptySeq
  <1>4. BytesConserved
    BY <1>1, <1>2, <1>3, FlattenEmpty DEF BytesConserved
  <1>5. QED
    BY <1>1, <1>4, EmptySeq DEF ChunksTyped

Regrouping(x, y, a, b) == (x \o (y \o a)) \o b = (x \o y) \o (a \o b)

LEMMA Regrouped ==
  ASSUME NEW x \in Seq(Symbols), NEW y \in Seq(Symbols), NEW a \in Seq(Symbols), NEW b \in Seq(Symbols)
  PROVE  Regrouping(x, y, a, b)
  <1>1. PICK z \in Seq(Symbols) : z = x \o y
    BY ConcatProperties
  <1>2. (x \o y) \o a = x \o (y \o a)
    BY Associative, SMTT(20)
  <1>3. (z \o a) \o b = z \o (a \o b)
    BY Associative, SMTT(20)
  <1>4. QED
    BY <1>1, <1>2, <1>3 DEF Regrouping

LEMMA ConservedStep ==
  ASSUME IInv, ChunksTyped, BytesConserved, [BufferNext]_bufferVars
  PROVE  ChunksTyped' /\ BytesConserved'
  <1>1. \A a, b \in Seq(Symbols) : a \o b \in Seq(Symbols)
    BY ConcatProperties
  <1>2. /\ inputbuff \in Seq(Symbols) /\ input \in Seq(Symbols) /\ unsent \in Seq(Symbols)
        /\ Done \in Seq(Symbols) /\ stream \in Seq(Symbols)
    BY DoneTyped DEF IInv, Typed, ChunksTyped
  <1>3. BytesConserved <=> ((Done \o inputbuff) \o input) \o unsent = stream
    BY DEF BytesConserved, Done, Taken
  <1>4. BytesConserved' <=> ((Done' \o inputbuff') \o input') \o unsent' = stream'
    BY DEF BytesConserved, Done, Taken
  <1>5. Len(inputbuff) \in Nat /\ Len(input) \in Nat /\ Len(unsent) \in Nat /\ commandPtr \in Nat
    BY <1>2, LenProperties DEF IInv, Typed
  <1>6. CASE UNCHANGED <<chunks, stream>>
    <2>1. Done' = Done /\ ChunksTyped'
      BY <1>6 DEF Done, Taken, ChunksTyped
    <2>2. CASE Arrive
      <3>1. PICK n \in 1 .. Len(unsent) : ArriveBytes(n)
        BY <2>2 DEF Arrive
      <3>2. n \in 0 .. Len(unsent)
        OBVIOUS
      <3>3. PICK a \in Seq(Symbols), b \in Seq(Symbols) :
              a = SubSeq(unsent, 1, n) /\ b = SubSeq(unsent, n + 1, Len(unsent))
        BY <1>2, <3>2, Parts
      <3>4. a \o b = unsent
        BY <1>2, <3>2, <3>3, Rejoined
      <3>5. input' = input \o a /\ unsent' = b /\ inputbuff' = inputbuff /\ stream' = stream
        BY <3>1, <3>3 DEF ArriveBytes
      <3>6. PICK x \in Seq(Symbols), y \in Seq(Symbols) : x = Done \o inputbuff /\ y = input
        BY <1>1, <1>2
      <3>7. Regrouping(x, y, a, b)
        BY Regrouped
      <3>8. QED
        BY <1>3, <1>4, <2>1, <3>4, <3>5, <3>6, <3>7 DEF Regrouping
    <2>3. CASE ReceiveSome
      <3>1. PICK k \in 1 .. Len(input) : ReceiveFrom(k)
        BY <2>3 DEF ReceiveSome
      <3>2. PICK n \in Nat : n = ReadSize(k) /\ n \in 0 .. Len(input)
        BY <1>5, ReadSizeBounded DEF IInv, validPtr
      <3>3. PICK a \in Seq(Symbols), b \in Seq(Symbols) :
              a = SubSeq(input, 1, n) /\ b = SubSeq(input, n + 1, Len(input))
        BY <1>2, <3>2, Parts
      <3>4. a \o b = input
        BY <1>2, <3>2, <3>3, Rejoined
      <3>5. inputbuff' = inputbuff \o a /\ input' = b /\ unsent' = unsent /\ stream' = stream
        BY <3>1, <3>2, <3>3 DEF ReceiveFrom
      <3>6. PICK x \in Seq(Symbols), y \in Seq(Symbols) : x = Done /\ y = inputbuff
        BY <1>2
      <3>7. Regrouping(x, y, a, b)
        BY Regrouped
      <3>8. QED
        BY <1>3, <1>4, <2>1, <3>4, <3>5, <3>6, <3>7 DEF Regrouping
    <2>4. CASE SkipByte \/ Drained \/ UNCHANGED bufferVars
      BY <1>3, <1>4, <2>1, <2>4 DEF SkipByte, Drained, bufferVars
    <2>5. CASE EndScan
      <3>1. UNCHANGED <<inputbuff, input, unsent, stream>>
        <4>1. Len(inputbuff) = BufferSize => Len(chunks') = Len(chunks) + 1
          BY <2>5, AppendProperties DEF EndScan, ChunksTyped, Chunks, validPtr
        <4>2. Len(inputbuff) # BufferSize
          BY <1>6, <4>1, LenProperties DEF ChunksTyped
        <4>3. QED
          BY <2>5, <4>2 DEF EndScan, validPtr
      <3>2. QED
        BY <1>3, <1>4, <2>1, <3>1
    <2>6. CASE TakeCommand
      <3>1. Len(chunks') = Len(chunks) + 1
        BY <2>6, AppendProperties DEF TakeCommand, ChunksTyped, Chunks
      <3>2. QED
        BY <1>6, <3>1, LenProperties DEF ChunksTyped
    <2>7. QED
      BY <2>2, <2>3, <2>4, <2>5, <2>6 DEF BufferNext
  <1>7. CASE TakeCommand
    <2>1. PICK n \in Nat : n = commandPtr + 1 /\ n \in 0 .. Len(inputbuff) /\ n + 1 = commandPtr + 2
      BY <1>5, <1>7 DEF TakeCommand, AtNewline, Scanning, validPtr
    <2>2. PICK a \in Seq(Symbols), b \in Seq(Symbols) :
            a = SubSeq(inputbuff, 1, n) /\ b = SubSeq(inputbuff, n + 1, Len(inputbuff))
      BY <1>2, <2>1, Parts
    <2>3. a \o b = inputbuff
      BY <1>2, <2>1, <2>2, Rejoined
    <2>4. /\ chunks' = Append(chunks, [kind |-> "command", bytes |-> a])
          /\ inputbuff' = b /\ UNCHANGED <<input, unsent, stream>>
      BY <1>7, <2>1, <2>2 DEF TakeCommand, Command, validPtr
    <2>5. chunks' \in Seq(Chunks) /\ Done' = Done \o a
      <3>1. Len(a) = n /\ n > 0
        BY <1>2, <1>5, <2>1, <2>2, Parts
      <3>2. a # <<>>
        BY <3>1, EmptySeq
      <3>3. QED
        BY <2>4, <3>2, TakenOut
    <2>6. (Done \o a) \o b = Done \o (a \o b)
      BY <1>2
    <2>7. QED
      BY <1>2, <1>3, <1>4, <2>3, <2>4, <2>5, <2>6 DEF ChunksTyped
  <1>8. CASE EndScan /\ Len(inputbuff) = BufferSize
    <2>1. /\ chunks' = Append(chunks, [kind |-> "overlong", bytes |-> inputbuff])
          /\ inputbuff' = <<>> /\ UNCHANGED <<input, unsent, stream>>
      BY <1>8 DEF EndScan, validPtr
    <2>2. chunks' \in Seq(Chunks) /\ Done' = Done \o inputbuff
      <3>1. inputbuff # <<>>
        BY <1>8, BufferAssumption, EmptySeq
      <3>2. QED
        BY <1>2, <2>1, <3>1, TakenOut
    <2>3. Done' \o <<>> = Done'
      BY <1>1, <1>2, <2>2, ConcatEmptySeq
    <2>4. QED
      BY <1>2, <1>3, <1>4, <2>1, <2>2, <2>3 DEF ChunksTyped
  <1>9. QED
    <2>1. CASE EndScan /\ Len(inputbuff) # BufferSize
      BY <1>6, <2>1 DEF EndScan, validPtr
    <2>2. QED
      BY <1>6, <1>7, <1>8, <2>1 DEF BufferNext, Arrive, ArriveBytes, ReceiveSome, ReceiveFrom, SkipByte, Drained, bufferVars

\* Not a byte is lost, repeated or moved past another one between read() and
\* processCommand (lab4b.c:174-200), into whatever reads the stream is cut.
THEOREM NoByteIsLost == Spec => []BytesConserved
  <1>1. Init => IInv /\ ChunksTyped /\ BytesConserved
    BY InitIInv, ConservedInitially
  <1>2. IInv /\ ChunksTyped /\ BytesConserved /\ [Next]_bufferVars
          => IInv' /\ ChunksTyped' /\ BytesConserved'
    BY AllIsSome, StepIInv, ConservedStep
  <1>3. QED
    BY <1>1, <1>2, PTL DEF Spec
-----------------------------------------------------------------------------
(* What is taken out is lines. *)

\* The bytes before commandPtr have been looked at, but for the first: commandPtr
\* goes from 0 to 1 without a look when a command has been taken out.
Looked ==
  /\ commandPtr <= Len(inputbuff) \/ commandPtr = 1
  /\ \A n \in 2 .. commandPtr : n \in DOMAIN inputbuff => inputbuff[n] # NL

\* In a plain stream the buffer begins where a line begins.
AtLineStart == Plain => Done = <<>> \/ Done[Len(Done)] = NL

\* What LinesProcessed says of one chunk.
LineTaken(kind, bytes) ==
  /\ Plain => kind = "command" /\ Newlines(bytes) = {Len(bytes)}
  /\ kind = "command" => Len(bytes) \in Newlines(bytes)
  /\ Newlines(bytes) \subseteq {1, Len(bytes)}

LinesInv == Looked /\ AtLineStart /\ LinesProcessed

\* A line that begins behind done ends at the next newline, or with the stream.
LEMMA NextLine ==
  ASSUME NEW done \in Seq(Symbols), NEW rest \in Seq(Symbols), stream = done \o rest, Plain,
         done = <<>> \/ done[Len(done)] = NL,
         NEW n \in Newlines(stream) \cup {Len(stream) + 1}, n > Len(done),
         \A m \in Newlines(stream) : m < n => m <= Len(done)
  PROVE  n - Len(done) \in 1 .. BufferSize /\ (n \in Newlines(stream) => n - Len(done) > 1)
  <1>1. PICK d \in Nat, len \in Nat : d = Len(done) /\ len = Len(stream)
    BY ConcatProperties, LenProperties
  <1>2. stream \in Seq(Symbols) /\ DOMAIN stream = 1 .. len /\ d <= len
        /\ \A k \in 1 .. d : stream[k] = done[k]
    BY <1>1, ConcatProperties, LenProperties
  <1>3. Newlines(stream) \subseteq 1 .. len /\ n \in Nat
    BY <1>1, <1>2 DEF Newlines
  <1> DEFINE before == {m \in Newlines(stream) : m < n}
             start == IF before = {} THEN 0 ELSE CHOOSE m \in before : \A k \in before : k <= m
  <1>4. n - start \in 1 .. BufferSize /\ (n \in Newlines(stream) => n - start > 1)
    BY DEF Plain
  <1>5. start = d
    <2>1. CASE d = 0
      <3>1. before = {}
        BY <1>1, <1>3, <2>1
      <3>2. QED
        BY <2>1, <3>1
    <2>2. CASE d # 0
      <3>1. done # <<>> /\ d \in 1 .. d
        BY <1>1, <2>2, EmptySeq
      <3>2. d \in Newlines(stream)
        BY <1>1, <1>2, <3>1 DEF Newlines
      <3>3. d \in before /\ \A k \in before : k <= d
        BY <1>1, <1>3, <3>2
      <3>4. start \in before /\ \A k \in before : k <= start
        BY <3>3
      <3> HIDE DEF start
      <3>5. start \in Nat
        BY <1>3, <3>4
      <3>6. QED
        BY <1>1, <3>3, <3>4, <3>5
    <2>3. QED
      BY <2>1, <2>2
  <1>6. QED
    BY <1>1, <1>4, <1>5

\* So a line of a plain stream is not empty, and fits into the buffer.
LEMMA PlainLine ==
  ASSUME NEW done \in Seq(Symbols), NEW rest \in Seq(Symbols), stream = done \o rest, Plain,
         done = <<>> \/ done[Len(done)] = NL
  PROVE  /\ rest # <<>> => rest[1] # NL
         /\ Len(rest) >= BufferSize => \E n \in 1 .. BufferSize : rest[n] = NL
  <1>1. PICK d \in Nat, r \in Nat : d = Len(done) /\ r = Len(rest)
    BY LenProperties
  <1>2. /\ Len(stream) = d + r /\ DOMAIN stream = 1 .. d + r
        /\ \A k \in 1 .. d + r : stream[k] = IF k <= d THEN done[k] ELSE rest[k - d]
    BY <1>1, ConcatProperties, LenProperties
  <1>3. BufferSize \in Nat \ {0, 1}
    BY BufferAssumption
  <1>4. ASSUME rest # <<>>, rest[1] = NL PROVE FALSE
    <2>1. r >= 1
      BY <1>1, <1>4, EmptySeq
    <2>2. PICK n \in Nat : n = d + 1
      OBVIOUS
    <2>3. n \in 1 .. d + r /\ ~(n <= d) /\ n - d = 1
      BY <2>1, <2>2
    <2>4. n \in Newlines(stream)
      BY <1>2, <1>4, <2>3 DEF Newlines
    <2>5. \A m \in Newlines(stream) : m < n => m <= d
      BY <1>2, <2>2 DEF Newlines
    <2>6. n - d > 1
      <3>1. /\ n \in Newlines(stream) \cup {Len(stream) + 1} /\ n > Len(done)
            /\ \A m \in Newlines(stream) : m < n => m <= Len(done)
        BY <1>1, <2>2, <2>4, <2>5
      <3>2. n - Len(done) > 1
        BY <2>4, <3>1, NextLine
      <3>3. QED
        BY <1>1, <3>2
    <2>7. QED
      BY <2>3, <2>6
  <1>5. ASSUME r >= BufferSize, \A n \in 1 .. BufferSize : rest[n] # NL PROVE FALSE
    <2> DEFINE ends == {n \in Newlines(stream) \cup {d + r + 1} : n > d}
    <2>1. ends \in SUBSET Nat /\ d + r + 1 \in ends
      BY <1>2 DEF Newlines
    <2>2. PICK n \in ends : \A m \in ends : n <= m
      BY <2>1, LeastNatural
    <2>3. n \in Nat /\ n > d /\ n \in Newlines(stream) \cup {Len(stream) + 1}
      BY <1>2, <2>1, <2>2
    <2>4. \A m \in Newlines(stream) : m \in Nat /\ (m > d => m \in ends)
      BY <1>2 DEF Newlines
    <2>5. \A m \in Newlines(stream) : m < n => m <= d
      BY <2>2, <2>3, <2>4
    <2>6. n - d \in 1 .. BufferSize
      BY <1>1, <2>3, <2>5, NextLine
    <2>7. n - d <= r
      BY <1>3, <1>5, <2>6
    <2>8. n \in Newlines(stream)
      BY <1>2, <2>3, <2>7
    <2>9. stream[n] = NL /\ n \in 1 .. d + r /\ ~(n <= d)
      BY <1>2, <2>3, <2>8 DEF Newlines
    <2>10. rest[n - d] = NL
      BY <1>2, <2>9
    <2>11. QED
      BY <1>5, <2>6, <2>10
  <1>6. QED
    BY <1>1, <1>4, <1>5

\* What is in the buffer follows what has been taken out of it.
LEMMA BufferInStream ==
  ASSUME IInv, ChunksTyped, BytesConserved, AtLineStart, Plain
  PROVE  /\ inputbuff # <<>> => inputbuff[1] # NL
         /\ Len(inputbuff) = BufferSize => \E n \in 1 .. BufferSize : inputbuff[n] = NL
  <1>1. PICK done \in Seq(Symbols), buff \in Seq(Symbols), p \in Seq(Symbols), u \in Seq(Symbols) :
          done = Done /\ buff = inputbuff /\ p = input /\ u = unsent
    BY DoneTyped DEF IInv, Typed
  <1>2. stream = ((done \o buff) \o p) \o u
    BY <1>1 DEF BytesConserved, Done, Taken
  <1>3. PICK z \in Seq(Symbols) : z = done \o buff
    BY ConcatProperties
  <1>4. PICK y \in Seq(Symbols) : y = p \o u
    BY ConcatProperties
  <1>5. PICK rest \in Seq(Symbols) : rest = buff \o y
    BY ConcatProperties
  <1>6. (z \o p) \o u = z \o (p \o u)
    BY SMTT(20)
  <1>7. (done \o buff) \o y = done \o (buff \o y)
    BY SMTT(20)
  <1>8. stream = done \o rest
    BY <1>2, <1>3, <1>4, <1>5, <1>6, <1>7
  <1>9. done = <<>> \/ done[Len(done)] = NL
    BY <1>1 DEF AtLineStart
  <1>10. /\ rest # <<>> => rest[1] # NL
         /\ Len(rest) >= BufferSize => \E n \in 1 .. BufferSize : rest[n] = NL
    BY <1>8, <1>9, PlainLine
  <1>11. PICK b \in Nat, l \in Nat : b = Len(buff) /\ l = Len(y)
    BY LenProperties
  <1>12. Len(rest) = b + l /\ \A n \in 1 .. b : rest[n] = buff[n]
    BY <1>5, <1>11, ConcatProperties
  <1>13. buff # <<>> => buff[1] # NL
    <2>1. SUFFICES ASSUME buff # <<>> PROVE buff[1] # NL
      OBVIOUS
    <2>2. b >= 1
      BY <1>11, <2>1, EmptySeq
    <2>3. 1 \in 1 .. b /\ rest # <<>>
      BY <1>11, <1>12, <2>2, EmptySeq
    <2>4. QED
      BY <1>10, <1>12, <2>3
  <1>14. b = BufferSize => \E n \in 1 .. BufferSize : buff[n] = NL
    <2>1. SUFFICES ASSUME b = BufferSize PROVE \E n \in 1 .. b : buff[n] = NL
      OBVIOUS
    <2>2. Len(rest) >= BufferSize
      BY <1>11, <1>12, <2>1
    <2>3. PICK n \in 1 .. BufferSize : rest[n] = NL
      BY <1>10, <2>2
    <2>4. QED
      BY <1>12, <2>1, <2>3
  <1>15. QED
    BY <1>1, <1>11, <1>13, <1>14

\* Taking a line out keeps LinesProcessed.
LEMMA OneMoreLine ==
  ASSUME ChunksTyped, LinesProcessed, NEW k \in {"command", "overlong"}, NEW b \in Seq(Symbols) \ {<<>>},
         chunks' = Append(chunks, [kind |-> k, bytes |-> b]), stream' = stream, LineTaken(k, b)
  PROVE  LinesProcessed'
  <1>1. PICK chunk \in Chunks : chunk = [kind |-> k, bytes |-> b]
    BY DEF Chunks
  <1>2. chunk.bytes = b /\ chunk.kind = k /\ chunks' = Append(chunks, chunk) /\ chunks \in Seq(Chunks)
    BY <1>1 DEF ChunksTyped
  <1>3. PICK n \in Nat : n = Len(chunks) /\ DOMAIN chunks = 1 .. n
    BY <1>2, LenProperties
  <1>4. /\ chunks' \in Seq(Chunks) /\ Len(chunks') = n + 1 /\ DOMAIN chunks' = 1 .. n + 1
        /\ \A c \in 1 .. n : chunks'[c] = chunks[c]
        /\ chunks'[n + 1] = chunk
    BY <1>2, <1>3, AppendProperties, LenProperties
  <1>5. \A c \in 1 .. n : LineTaken(chunks[c].kind, chunks[c].bytes)
    BY <1>3 DEF LinesProcessed, LineTaken
  <1>6. \A c \in 1 .. n + 1 : LineTaken(chunks'[c].kind, chunks'[c].bytes)
    BY <1>2, <1>4, <1>5
  <1>7. Plain' <=> Plain
    BY DEF Plain, Newlines
  <1>8. QED
    BY <1>4, <1>6, <1>7 DEF LinesProcessed, LineTaken, Newlines

LEMMA LinesInitially ==
  ASSUME Init
  PROVE  LinesInv
  <1>1. inputbuff = <<>> /\ commandPtr = 0 /\ chunks = <<>>
    BY DEF Init
  <1>2. Done = <<>>
    <2>1. [c \in DOMAIN chunks |-> chunks[c].bytes] = <<>>
      BY <1>1
    <2>2. QED
      BY <2>1, FlattenEmpty DEF Done, Taken
  <1>3. QED
    BY <1>1, <1>2 DEF LinesInv, Looked, AtLineStart, LinesProcessed

LEMMA LinesStep ==
  ASSUME IInv, ChunksTyped, BytesConserved, LinesInv, [BufferNext]_bufferVars
  PROVE  LinesInv'
  <1>1. inputbuff \in Seq(Symbols) /\ input \in Seq(Symbols) /\ commandPtr \in Nat /\ BufferSize \in Nat \ {0, 1}
    BY BufferAssumption DEF IInv, Typed
  <1>2. PICK len \in Nat : len = Len(inputbuff) /\ DOMAIN inputbuff = 1 .. len
    BY <1>1, LenProperties
  <1>3. stream' = stream /\ (Plain' <=> Plain)
    BY DEF BufferNext, Arrive, ArriveBytes, ReceiveSome, ReceiveFrom, SkipByte, TakeCommand, EndScan, Drained, bufferVars, Plain, Newlines
  <1>4. ASSUME chunks' = chunks
        PROVE  AtLineStart' /\ LinesProcessed'
    BY <1>3, <1>4 DEF LinesInv, AtLineStart, LinesProcessed, Done, Taken, Newlines
  <1>5. CASE Arrive
    BY <1>4, <1>5 DEF Arrive, ArriveBytes, LinesInv, Looked
  <1>6. CASE ReceiveSome
    <2>1. PICK k \in 1 .. Len(input) : ReceiveFrom(k)
      BY <1>6 DEF ReceiveSome
    <2>2. PICK n \in Nat : n = ReadSize(k) /\ n \in 0 .. Len(input)
      <3>1. Len(input) \in Nat /\ Len(inputbuff) \in Nat
        BY <1>1, LenProperties
      <3>2. QED
        BY <3>1, ReadSizeBounded DEF IInv, validPtr
    <2>3. PICK a \in Seq(Symbols) : a = SubSeq(input, 1, n)
      BY <1>1, <2>2, Parts
    <2>4. inputbuff' = inputbuff \o a /\ UNCHANGED <<commandPtr, chunks>>
      BY <2>1, <2>2, <2>3 DEF ReceiveFrom
    <2>5. /\ inputbuff' \in Seq(Symbols) /\ Len(inputbuff') = len + Len(a) /\ Len(a) \in Nat
          /\ \A m \in 1 .. len : inputbuff'[m] = inputbuff[m]
      BY <1>1, <1>2, <2>3, <2>4, ConcatProperties, LenProperties
    <2>6. Looked'
      BY <1>1, <1>2, <2>4, <2>5 DEF LinesInv, Looked
    <2>7. QED
      BY <1>4, <2>4, <2>6 DEF LinesInv
  <1>7. CASE SkipByte
    <2>1. /\ commandPtr < len /\ inputbuff[commandPtr + 1] # NL /\ commandPtr' = commandPtr + 1
          /\ UNCHANGED <<inputbuff, chunks>>
      BY <1>2, <1>7 DEF SkipByte, AtNewline, Scanning, validPtr
    <2>2. Looked'
      BY <1>1, <1>2, <2>1 DEF LinesInv, Looked
    <2>3. QED
      BY <1>4, <2>1, <2>2 DEF LinesInv
  <1>8. CASE TakeCommand
    <2>1. PICK n \in Nat : n = commandPtr + 1 /\ n \in 1 .. len /\ inputbuff[n] = NL
      BY <1>1, <1>2, <1>8 DEF TakeCommand, AtNewline, Scanning, validPtr
    <2>2. PICK b \in Seq(Symbols) \ {<<>>} :
            /\ b = SubSeq(inputbuff, 1, n) /\ Len(b) = n /\ DOMAIN b = 1 .. n
            /\ \A m \in 1 .. n : b[m] = inputbuff[m]
      <3>1. \A m \in 1 .. n : inputbuff[m] \in Symbols
        BY <1>1, <1>2, <2>1, ElementOfSeq
      <3>2. PICK b : b = SubSeq(inputbuff, 1, n)
        OBVIOUS
      <3>3. b \in Seq(Symbols) /\ Len(b) = n /\ \A m \in 1 .. n : b[m] = inputbuff[m]
        BY <2>1, <3>1, <3>2, SubSeqProperties
      <3>4. b # <<>>
        BY <2>1, <3>3, EmptySeq
      <3>5. QED
        BY <3>2, <3>3, <3>4, LenProperties
    <2>3. chunks' = Append(chunks, [kind |-> "command", bytes |-> b]) /\ commandPtr' = 1
      BY <1>8, <2>1, <2>2 DEF TakeCommand, Command, validPtr
    <2>4. n \in Newlines(b) /\ \A m \in Newlines(b) : m \in {1, n}
      BY <1>1, <1>2, <2>1, <2>2 DEF Newlines, LinesInv, Looked
    <2>5. Plain => Newlines(b) = {n}
      <3>1. SUFFICES ASSUME Plain, 1 \in Newlines(b) PROVE n = 1
        BY <2>4
      <3>2. inputbuff[1] = NL /\ inputbuff # <<>>
        BY <1>2, <2>1, <2>2, <3>1, EmptySeq DEF Newlines
      <3>3. QED
        BY <3>1, <3>2, BufferInStream DEF LinesInv
    <2>6. LineTaken("command", b)
      BY <2>2, <2>4, <2>5 DEF LineTaken
    <2>7. LinesProcessed'
      BY <1>3, <2>3, <2>6, OneMoreLine DEF LinesInv
    <2>8. AtLineStart'
      <3>1. Done \in Seq(Symbols) /\ Done' = Done \o b
        BY <2>3, TakenOut
      <3>2. PICK d \in Nat : d = Len(Done)
        BY <3>1, LenProperties
      <3>3. Len(Done') = d + n /\ Done'[d + n] = b[n]
        BY <2>1, <2>2, <3>1, <3>2, ConcatProperties
      <3>4. QED
        BY <2>1, <2>2, <3>3 DEF AtLineStart
    <2>9. Looked'
      BY <2>3 DEF Looked
    <2>10. QED
      BY <2>7, <2>8, <2>9 DEF LinesInv
  <1>9. CASE EndScan /\ Len(inputbuff) = BufferSize
    <2>1. /\ chunks' = Append(chunks, [kind |-> "overlong", bytes |-> inputbuff])
          /\ inputbuff' = <<>> /\ commandPtr' = 0 /\ commandPtr >= len
      BY <1>2, <1>9 DEF EndScan, validPtr
    <2>2. \A m \in Newlines(inputbuff) : m = 1
      BY <1>1, <1>2, <2>1 DEF Newlines, LinesInv, Looked
    <2>3. ~Plain
      <3>1. SUFFICES ASSUME Plain PROVE FALSE
        OBVIOUS
      <3>2. PICK m \in 1 .. BufferSize : inputbuff[m] = NL
        BY <1>9, <3>1, BufferInStream DEF LinesInv
      <3>3. m = 1 /\ inputbuff # <<>>
        BY <1>1, <1>2, <1>9, <2>2, <3>2, EmptySeq DEF Newlines
      <3>4. QED
        BY <3>1, <3>2, <3>3, BufferInStream DEF LinesInv
    <2>4. LineTaken("overlong", inputbuff)
      BY <2>2, <2>3 DEF LineTaken
    <2>5. LinesProcessed'
      <3>1. inputbuff # <<>>
        BY <1>9, BufferAssumption, EmptySeq
      <3>2. QED
        BY <1>1, <1>3, <2>1, <2>4, <3>1, OneMoreLine DEF LinesInv
    <2>6. Looked' /\ AtLineStart'
      BY <1>3, <2>1, <2>3 DEF Looked, AtLineStart
    <2>7. QED
      BY <2>5, <2>6 DEF LinesInv
  <1>10. CASE (EndScan /\ Len(inputbuff) # BufferSize) \/ Drained \/ UNCHANGED bufferVars
    <2>1. UNCHANGED <<inputbuff, commandPtr, chunks>>
      BY <1>10 DEF EndScan, Drained, bufferVars, validPtr
    <2>2. QED
      BY <1>4, <2>1 DEF LinesInv, Looked
  <1>11. QED
    BY <1>5, <1>6, <1>7, <1>8, <1>9, <1>10 DEF BufferNext

\* Commands are lines (lab4b.c:181-196): processCommand gets what ends at a
\* newline, with no newline inside but possibly its first byte, and a stream
\* without empty and overlong lines is cut exactly at its newlines, whatever pieces
\* it arrives in.
THEOREM CommandsAreLines == Spec => []LinesProcessed
  <1>1. Init => IInv /\ ChunksTyped /\ BytesConserved /\ LinesInv
    BY InitIInv, ConservedInitially, LinesInitially
  <1>2. IInv /\ ChunksTyped /\ BytesConserved /\ LinesInv /\ [Next]_bufferVars
          => IInv' /\ ChunksTyped' /\ BytesConserved' /\ LinesInv'
    BY AllIsSome, StepIInv, ConservedStep, LinesStep
  <1>3. LinesInv => LinesProcessed
    BY DEF LinesInv
  <1>4. QED
    BY <1>1, <1>2, <1>3, PTL DEF Spec

\* What all this says of the types.
LEMMA BufferTypes ==
  ASSUME IInv, ChunksTyped, LinesInv, scanning \in BOOLEAN
  PROVE  TypeOK
  <1>1. PICK n \in Nat : n = Len(chunks)
    BY LenProperties DEF ChunksTyped
  <1>2. \A c \in 1 .. n : chunks[c] \in Chunks
    BY <1>1, ElementOfSeq DEF ChunksTyped
  <1>3. \A c \in 1 .. Len(chunks) :
          chunks[c].kind \in {"command", "overlong"} /\ chunks[c].bytes # <<>>
    BY <1>1, <1>2 DEF Chunks
  <1>4. commandPtr \in 0 .. BufferSize /\ validPtr <= BufferSize
    <2>1. Len(inputbuff) \in Nat /\ commandPtr \in Nat /\ BufferSize \in Nat \ {0, 1}
      BY LenProperties, BufferAssumption DEF IInv, Typed
    <2>2. QED
      BY <2>1 DEF IInv, Fits, validPtr, LinesInv, Looked
  <1>5. \A s \in {stream, input, unsent, inputbuff} : s \in Seq(Bytes \cup {NL})
    BY DEF IInv, Typed, ChunksTyped, Symbols
  <1>6. QED
    BY <1>3, <1>4, <1>5, Zenon DEF TypeOK

LEMMA ScanningTyped ==
  ASSUME scanning \in BOOLEAN, [BufferNext]_bufferVars
  PROVE  scanning' \in BOOLEAN
  <1>1. scanning' \in {scanning, TRUE, FALSE}
    BY DEF BufferNext, Arrive, ArriveBytes, ReceiveSome, ReceiveFrom, SkipByte, TakeCommand, EndScan, Drained, bufferVars
  <1>2. QED
    BY <1>1, Zenon

-----------------------------------------------------------------------------
(* The nodes. *)

MainLabels == {"connect", "id", "logid", "poll", "scan", "sample", "printsample",
               "logsample", "sleep", "print", "log", "close", "exit", "quit"}
IsrLabels == {"idle", "print", "log", "close", "exit", "quit"}

OutLines == {"ID", "F", "C", "SHUTDOWN"}
LogLines == Symbols \cup OutLines \cup {"OFF", "overlong"}

\* The buffer is CommandBuffer's, with all that is proved about it.
Buffered ==
  IInv /\ ChunksTyped /\ BytesConserved /\ LinesInv /\ scanning \in BOOLEAN

NodeTyped ==
  /\ pc \in [Threads -> MainLabels \cup IsrLabels]
  /\ pc["main"] \in MainLabels /\ pc["isr"] \in IsrLabels
  /\ run_flag \in BOOLEAN /\ logfile \in BOOLEAN /\ closed \in BOOLEAN
  /\ scale \in {"F", "C"} /\ sample \in {"F", "C"} /\ period \in {-1, 1, 2}
  /\ log \in Seq(LogLines) /\ out \in Seq(OutLines)
  /\ exit \in {Running, 0, 1, SegFault, SigPipe}

LinkTyped ==
  /\ link \in {"stdin", "tcp", "tls"}
  /\ shut \in BOOLEAN
  /\ peer \in {"none", "open"} \cup Gone

\* What has arrived over TLS is what is left inside SSL and the records behind it.
InSsl ==
  IF link = "tls"
  THEN records \in Seq(Seq(Symbols)) /\ inssl \in Seq(Symbols)
       /\ inssl \o FlattenSeq(records) = input
  ELSE records = <<>> /\ inssl = <<>>

\* The lines of the log that set the scale, and those that set run_flag.
ScaleLine(s) == IF s = "F" THEN "SCALE=F" ELSE "SCALE=C"
ScaleLines == {"SCALE=F", "SCALE=C"}
FlagLines == {"STOP", "START"}

\* The log tells the truth, and its last SCALE, STOP and START commands agree
\* with the globals; main does not obey commands with a sample in its hands.
Story ==
  logfile =>
    /\ LogTellsTheTruth
    /\ LastOf(log, Len(log) + 1, ScaleLines, "SCALE=F") = ScaleLine(scale)
    /\ run_flag <=> LastOf(log, Len(log) + 1, FlagLines, "START") = "START"
    /\ pc["main"] \in {"printsample", "logsample"} => sample = scale /\ run_flag

\* "SHUTDOWN" is not in s, or is its last line and no other.
NoShutdown(s) == \A n \in DOMAIN s : s[n] # "SHUTDOWN"
ShutdownLast(s) ==
  /\ s # <<>> /\ s[Len(s)] = "SHUTDOWN"
  /\ \A n \in 1 .. Len(s) - 1 : s[n] # "SHUTDOWN"

\* As long as the button has not been pressed the lines of main stand in order.
Quiet ==
  pc["isr"] = "idle" =>
    /\ pc["main"] \in {"log", "close", "exit", "quit"} => ShutdownLast(out)
    /\ pc["main"] \notin {"log", "close", "exit", "quit"} => NoShutdown(out)
    /\ pc["main"] \in {"connect", "id"} => out = <<>>
    /\ link # "stdin" /\ pc["main"] \notin {"connect", "id"} => out # <<>> /\ Head(out) = "ID"
    /\ exit = 0 => pc["main"] \in {"exit", "quit"}
    /\ logfile =>
         /\ pc["main"] \in {"close", "exit", "quit"} =>
              ShutdownLast(log) /\ Len(log) > 1 /\ log[Len(log) - 1] = "OFF"
         /\ pc["main"] \notin {"close", "exit", "quit"} => NoShutdown(log)
         /\ pc["main"] \in {"print", "log"} => log # <<>> /\ log[Len(log)] = "OFF"

-----------------------------------------------------------------------------
(* What SSL keeps. *)

\* The elements of a sequence behind its first n.
LEMMA RestElement ==
  ASSUME NEW s \in Seq(Symbols), NEW n \in Nat, NEW k \in Nat, Len(s) = n + k, NEW m \in 1 .. k
  PROVE  SubSeq(s, n + 1, Len(s))[m] = s[n + m]
  OBVIOUS

\* What is left of f when n of its elements are taken is what is left at the
\* front of f followed by g.
RestStays(f, g, i) ==
  \A n \in 0 .. Len(f) : SubSeq(f, n + 1, Len(f)) \o g = SubSeq(i, n + 1, Len(i))

LEMMA RestOfFront ==
  ASSUME NEW f \in Seq(Symbols), NEW g \in Seq(Symbols), NEW i \in Seq(Symbols), i = f \o g
  PROVE  RestStays(f, g, i)
  <1> SUFFICES ASSUME NEW n \in 0 .. Len(f)
               PROVE  SubSeq(f, n + 1, Len(f)) \o g = SubSeq(i, n + 1, Len(i))
    BY DEF RestStays
  <1>1. PICK a \in Seq(Symbols), b \in Seq(Symbols) :
          a = SubSeq(f, 1, n) /\ b = SubSeq(f, n + 1, Len(f)) /\ Len(a) = n
    <2>1. /\ SubSeq(f, 1, n) \in Seq(Symbols) /\ Len(SubSeq(f, 1, n)) = n
          /\ SubSeq(f, n + 1, Len(f)) \in Seq(Symbols)
      BY Parts
    <2>2. QED
      BY <2>1
  <1>2. a \o b = f
    BY <1>1, Rejoined
  <1>3. (a \o b) \o g = a \o (b \o g)
    BY Associative
  <1>4. PICK r \in Seq(Symbols) : r = b \o g
    BY ConcatProperties
  <1>5. i = a \o r
    BY <1>2, <1>3, <1>4
  <1>6. PICK k \in Nat : k = Len(r)
    BY LenProperties
  <1>7. Len(i) = n + k /\ \A m \in 1 .. n + k : i[m] = IF m <= n THEN a[m] ELSE r[m - n]
    BY <1>1, <1>5, <1>6, ConcatProperties
  <1>8. PICK q \in Seq(Symbols) : q = SubSeq(i, n + 1, Len(i)) /\ Len(q) = k
    <2>1. n \in 0 .. Len(i) /\ Len(i) - n = k
      BY <1>7
    <2>2. SubSeq(i, n + 1, Len(i)) \in Seq(Symbols) /\ Len(SubSeq(i, n + 1, Len(i))) = Len(i) - n
      BY <2>1, Parts
    <2>3. QED
      BY <2>1, <2>2
  <1>9. \A m \in 1 .. k : q[m] = r[m]
    <2>1. TAKE m \in 1 .. k
    <2>2. n + m \in 1 .. n + k /\ ~(n + m <= n) /\ n + m - n = m
      OBVIOUS
    <2>3. q[m] = i[n + m]
      <3>1. SubSeq(i, n + 1, Len(i))[m] = i[n + m]
        <4>1. n \in Nat
          BY LenProperties
        <4>2. Len(i) = n + k
          BY <1>7, Zenon
        <4>3. QED
          BY <4>1, <4>2, RestElement, Zenon
      <3>2. QED
        BY <1>8, <3>1
    <2>4. i[n + m] = r[m]
      <3>1. PICK j \in 1 .. n + k : j = n + m /\ ~(j <= n) /\ j - n = m
        BY <2>2
      <3>2. i[j] = r[j - n]
        BY <1>7, <3>1
      <3>3. QED
        BY <3>1, <3>2, Zenon
    <2>5. QED
      BY <2>3, <2>4, Zenon
  <1>10. q = r
    BY <1>6, <1>8, <1>9, SeqEqual
  <1>11. QED
    BY <1>1, <1>4, <1>8, <1>10

\* The first record and the rest.
LEMMA FirstRecord ==
  ASSUME NEW s \in Seq(Seq(Symbols)), s # <<>>
  PROVE  /\ Head(s) \in Seq(Symbols) /\ Tail(s) \in Seq(Seq(Symbols))
         /\ FlattenSeq(s) = Head(s) \o FlattenSeq(Tail(s))
  <1>1. PICK h \in Seq(Symbols), t \in Seq(Seq(Symbols)) : h = Head(s) /\ t = Tail(s)
    BY HeadTailProperties
  <1>2. PICK one \in Seq(Seq(Symbols)) : one = Append(<<>>, h)
    BY AppendProperties, EmptySeq
  <1>3. s = one \o t
    BY <1>1, <1>2
  <1>4. FlattenSeq(s) = FlattenSeq(one) \o FlattenSeq(t)
    BY <1>3, FlattenConcat
  <1>5. FlattenSeq(one) = FlattenSeq(<<>>) \o h
    BY <1>2, FlattenAppend, EmptySeq
  <1>6. FlattenSeq(one) = h
    BY <1>5, FlattenEmpty, ConcatEmptySeq
  <1>7. QED
    BY <1>1, <1>4, <1>6

\* What SSL has to give, and what it has not fetched.
LEMMA FetchedFirst ==
  ASSUME link = "tls", InSsl
  PROVE  /\ Fetched \in Seq(Symbols) /\ Unfetched \in Seq(Seq(Symbols))
         /\ Fetched \o FlattenSeq(Unfetched) = input
  <1>1. CASE inssl # <<>> \/ records = <<>>
    BY <1>1 DEF InSsl, Fetched, Unfetched
  <1>2. CASE inssl = <<>> /\ records # <<>>
    <2>1. Fetched = Head(records) /\ Unfetched = Tail(records)
      BY <1>2 DEF Fetched, Unfetched
    <2>2. records \in Seq(Seq(Symbols)) /\ <<>> \o FlattenSeq(records) = input
      BY <1>2 DEF InSsl
    <2>3. FlattenSeq(records) \in Seq(Symbols)
      BY <2>2, FlattenAppend, EmptySeq
    <2>4. FlattenSeq(records) = input
      BY <2>2, <2>3, ConcatEmptySeq
    <2>5. QED
      BY <1>2, <2>1, <2>2, <2>4, FirstRecord
  <1>3. QED
    BY <1>1, <1>2

\* A read never returns more than has arrived.
LEMMA AvailableArrived ==
  ASSUME Buffered, InSsl, link \in {"tcp", "tls"}
  PROVE  Available \in 0 .. Len(input)
  <1>1. input \in Seq(Symbols)
    BY DEF Buffered, IInv, Typed
  <1>2. CASE link = "tcp"
    BY <1>1, <1>2, LenProperties DEF Available
  <1>3. CASE link = "tls"
    <2>1. PICK f \in Seq(Symbols), u \in Seq(Seq(Symbols)) : f = Fetched /\ u = Unfetched
      BY <1>3, FetchedFirst
    <2>2. PICK g \in Seq(Symbols) : g = FlattenSeq(u)
      BY FlattenAppend, EmptySeq
    <2>3. input = f \o g
      BY <1>3, <2>1, <2>2, FetchedFirst
    <2>4. Len(input) = Len(f) + Len(g) /\ Len(f) \in Nat /\ Len(g) \in Nat
      BY <2>3, ConcatProperties, LenProperties
    <2>5. Available = Len(f)
      BY <1>3, <2>1 DEF Available
    <2>6. QED
      BY <2>4, <2>5
  <1>4. QED
    BY <1>2, <1>3

-----------------------------------------------------------------------------
(* The actions, sorted by what they do. *)

\* buttonPress, in either thread.
ButtonStep(th) ==
  \/ PrintShutdown(th) \/ SendShutdown(th) \/ LogShutdown(th) \/ CloseSensors(th)
  \/ Exit(th) \/ ShutdownSocket(th) \/ Quit(th)

\* What main does by itself.
OpenStep == Connect \/ SendId \/ LogId
ReadStep == Poll \/ (link # "stdin" /\ NetPoll)
CommandStep == Scan \/ ProcessCommand \/ NetProcessCommand
SampleStep == Sample \/ PrintSample \/ SendSample \/ LogSample \/ Sleep

NodeStep ==
  \/ \E th \in Threads : ButtonStep(th)
  \/ OpenStep \/ ReadStep \/ CommandStep \/ SampleStep \/ Press

\* A step of the node, which has not ended, or a step that leaves it alone.
LEMMA Steps ==
  ASSUME [NetNext]_netVars
  PROVE  (exit = Running /\ NodeStep) \/ UNCHANGED nodeVars
  <1>1. CASE AnyMain
    <2>1. CASE link = "stdin"
      BY <1>1, <2>1 DEF AnyMain, Main, MainLoop, MainSample, ButtonPress,
        NodeStep, ButtonStep, ReadStep, CommandStep, SampleStep, Threads
    <2>2. CASE link # "stdin"
      BY <1>1, <2>2 DEF AnyMain, NetMain, NetButtonPress,
        NodeStep, ButtonStep, OpenStep, ReadStep, CommandStep, SampleStep, Threads
    <2>3. QED
      BY <2>1, <2>2
  <1>2. CASE AnyIsr
    <2>1. CASE link = "stdin"
      BY <1>2, <2>1 DEF AnyIsr, Isr, ButtonPress, NodeStep, ButtonStep, Threads
    <2>2. CASE link # "stdin"
      BY <1>2, <2>2 DEF AnyIsr, NetButtonPress, NodeStep, ButtonStep, Threads
    <2>3. QED
      BY <2>1, <2>2
  <1>3. CASE AnyPress
    BY <1>3 DEF AnyPress, NodeStep
  <1>4. CASE Network
    BY <1>4 DEF Network, NetArrive
  <1>5. CASE PeerLeaves
    BY <1>5 DEF PeerLeaves, vars
  <1>6. CASE NetEnded \/ UNCHANGED netVars
    BY <1>6 DEF NetEnded, Ended, netVars, vars
  <1>7. QED
    BY <1>1, <1>2, <1>3, <1>4, <1>5, <1>6 DEF NetNext

\* The steps that lab4b does not have; its own have nothing to do with a server.
NetStep ==
  \/ \E th \in Threads : SendShutdown(th) \/ ShutdownSocket(th) \/ Quit(th)
  \/ Connect \/ SendId \/ LogId \/ NetPoll \/ NetProcessCommand \/ SendSample

LEMMA LinkSteps ==
  ASSUME [NetNext]_netVars
  PROVE  UNCHANGED linkVars \/ (link # "stdin" /\ NetStep) \/ NetArrive \/ PeerLeaves
  <1>1. CASE AnyMain
    <2>1. CASE link = "stdin"
      BY <1>1, <2>1 DEF AnyMain
    <2>2. CASE link # "stdin"
      BY <1>1, <2>2 DEF AnyMain, NetMain, NetButtonPress, NetStep, Threads
    <2>3. QED
      BY <2>1, <2>2
  <1>2. CASE AnyIsr
    <2>1. CASE link = "stdin"
      BY <1>2, <2>1 DEF AnyIsr
    <2>2. CASE link # "stdin"
      BY <1>2, <2>2 DEF AnyIsr, NetButtonPress, NetStep, Threads
    <2>3. QED
      BY <2>1, <2>2
  <1>3. CASE AnyPress \/ NetEnded \/ UNCHANGED netVars
    BY <1>3 DEF AnyPress, NetEnded, netVars
  <1>4. CASE Network
    BY <1>4 DEF Network
  <1>5. QED
    BY <1>1, <1>2, <1>3, <1>4 DEF NetNext

-----------------------------------------------------------------------------
(* The buffer. *)

LEMMA PollReceives ==
  ASSUME Buffered, InSsl, LinkTyped, link # "stdin", NetPoll
  PROVE  ReceiveSome \/ UNCHANGED bufferVars
  <1>1. CASE ReceiveFrom(Available)
    <2>1. PICK k \in Nat : k = Available /\ k \in 0 .. Len(input)
      BY AvailableArrived DEF LinkTyped
    <2>2. k \in 1 .. Len(input)
      BY <1>1, <2>1 DEF ReceiveFrom
    <2>3. QED
      BY <1>1, <2>1, <2>2 DEF ReceiveSome
  <1>2. QED
    BY <1>1 DEF NetPoll

\* Whatever the program does, to the buffer it is a step of CommandBuffer.
LEMMA BufferSteps ==
  ASSUME Buffered, InSsl, LinkTyped, [NetNext]_netVars
  PROVE  [BufferNext]_bufferVars
  <1>1. ASSUME Receive \/ SkipByte \/ TakeCommand \/ EndScan \/ UNCHANGED bufferVars
        PROVE  [BufferNext]_bufferVars
    BY <1>1, AllIsSome DEF Buffered, Next
  <1>2. CASE AnyMain
    <2>1. CASE link = "stdin"
      BY <1>1, <1>2, <2>1 DEF AnyMain, Main, MainLoop, Poll, Scan, ProcessCommand
    <2>2. CASE link # "stdin"
      <3>1. CASE NetPoll
        BY <2>2, <3>1, PollReceives DEF BufferNext
      <3>2. CASE NetMain /\ ~NetPoll
        BY <1>1, <3>2 DEF NetMain, NetProcessCommand, Scan, NetButtonPress
      <3>3. QED
        BY <1>2, <2>2, <3>1, <3>2 DEF AnyMain
    <2>3. QED
      BY <2>1, <2>2
  <1>3. CASE AnyIsr \/ AnyPress \/ PeerLeaves \/ NetEnded \/ UNCHANGED netVars
    BY <1>1, <1>3 DEF AnyIsr, Isr, NetButtonPress, AnyPress, PeerLeaves, NetEnded, Ended, netVars, vars
  <1>4. CASE Network
    BY <1>4 DEF Network, NetArrive, BufferNext, Arrive
  <1>5. QED
    BY <1>2, <1>3, <1>4 DEF NetNext

LEMMA BufferedStep ==
  ASSUME Buffered, [BufferNext]_bufferVars
  PROVE  Buffered'
  <1>1. IInv' /\ ChunksTyped' /\ BytesConserved' /\ LinesInv'
    BY StepIInv, ConservedStep, LinesStep DEF Buffered
  <1>2. scanning' \in BOOLEAN
    BY ScanningTyped DEF Buffered
  <1>3. QED
    BY <1>1, <1>2 DEF Buffered

\* No step forgets a byte that SSL has.
LEMMA InSslStep ==
  ASSUME Buffered, InSsl, LinkTyped, [NetNext]_netVars
  PROVE  InSsl'
  <1>1. CASE UNCHANGED <<link, records, inssl, input>>
    BY <1>1 DEF InSsl
  <1>2. CASE link # "tls" /\ UNCHANGED <<link, records, inssl>>
    BY <1>2 DEF InSsl
  <1>3. CASE NetArrive /\ link = "tls"
    <2>1. PICK n \in 1 .. Len(unsent) :
            ArriveBytes(n) /\ records' = Append(records, SubSeq(unsent, 1, n))
      BY <1>3 DEF NetArrive
    <2>2. n \in 0 .. Len(unsent) /\ unsent \in Seq(Symbols)
      BY DEF Buffered, IInv, Typed
    <2>3. PICK a \in Seq(Symbols) : a = SubSeq(unsent, 1, n)
      BY <2>2, Parts
    <2>4. PICK r \in Seq(Seq(Symbols)), i \in Seq(Symbols) : r = records /\ i = inssl
      BY <1>3 DEF InSsl
    <2>5. PICK f \in Seq(Symbols) : f = FlattenSeq(r)
      BY FlattenAppend, EmptySeq
    <2>6. i \o f = input
      BY <1>3, <2>4, <2>5 DEF InSsl
    <2>7. FlattenSeq(Append(r, a)) = f \o a /\ Append(r, a) \in Seq(Seq(Symbols))
      BY <2>5, FlattenAppend, AppendProperties
    <2>8. (i \o f) \o a = i \o (f \o a)
      BY Associative
    <2>9. input' = input \o a /\ records' = Append(r, a) /\ inssl' = i /\ link' = link
      BY <1>3, <2>1, <2>3, <2>4 DEF ArriveBytes, NetArrive
    <2>10. inssl' \o FlattenSeq(records') = input'
      BY <2>6, <2>7, <2>8, <2>9
    <2>11. QED
      BY <1>3, <2>4, <2>7, <2>9, <2>10 DEF InSsl
  <1>4. CASE NetPoll /\ ReceiveFrom(Available) /\ LeaveInSsl /\ link = "tls"
    <2>1. PICK f \in Seq(Symbols), u \in Seq(Seq(Symbols)), i \in Seq(Symbols) :
            f = Fetched /\ u = Unfetched /\ i = input
      BY <1>4, FetchedFirst DEF Buffered, IInv, Typed
    <2>2. PICK g \in Seq(Symbols) : g = FlattenSeq(u)
      BY FlattenAppend, EmptySeq
    <2>3. i = f \o g
      BY <1>4, <2>1, <2>2, FetchedFirst
    <2>4. Available = Len(f) /\ Len(f) \in Nat
      BY <1>4, <2>1, LenProperties DEF Available
    <2>5. PICK n \in 0 .. Len(f) : n = ReadSize(Len(f))
      <3>1. inputbuff \in Seq(Symbols) /\ Fits
        BY DEF Buffered, IInv, Typed
      <3>2. validPtr \in Nat
        BY <3>1, LenProperties DEF validPtr
      <3>3. QED
        BY <2>4, <3>1, <3>2, ReadSizeBounded
    <2>6. inssl' = SubSeq(f, n + 1, Len(f)) /\ records' = u /\ input' = SubSeq(i, n + 1, Len(i)) /\ link' = link
      BY <1>4, <2>1, <2>4, <2>5 DEF LeaveInSsl, ReceiveFrom, NetPoll
    <2>7. SubSeq(f, n + 1, Len(f)) \o g = SubSeq(i, n + 1, Len(i))
      <3>1. RestStays(f, g, i)
        BY <2>3, RestOfFront
      <3>2. QED
        BY <3>1 DEF RestStays
    <2>8. SubSeq(f, n + 1, Len(f)) \in Seq(Symbols)
      BY Parts
    <2>9. inssl' \o FlattenSeq(records') = input'
      BY <2>2, <2>6, <2>7
    <2>10. QED
      BY <1>4, <2>1, <2>6, <2>8, <2>9 DEF InSsl
  <1>5. CASE NetPoll /\ ReceiveFrom(Available) /\ link = "tcp"
    BY <1>2, <1>5 DEF NetPoll, LeaveInSsl
  <1>6. CASE NetPoll /\ ~ReceiveFrom(Available)
    BY <1>1, <1>6 DEF NetPoll, bufferVars
  <1>7. CASE NetArrive
    BY <1>2, <1>3, <1>7 DEF NetArrive
  <1>8. CASE link # "stdin" /\ NetPoll
    <2>1. link \in {"tcp", "tls"} /\ (ReceiveFrom(Available) => LeaveInSsl)
      BY <1>8 DEF LinkTyped, NetPoll, ReceiveFrom, bufferVars
    <2>2. QED
      BY <1>4, <1>5, <1>6, <1>8, <2>1
  <1>9. CASE link = "stdin" /\ ~NetArrive
    BY <1>2, <1>9, LinkSteps DEF PeerLeaves, linkVars
  <1>10. CASE link # "stdin" /\ ~NetArrive /\ ~NetPoll
    <2>1. CASE AnyMain
      <3>1. UNCHANGED <<link, records, inssl>>
        BY <1>10, <2>1 DEF AnyMain, NetMain, NetButtonPress, SendShutdown, ShutdownSocket, Quit, linkVars,
          Connect, SendId, LogId, NetProcessCommand, SendSample
      <3>2. UNCHANGED input
        BY <1>10, <2>1 DEF AnyMain, NetMain, NetButtonPress, NetProcessCommand, Scan, SkipByte, EndScan, TakeCommand, bufferVars
      <3>3. QED
        BY <1>1, <3>1, <3>2
    <2>2. CASE AnyIsr
      BY <1>1, <1>10, <2>2 DEF AnyIsr, NetButtonPress, SendShutdown, ShutdownSocket, Quit, linkVars, bufferVars
    <2>3. CASE AnyPress \/ PeerLeaves \/ NetEnded \/ UNCHANGED netVars
      BY <1>1, <2>3 DEF AnyPress, PeerLeaves, NetEnded, Ended, netVars, vars, linkVars, bufferVars
    <2>4. QED
      BY <1>10, <2>1, <2>2, <2>3 DEF NetNext, Network
  <1>11. QED
    BY <1>7, <1>8, <1>9, <1>10

-----------------------------------------------------------------------------
(* Types. *)

LEMMA LinkTypedStep ==
  ASSUME LinkTyped, [NetNext]_netVars
  PROVE  LinkTyped' /\ link' = link
  <1> USE DEF LinkTyped, Gone
  <1>1. CASE UNCHANGED linkVars \/ NetArrive \/ PeerLeaves
    BY <1>1 DEF linkVars, NetArrive, PeerLeaves
  <1>2. ASSUME NEW th, NEW line, NEW label, Send(th, line, label)
        PROVE  peer' \in {"none", "open"} \cup Gone
    BY <1>2 DEF Send
  <1>3. ASSUME NEW th \in Threads, SendShutdown(th) \/ ShutdownSocket(th) \/ Quit(th)
        PROVE  LinkTyped' /\ link' = link
    BY <1>2, <1>3 DEF SendShutdown, ShutdownSocket, Quit, linkVars
  <1>4. CASE Connect \/ SendId \/ LogId \/ NetPoll \/ NetProcessCommand \/ SendSample
    BY <1>2, <1>4 DEF Connect, SendId, LogId, NetPoll, NetProcessCommand, SendSample, linkVars
  <1>5. QED
    BY <1>1, <1>3, <1>4, LinkSteps DEF NetStep

\* The lines of out and log, and the labels, that a step can add.
LEMMA PrintedTyped ==
  ASSUME NodeTyped, NEW line \in OutLines
  PROVE  Printed(line) \in Seq(OutLines)
  <1>1. out \in Seq(OutLines) /\ Append(out, line) \in Seq(OutLines)
    BY AppendProperties DEF NodeTyped
  <1>2. QED
    BY <1>1 DEF Printed

LEMMA LoggedTyped ==
  ASSUME NodeTyped, NEW line \in LogLines, Logged(line) \/ Written(line) \/ log' = log
  PROVE  log' \in Seq(LogLines)
  <1>1. log \in Seq(LogLines) /\ Append(log, line) \in Seq(LogLines)
    BY AppendProperties DEF NodeTyped
  <1>2. QED
    BY <1>1 DEF Logged, Written

LEMMA GotoTyped ==
  ASSUME NodeTyped, NEW th \in Threads, NEW label \in MainLabels, th = "isr" => label \in IsrLabels, Goto(th, label)
  PROVE  /\ pc' \in [Threads -> MainLabels \cup IsrLabels]
         /\ pc'["main"] \in MainLabels /\ pc'["isr"] \in IsrLabels
  BY DEF NodeTyped, Goto, Threads

\* The first byte of a command is a symbol.
LEMMA CommandTyped ==
  ASSUME Buffered, AtNewline
  PROVE  Head(Command) \in Symbols
  <1>1. PICK n \in Nat : n = commandPtr + 1 /\ n \in 1 .. Len(inputbuff)
    BY DEF AtNewline, Scanning, validPtr, Buffered, IInv, Typed
  <1>2. inputbuff \in Seq(Symbols) /\ n \in 0 .. Len(inputbuff)
    BY <1>1 DEF Buffered, IInv, Typed
  <1>3. Command \in Seq(Symbols) /\ Len(Command) = n
    BY <1>1, <1>2, Parts DEF Command
  <1>4. Command # <<>>
    BY <1>1, <1>3, EmptySeq
  <1>5. QED
    BY <1>3, <1>4, HeadTailProperties

\* What a step does to the end of the program.
LEMMA ExitTyped ==
  ASSUME NodeTyped, NodeStep
  PROVE  exit' \in {Running, 0, 1, SegFault, SigPipe}
  <1>1. SendErrors \subseteq {1, SegFault, SigPipe}
    BY DEF SendErrors
  <1>2. ASSUME NEW th, NEW line, NEW label, Send(th, line, label)
        PROVE  exit' \in {Running, 0, 1, SegFault, SigPipe}
    BY <1>1, <1>2 DEF Send, NodeTyped
  <1>3. ASSUME NEW th \in Threads, ButtonStep(th)
        PROVE  exit' \in {Running, 0, 1, SegFault, SigPipe}
    BY <1>2, <1>3 DEF ButtonStep, PrintShutdown, SendShutdown, LogShutdown, CloseSensors, Exit,
      ShutdownSocket, Quit, NodeTyped
  <1>4. CASE OpenStep \/ ReadStep \/ CommandStep \/ SampleStep \/ Press
    BY <1>2, <1>4 DEF OpenStep, ReadStep, CommandStep, SampleStep, Press, Connect, SendId, LogId, Poll, NetPoll,
      Scan, ProcessCommand, NetProcessCommand, Sample, PrintSample, SendSample, LogSample, Sleep, NodeTyped
  <1>5. QED
    BY <1>3, <1>4 DEF NodeStep

\* A step of buttonPress.
LEMMA ButtonTyped ==
  ASSUME NodeTyped, NEW th \in Threads, ButtonStep(th)
  PROVE  NodeTyped'
  <1> USE DEF ButtonStep, PrintShutdown, SendShutdown, Send, LogShutdown, CloseSensors, Exit, ShutdownSocket, Quit
  <1>1. exit' \in {Running, 0, 1, SegFault, SigPipe}
    BY ExitTyped DEF NodeStep
  <1>2. UNCHANGED <<logfile, run_flag, scale, period, sample>>
    BY DEF globalVars
  <1>3. out' \in Seq(OutLines)
    BY PrintedTyped DEF OutLines, NodeTyped
  <1>4. log' \in Seq(LogLines)
    BY LoggedTyped DEF LogLines, OutLines, NodeTyped
  <1>5. closed' \in BOOLEAN
    BY Zenon DEF NodeTyped
  <1>6. /\ pc' \in [Threads -> MainLabels \cup IsrLabels]
        /\ pc'["main"] \in MainLabels /\ pc'["isr"] \in IsrLabels
    <2>1. pc' = pc \/ \E label \in {"log", "close", "exit", "quit"} : Goto(th, label)
      OBVIOUS
    <2>2. QED
      BY <2>1, GotoTyped DEF MainLabels, IsrLabels, NodeTyped
  <1>7. QED
    BY <1>1, <1>2, <1>3, <1>4, <1>5, <1>6, Zenon DEF NodeTyped

\* What a command sets.
LEMMA ObeyTyped ==
  ASSUME NodeTyped, NEW keyword, Obey(keyword)
  PROVE  run_flag' \in BOOLEAN /\ scale' \in {"F", "C"} /\ period' \in {-1, 1, 2}
  <1>1. run_flag' \in {run_flag, TRUE, FALSE}
    BY DEF Obey
  <1>2. run_flag' \in BOOLEAN
    BY <1>1, Zenon DEF NodeTyped
  <1>3. scale' \in {"F", "C"} /\ period' \in {-1, 1, 2}
    BY DEF Obey, NodeTyped
  <1>4. QED
    BY <1>2, <1>3

\* A step that main takes by itself, and the button.
LEMMA MainTyped ==
  ASSUME Buffered, NodeTyped, OpenStep \/ ReadStep \/ CommandStep \/ SampleStep \/ Press
  PROVE  NodeTyped'
  <1>1. exit' \in {Running, 0, 1, SegFault, SigPipe}
    BY ExitTyped DEF NodeStep
  <1>2. /\ pc' \in [Threads -> MainLabels \cup IsrLabels]
        /\ pc'["main"] \in MainLabels /\ pc'["isr"] \in IsrLabels
    <2>1. \/ pc' = pc \/ Goto("isr", "print")
          \/ \E label \in {"id", "logid", "poll", "scan", "sample", "printsample", "logsample", "sleep", "print"} :
               Goto("main", label)
      BY DEF OpenStep, ReadStep, CommandStep, SampleStep, Press, Connect, SendId, Send, LogId, Poll, NetPoll,
        Scan, ProcessCommand, NetProcessCommand, Sample, PrintSample, SendSample, LogSample, Sleep
    <2>2. QED
      BY <2>1, GotoTyped DEF MainLabels, IsrLabels, NodeTyped, Threads
  <1>3. out' \in Seq(OutLines)
    <2>1. out' = out \/ \E line \in OutLines : out' = Printed(line)
      BY DEF OpenStep, ReadStep, CommandStep, SampleStep, Press, Connect, SendId, Send, LogId, Poll, NetPoll,
        Scan, ProcessCommand, NetProcessCommand, Sample, PrintSample, SendSample, LogSample, Sleep, OutLines, NodeTyped
    <2>2. QED
      BY <2>1, PrintedTyped DEF NodeTyped
  <1>4. log' \in Seq(LogLines)
    <2>1. Symbols \cup {"ID", "F", "C", "OFF", "overlong"} \subseteq LogLines
      BY DEF LogLines, OutLines
    <2>2. AtNewline => Head(Command) \in LogLines
      BY <2>1, CommandTyped
    <2>3. \E line \in LogLines : Logged(line) \/ Written(line) \/ log' = log
      <3>1. CASE OpenStep \/ ReadStep \/ Press
        BY <2>1, <3>1 DEF OpenStep, ReadStep, Press, Connect, SendId, LogId, Poll, NetPoll
      <3>2. CASE CommandStep
        BY <2>1, <2>2, <3>2 DEF CommandStep, Scan, ProcessCommand, NetProcessCommand, Logged
      <3>3. CASE SampleStep
        BY <2>1, <3>3 DEF SampleStep, Sample, PrintSample, SendSample, LogSample, Sleep, NodeTyped
      <3>4. QED
        BY <3>1, <3>2, <3>3
    <2>4. QED
      BY <2>3, LoggedTyped
  <1>5. UNCHANGED <<logfile, closed>>
    BY DEF OpenStep, ReadStep, CommandStep, SampleStep, Press, Connect, SendId, LogId, Poll, NetPoll, globalVars,
      Scan, ProcessCommand, NetProcessCommand, Sample, PrintSample, SendSample, LogSample, Sleep
  <1>6. run_flag' \in BOOLEAN /\ scale' \in {"F", "C"} /\ period' \in {-1, 1, 2}
    <2>1. (\E keyword : Obey(keyword)) \/ UNCHANGED <<run_flag, scale, period>>
      BY DEF OpenStep, ReadStep, CommandStep, SampleStep, Press, Connect, SendId, LogId, Poll, NetPoll, globalVars,
        Scan, ProcessCommand, NetProcessCommand, Sample, PrintSample, SendSample, LogSample, Sleep
    <2>2. CASE UNCHANGED <<run_flag, scale, period>>
      BY <2>2, Zenon DEF NodeTyped
    <2>3. QED
      BY <2>1, <2>2, ObeyTyped
  <1>7. sample' \in {"F", "C"}
    BY DEF OpenStep, ReadStep, CommandStep, SampleStep, Press, Connect, SendId, LogId, Poll, NetPoll, globalVars,
      Scan, ProcessCommand, NetProcessCommand, Sample, PrintSample, SendSample, LogSample, Sleep, NodeTyped, readTemp
  <1>8. QED
    BY <1>1, <1>2, <1>3, <1>4, <1>5, <1>6, <1>7, Zenon DEF NodeTyped

LEMMA NodeTypedStep ==
  ASSUME Buffered, NodeTyped, [NetNext]_netVars
  PROVE  NodeTyped'
  <1>1. CASE UNCHANGED nodeVars
    BY <1>1 DEF nodeVars, NodeTyped
  <1>2. QED
    BY <1>1, Steps, ButtonTyped, MainTyped DEF NodeStep

LEMMA InitTyped ==
  ASSUME NetInit
  PROVE  Buffered /\ NodeTyped /\ LinkTyped /\ InSsl
  <1> USE DEF NetInit, NodeInitAt
  <1>1. <<>> \in Seq(LogLines) /\ <<>> \in Seq(OutLines) /\ <<>> \in Seq(Symbols) /\ <<>> \in Seq(Seq(Symbols))
    BY EmptySeq
  <1>2. Buffered
    <2>1. Init
      OBVIOUS
    <2>2. IInv /\ ChunksTyped /\ BytesConserved /\ LinesInv
      BY <2>1, InitIInv, ConservedInitially, LinesInitially
    <2>3. scanning \in BOOLEAN
      BY <2>1, Zenon DEF Init
    <2>4. QED
      BY <2>2, <2>3 DEF Buffered
  <1>3. NodeTyped
    <2>1. run_flag \in BOOLEAN /\ logfile \in BOOLEAN /\ closed \in BOOLEAN
      BY NodeAssumption, Zenon
    <2>2. \E entry \in {"poll", "connect"} : pc = [th \in Threads |-> IF th = "main" THEN entry ELSE "idle"]
      OBVIOUS
    <2>3. /\ pc \in [Threads -> MainLabels \cup IsrLabels]
          /\ pc["main"] \in MainLabels /\ pc["isr"] \in IsrLabels
      BY <2>2 DEF Threads, MainLabels, IsrLabels
    <2>4. /\ scale \in {"F", "C"} /\ sample \in {"F", "C"} /\ period \in {-1, 1, 2}
          /\ log \in Seq(LogLines) /\ out \in Seq(OutLines)
          /\ exit \in {Running, 0, 1, SegFault, SigPipe}
      BY <1>1
    <2>5. QED
      BY <2>1, <2>3, <2>4, Zenon DEF NodeTyped
  <1>4. LinkTyped
    <2>1. shut \in BOOLEAN
      BY Zenon
    <2>2. link \in {"stdin", "tcp", "tls"} /\ peer \in {"none", "open"} \cup Gone
      BY LinksAssumption
    <2>3. QED
      BY <2>1, <2>2 DEF LinkTyped
  <1>5. InSsl
    <2>1. input = <<>> /\ records = <<>> /\ inssl = <<>>
      BY DEF Init
    <2>2. <<>> \o FlattenSeq(<<>>) = <<>>
      BY <1>1, FlattenEmpty, ConcatEmptySeq
    <2>3. QED
      BY <1>1, <2>1, <2>2 DEF InSsl
  <1>6. QED
    BY <1>2, <1>3, <1>4, <1>5

NodeInv == Buffered /\ NodeTyped /\ LinkTyped /\ InSsl

LEMMA NodeInvStep ==
  NodeInv /\ [NetNext]_netVars => NodeInv'
  <1>1. SUFFICES ASSUME NodeInv, [NetNext]_netVars PROVE NodeInv'
    OBVIOUS
  <1>2. Buffered'
    BY <1>1, BufferSteps, BufferedStep DEF NodeInv
  <1>3. NodeTyped' /\ LinkTyped' /\ InSsl'
    BY <1>1, NodeTypedStep, LinkTypedStep, InSslStep DEF NodeInv
  <1>4. QED
    BY <1>2, <1>3 DEF NodeInv

LEMMA NodeInvTypes == NodeInv => NetTypeOK
  <1>1. SUFFICES ASSUME NodeInv PROVE NetTypeOK
    OBVIOUS
  <1>2. TypeOK
    BY <1>1, BufferTypes DEF NodeInv, Buffered
  <1>3. {run_flag, logfile, closed, shut} \subseteq BOOLEAN
    BY <1>1, Zenon DEF NodeInv, NodeTyped, LinkTyped
  <1>4. /\ scale \in {"F", "C"} /\ sample \in {"F", "C"} /\ period \in {-1, 1, 2}
        /\ pc["main"] \in MainLabels /\ pc["isr"] \in IsrLabels
        /\ peer \in {"none", "open"} \cup Gone
        /\ exit \in {Running, 0, 1, SegFault, SigPipe}
    BY <1>1, Zenon DEF NodeInv, NodeTyped, LinkTyped
  <1>5. IF link = "tls" THEN inssl \o FlattenSeq(records) = input ELSE records = <<>> /\ inssl = <<>>
    BY <1>1 DEF NodeInv, InSsl
  <1>6. QED
    BY <1>2, <1>3, <1>4, <1>5, Zenon DEF NetTypeOK, MainLabels, IsrLabels

\* All three programs keep their types, a read never runs past the end of
\* inputbuff[], and what SSL holds and what poll() sees of a TLS connection are
\* together what has arrived (lab4c_tls.c: SSL_read into inputbuff + validPtr).
THEOREM NodesAreTyped == NetSpec => []NetTypeOK
  <1>1. NetInit => NodeInv
    BY InitTyped DEF NodeInv
  <1>2. QED
    BY <1>1, NodeInvStep, NodeInvTypes, PTL DEF NetSpec

\* In all three programs the copying of commands loses no byte of what was sent
\* and takes out lines: what CommandBuffer promises holds where it is used.
THEOREM NodesKeepTheBytes == NetSpec => [](BytesConserved /\ RoomToRead /\ LinesProcessed)
  <1>1. NetInit => NodeInv
    BY InitTyped DEF NodeInv
  <1>2. NodeInv => BytesConserved /\ RoomToRead /\ LinesProcessed
    BY DEF NodeInv, Buffered, IInv, LinesInv
  <1>3. QED
    BY <1>1, <1>2, NodeInvStep, PTL DEF NetSpec

-----------------------------------------------------------------------------
(* The story of the log. *)

\* The last line in S is the one behind which none is in S.
LEMMA LastIs ==
  ASSUME NEW s, NEW b \in Nat, NEW S, NEW none, NEW n \in 1 .. b, s[n] \in S,
         \A m \in n + 1 .. b : s[m] \notin S
  PROVE  LastOf(s, b + 1, S, none) = s[n]
  <1> DEFINE at == {m \in 1 .. b + 1 - 1 : s[m] \in S}
             last == CHOOSE m \in at : \A k \in at : k <= m
  <1>1. b + 1 - 1 = b /\ n \in at /\ \A k \in at : k <= n
    OBVIOUS
  <1>2. last \in at /\ \A k \in at : k <= last
    BY <1>1
  <1> HIDE DEF last
  <1>3. last = n
    BY <1>1, <1>2
  <1>4. at # {} /\ LastOf(s, b + 1, S, none) = IF at = {} THEN none ELSE s[last]
    BY <1>1 DEF LastOf, last
  <1>5. QED
    BY <1>3, <1>4

LEMMA LastIsNone ==
  ASSUME NEW s, NEW b \in Nat, NEW S, NEW none, \A m \in 1 .. b : s[m] \notin S
  PROVE  LastOf(s, b + 1, S, none) = none
  <1>1. b + 1 - 1 = b
    OBVIOUS
  <1>2. {m \in 1 .. b + 1 - 1 : s[m] \in S} = {}
    BY <1>1
  <1>3. QED
    BY <1>2 DEF LastOf

LEMMA LastExists ==
  ASSUME NEW s, NEW b \in Nat, NEW S, NEW k \in 1 .. b, s[k] \in S
  PROVE  \E n \in 1 .. b : s[n] \in S /\ \A m \in n + 1 .. b : s[m] \notin S
  <1> DEFINE from == {d \in Nat : b - d \in 1 .. b /\ s[b - d] \in S}
  <1>1. b - k \in from
    <2>1. b - k \in Nat /\ b - (b - k) = k
      OBVIOUS
    <2>2. QED
      BY <2>1
  <1>2. PICK d \in from : \A e \in from : d <= e
    BY <1>1, LeastNatural
  <1>3. PICK n \in 1 .. b : n = b - d
    BY <1>2
  <1>4. s[n] \in S
    BY <1>2, <1>3
  <1>5. ASSUME NEW m \in n + 1 .. b, s[m] \in S PROVE FALSE
    <2>1. b - m \in Nat /\ b - (b - m) = m /\ m \in 1 .. b
      OBVIOUS
    <2>2. b - m \in from
      BY <1>5, <2>1
    <2>3. d <= b - m /\ d \in Nat
      BY <1>2, <2>2
    <2>4. QED
      BY <1>3, <2>3
  <1>6. QED
    BY <1>4, <1>5

\* What is last among the first b lines depends on them alone ...
SameLines(s, t, b) == \A m \in 1 .. b : t[m] = s[m]

LEMMA LastBefore ==
  ASSUME NEW s, NEW t, NEW S, NEW none, NEW b \in Nat, SameLines(s, t, b)
  PROVE  LastOf(t, b + 1, S, none) = LastOf(s, b + 1, S, none)
  <1> USE DEF SameLines
  <1>1. CASE \A m \in 1 .. b : s[m] \notin S
    <2>1. \A m \in 1 .. b : t[m] \notin S
      BY <1>1
    <2>2. LastOf(t, b + 1, S, none) = none
      BY <2>1, LastIsNone
    <2>3. LastOf(s, b + 1, S, none) = none
      BY <1>1, LastIsNone
    <2>4. QED
      BY <2>2, <2>3
  <1>2. ASSUME NEW k \in 1 .. b, s[k] \in S
        PROVE  LastOf(t, b + 1, S, none) = LastOf(s, b + 1, S, none)
    <2>1. PICK n \in 1 .. b : s[n] \in S /\ \A m \in n + 1 .. b : s[m] \notin S
      BY <1>2, LastExists
    <2>2. LastOf(s, b + 1, S, none) = s[n]
      BY <2>1, LastIs
    <2>3. t[n] \in S /\ t[n] = s[n] /\ \A m \in n + 1 .. b : t[m] \notin S
      BY <2>1
    <2>4. LastOf(t, b + 1, S, none) = t[n]
      BY <2>3, LastIs
    <2>5. QED
      BY <2>2, <2>3, <2>4
  <1>3. QED
    BY <1>1, <1>2

\* ... and one line more is the last if it is in S, and changes nothing if not.
LEMMA LastAfter ==
  ASSUME NEW t, NEW S, NEW none, NEW b \in Nat
  PROVE  LastOf(t, b + 2, S, none) = IF t[b + 1] \in S THEN t[b + 1] ELSE LastOf(t, b + 1, S, none)
  <1>1. PICK c \in Nat : c = b + 1 /\ c + 1 = b + 2 /\ c \in 1 .. c
    OBVIOUS
  <1>2. CASE t[c] \in S
    <2>1. \A m \in c + 1 .. c : t[m] \notin S
      OBVIOUS
    <2>2. LastOf(t, c + 1, S, none) = t[c]
      BY <1>1, <1>2, <2>1, LastIs
    <2>3. QED
      BY <1>1, <1>2, <2>2
  <1>3. CASE t[c] \notin S /\ \A m \in 1 .. b : t[m] \notin S
    <2>1. \A m \in 1 .. c : t[m] \notin S
      BY <1>1, <1>3
    <2>2. LastOf(t, c + 1, S, none) = none
      BY <2>1, LastIsNone
    <2>3. LastOf(t, b + 1, S, none) = none
      BY <1>3, LastIsNone
    <2>4. QED
      BY <1>1, <1>3, <2>2, <2>3
  <1>4. ASSUME t[c] \notin S, NEW k \in 1 .. b, t[k] \in S
        PROVE  LastOf(t, c + 1, S, none) = LastOf(t, b + 1, S, none)
    <2>1. PICK n \in 1 .. b : t[n] \in S /\ \A m \in n + 1 .. b : t[m] \notin S
      BY <1>4, LastExists
    <2>2. LastOf(t, b + 1, S, none) = t[n]
      BY <2>1, LastIs
    <2>3. n \in 1 .. c /\ \A m \in n + 1 .. c : t[m] \notin S
      BY <1>1, <1>4, <2>1
    <2>4. LastOf(t, c + 1, S, none) = t[n]
      BY <2>1, <2>3, LastIs
    <2>5. QED
      BY <2>2, <2>4
  <1>5. QED
    BY <1>1, <1>2, <1>3, <1>4

\* A step that logs nothing and sets neither the scale nor run_flag.
LEMMA StorySame ==
  ASSUME Story, UNCHANGED <<logfile, log, scale, run_flag>>,
         pc'["main"] \in {"printsample", "logsample"} => sample' = scale /\ run_flag
  PROVE  Story'
  BY DEF Story, LogTellsTheTruth

\* A step that logs a line and sets what the line says.
LEMMA StoryAppend ==
  ASSUME NodeTyped, Story, logfile, logfile' = logfile,
         NEW line \in LogLines, log' = Append(log, line),
         line \in {"F", "C"} => line = scale /\ run_flag,
         ScaleLine(scale') = IF line \in ScaleLines THEN line ELSE ScaleLine(scale),
         run_flag' <=> IF line \in FlagLines THEN line = "START" ELSE run_flag,
         pc'["main"] \in {"printsample", "logsample"} => sample' = scale' /\ run_flag'
  PROVE  Story'
  <1>1. PICK N \in Nat : N = Len(log) /\ DOMAIN log = 1 .. N /\ log \in Seq(LogLines)
    BY LenProperties DEF NodeTyped
  <1>2. /\ Len(log') = N + 1 /\ DOMAIN log' = 1 .. N + 1 /\ log'[N + 1] = line
        /\ \A j \in 1 .. N : log'[j] = log[j]
    BY <1>1, AppendProperties, LenProperties
  <1> DEFINE Told(l, j) == LastOf(l, j, ScaleLines, "SCALE=F")
             Flag(l, j) == LastOf(l, j, FlagLines, "START")
  <1>3. ASSUME NEW j \in 1 .. N + 1
        PROVE  Told(log', j) = Told(log, j) /\ Flag(log', j) = Flag(log, j)
    <2>1. PICK b \in Nat : b + 1 = j /\ b <= N
      <3>1. j - 1 \in Nat /\ j - 1 + 1 = j /\ j - 1 <= N
        OBVIOUS
      <3>2. QED
        BY <3>1
    <2>2. \A m \in 1 .. b : log'[m] = log[m]
      BY <1>2, <2>1
    <2>3. Told(log', b + 1) = Told(log, b + 1) /\ Flag(log', b + 1) = Flag(log, b + 1)
      <3>1. PICK old, new : old = log /\ new = log' /\ SameLines(old, new, b)
        BY <2>2 DEF SameLines
      <3>2. /\ LastOf(new, b + 1, ScaleLines, "SCALE=F") = LastOf(old, b + 1, ScaleLines, "SCALE=F")
            /\ LastOf(new, b + 1, FlagLines, "START") = LastOf(old, b + 1, FlagLines, "START")
        <4>1. \A S, none : LastOf(new, b + 1, S, none) = LastOf(old, b + 1, S, none)
          BY <3>1, LastBefore
        <4>2. QED
          BY <4>1
      <3>3. QED
        BY <3>1, <3>2
    <2>4. QED
      BY <2>1, <2>3
  <1>4. /\ Told(log', N + 2) = IF line \in ScaleLines THEN line ELSE Told(log, N + 1)
        /\ Flag(log', N + 2) = IF line \in FlagLines THEN line ELSE Flag(log, N + 1)
    <2>1. /\ Told(log', N + 2) = IF line \in ScaleLines THEN line ELSE Told(log', N + 1)
          /\ Flag(log', N + 2) = IF line \in FlagLines THEN line ELSE Flag(log', N + 1)
      <3>1. PICK new : new = log' /\ new[N + 1] = line
        BY <1>2
      <3>2. /\ LastOf(new, N + 2, ScaleLines, "SCALE=F") =
                 IF new[N + 1] \in ScaleLines THEN new[N + 1] ELSE LastOf(new, N + 1, ScaleLines, "SCALE=F")
            /\ LastOf(new, N + 2, FlagLines, "START") =
                 IF new[N + 1] \in FlagLines THEN new[N + 1] ELSE LastOf(new, N + 1, FlagLines, "START")
        BY LastAfter
      <3>3. QED
        BY <3>1, <3>2
    <2>2. Told(log', N + 1) = Told(log, N + 1) /\ Flag(log', N + 1) = Flag(log, N + 1)
      BY <1>3
    <2>3. QED
      BY <2>1, <2>2
  <1>5. /\ Told(log, N + 1) = ScaleLine(scale)
        /\ run_flag <=> Flag(log, N + 1) = "START"
        /\ \A j \in 1 .. N : log[j] \in {"F", "C"} =>
             Told(log, j) = ScaleLine(log[j]) /\ Flag(log, j) = "START"
    BY <1>1 DEF Story, LogTellsTheTruth, ScaleLine, ScaleLines, FlagLines
  <1> HIDE DEF Told, Flag
  <1>6. ASSUME NEW j \in 1 .. N + 1, log'[j] \in {"F", "C"}
        PROVE  Told(log', j) = ScaleLine(log'[j]) /\ Flag(log', j) = "START"
    <2>1. CASE j \in 1 .. N
      BY <1>2, <1>3, <1>5, <1>6, <2>1
    <2>2. CASE j = N + 1
      BY <1>2, <1>3, <1>5, <1>6, <2>2
    <2>3. j \in 1 .. N \/ j = N + 1
      OBVIOUS
    <2>4. QED
      BY <2>1, <2>2, <2>3
  <1>7. Told(log', N + 2) = ScaleLine(scale')
    BY <1>4, <1>5
  <1>8. run_flag' <=> Flag(log', N + 2) = "START"
    BY <1>4, <1>5
  <1>9. LogTellsTheTruth'
    BY <1>2, <1>6 DEF LogTellsTheTruth, Told, Flag, ScaleLine, ScaleLines, FlagLines
  <1>10. N + 1 + 1 = N + 2
    OBVIOUS
  <1>11. QED
    BY <1>2, <1>7, <1>8, <1>9, <1>10 DEF Story, Told, Flag

\* buttonPress logs SHUTDOWN, which says nothing of the scale and run_flag.
LEMMA StoryButton ==
  ASSUME NodeTyped, Story, NEW th \in Threads, ButtonStep(th)
  PROVE  Story'
  <1>1. UNCHANGED <<logfile, run_flag, scale, sample>>
    BY DEF ButtonStep, PrintShutdown, SendShutdown, LogShutdown, CloseSensors, Exit, ShutdownSocket, Quit, globalVars
  <1>2. pc'["main"] \in {"printsample", "logsample"} => pc["main"] \in {"printsample", "logsample"}
    BY DEF ButtonStep, PrintShutdown, SendShutdown, Send, LogShutdown, CloseSensors, Exit, ShutdownSocket, Quit,
      Goto, NodeTyped, Threads
  <1>3. log' = log \/ (logfile /\ log' = Append(log, "SHUTDOWN"))
    BY DEF ButtonStep, PrintShutdown, SendShutdown, LogShutdown, CloseSensors, Exit, ShutdownSocket, Quit, Logged
  <1>4. "SHUTDOWN" \in LogLines \ (ScaleLines \cup FlagLines \cup {"F", "C"})
    BY DEF LogLines, OutLines, ScaleLines, FlagLines
  <1>5. CASE ~logfile
    BY <1>1, <1>5 DEF Story
  <1>6. CASE logfile
    <2>1. pc'["main"] \in {"printsample", "logsample"} => sample' = scale' /\ run_flag'
      BY <1>1, <1>2, <1>6 DEF Story
    <2>2. CASE log' = log
      BY <1>1, <2>1, <2>2, StorySame
    <2>3. CASE log' = Append(log, "SHUTDOWN")
      <3>1. PICK line \in LogLines : line = "SHUTDOWN"
        BY <1>4
      <3>2. line \notin ScaleLines /\ line \notin FlagLines /\ line \notin {"F", "C"}
        BY <1>4, <3>1
      <3>3. QED
        BY <1>1, <1>6, <2>1, <2>3, <3>1, <3>2, StoryAppend
    <2>4. QED
      BY <1>3, <2>2, <2>3
  <1>7. QED
    BY <1>5, <1>6

\* A command that is logged says what it sets.
LEMMA StoryObey ==
  ASSUME NodeTyped, Story, logfile, logfile' = logfile,
         NEW line \in Symbols, Obey(line), log' = Append(log, line),
         pc'["main"] \notin {"printsample", "logsample"}
  PROVE  Story'
  <1>1. line \in LogLines /\ line \notin {"F", "C"}
    BY NodeAssumption DEF LogLines, Symbols, NL
  <1>2. ScaleLine(scale') = IF line \in ScaleLines THEN line ELSE ScaleLine(scale)
    BY DEF Obey, ScaleLine, ScaleLines
  <1>3. run_flag' <=> IF line \in FlagLines THEN line = "START" ELSE run_flag
    <2>1. CASE line = "START"
      BY <2>1 DEF Obey, FlagLines
    <2>2. CASE line = "STOP"
      BY <2>2 DEF Obey, FlagLines
    <2>3. CASE line \notin {"START", "STOP"}
      <3>1. run_flag' = run_flag
        BY <2>3 DEF Obey
      <3>2. QED
        BY <2>3, <3>1 DEF FlagLines
    <2>4. QED
      BY <2>1, <2>2, <2>3
  <1>4. QED
    BY <1>1, <1>2, <1>3, StoryAppend

\* A line that says nothing of either.
LEMMA StoryOther ==
  ASSUME NodeTyped, Story, logfile, UNCHANGED <<logfile, scale, run_flag>>,
         NEW line \in {"ID", "OFF", "overlong"}, log' = Append(log, line),
         pc'["main"] \notin {"printsample", "logsample"}
  PROVE  Story'
  <1>1. line \in LogLines /\ line \notin {"F", "C"} /\ line \notin ScaleLines /\ line \notin FlagLines
    BY DEF LogLines, OutLines, ScaleLines, FlagLines
  <1>2. QED
    BY <1>1, StoryAppend

LEMMA StoryCommand ==
  ASSUME Buffered, NodeTyped, Story, CommandStep, logfile
  PROVE  Story'
  <1>1. logfile' = logfile /\ pc'["main"] \notin {"printsample", "logsample"}
    BY DEF CommandStep, Scan, ProcessCommand, NetProcessCommand, Goto, NodeTyped, Threads
  <1>2. CASE Scan
    <2>1. UNCHANGED <<scale, run_flag>> /\ (log' = log \/ log' = Append(log, "overlong"))
      BY <1>2 DEF Scan
    <2>2. QED
      BY <1>1, <2>1, StorySame, StoryOther
  <1>3. CASE ProcessCommand \/ NetProcessCommand
    <2>1. PICK line \in Symbols : line = Head(Command)
      BY <1>3, CommandTyped DEF ProcessCommand, NetProcessCommand
    <2>2. CASE line = "OFF"
      <3>1. UNCHANGED <<scale, run_flag>> /\ log' = Append(log, "OFF")
        BY <1>3, <2>1, <2>2 DEF ProcessCommand, NetProcessCommand, Logged
      <3>2. QED
        BY <1>1, <3>1, StoryOther
    <2>3. CASE Obey(line) /\ log' = Append(log, line)
      BY <1>1, <2>3, StoryObey
    <2>4. CASE Obey(line) /\ log' = log /\ line \notin Commands
      <3>1. UNCHANGED <<scale, run_flag>>
        BY <2>4 DEF Obey, Commands
      <3>2. QED
        BY <1>1, <2>4, <3>1, StorySame
    <2>5. QED
      BY <1>3, <2>1, <2>2, <2>3, <2>4 DEF ProcessCommand, NetProcessCommand, Logged, Written
  <1>4. QED
    BY <1>2, <1>3 DEF CommandStep

LEMMA StorySample ==
  ASSUME NodeTyped, Story, SampleStep, logfile
  PROVE  Story'
  <1>1. UNCHANGED <<logfile, scale, run_flag>>
    BY DEF SampleStep, Sample, PrintSample, SendSample, LogSample, Sleep, globalVars
  <1>2. pc'["main"] \in {"printsample", "logsample"} => sample' = scale /\ run_flag
    <2>1. CASE Sample
      BY <2>1 DEF Sample, Goto, NodeTyped, Threads, readTemp
    <2>2. CASE PrintSample \/ SendSample \/ LogSample \/ Sleep
      BY <2>2 DEF PrintSample, SendSample, Send, LogSample, Sleep, Goto, NodeTyped, Threads, Story, globalVars
    <2>3. QED
      BY <2>1, <2>2 DEF SampleStep
  <1>3. CASE log' = log
    BY <1>1, <1>2, <1>3, StorySame
  <1>4. CASE LogSample /\ log' = Append(log, sample)
    <2>1. pc["main"] = "logsample" /\ sample' = sample
      BY <1>4 DEF LogSample
    <2>2. sample = scale /\ run_flag
      BY <2>1 DEF Story
    <2>3. PICK line \in {"F", "C"} : line = sample
      BY DEF NodeTyped
    <2>4. line \in LogLines /\ line \notin ScaleLines /\ line \notin FlagLines
      BY DEF LogLines, OutLines, ScaleLines, FlagLines
    <2>5. QED
      BY <1>1, <1>2, <1>4, <2>2, <2>3, <2>4, StoryAppend
  <1>5. QED
    BY <1>3, <1>4 DEF SampleStep, Sample, PrintSample, SendSample, LogSample, Sleep, Logged

LEMMA StoryRest ==
  ASSUME NodeTyped, Story, OpenStep \/ ReadStep \/ Press, logfile
  PROVE  Story'
  <1>1. UNCHANGED <<logfile, scale, run_flag, sample>>
    BY DEF OpenStep, ReadStep, Press, Connect, SendId, LogId, Poll, NetPoll, globalVars
  <1>2. CASE OpenStep \/ ReadStep
    <2>1. pc'["main"] \notin {"printsample", "logsample"}
      BY <1>2 DEF OpenStep, ReadStep, Connect, SendId, Send, LogId, Poll, NetPoll, Goto, NodeTyped, Threads
    <2>2. log' = log \/ log' = Append(log, "ID")
      BY <1>2 DEF OpenStep, ReadStep, Connect, SendId, LogId, Written, Poll, NetPoll
    <2>3. QED
      BY <1>1, <2>1, <2>2, StorySame, StoryOther
  <1>3. CASE Press
    <2>1. log' = log /\ pc'["main"] = pc["main"]
      BY <1>3 DEF Press, Goto, NodeTyped, Threads
    <2>2. QED
      BY <1>1, <2>1, StorySame DEF Story
  <1>4. QED
    BY <1>2, <1>3

LEMMA StoryStep ==
  ASSUME Buffered, NodeTyped, Story, [NetNext]_netVars
  PROVE  Story'
  <1>1. CASE UNCHANGED nodeVars
    BY <1>1, StorySame DEF nodeVars, Story
  <1>2. ASSUME NEW th \in Threads, ButtonStep(th) PROVE Story'
    BY <1>2, StoryButton
  <1>3. CASE OpenStep \/ ReadStep \/ CommandStep \/ SampleStep \/ Press
    <2>1. CASE logfile
      BY <1>3, <2>1, StoryCommand, StorySample, StoryRest
    <2>2. CASE ~logfile
      <3>1. logfile' = logfile
        BY <1>3 DEF OpenStep, ReadStep, CommandStep, SampleStep, Press, Connect, SendId, LogId, Poll, NetPoll, globalVars,
          Scan, ProcessCommand, NetProcessCommand, Sample, PrintSample, SendSample, LogSample, Sleep
      <3>2. QED
        BY <2>2, <3>1 DEF Story
    <2>3. QED
      BY <2>1, <2>2
  <1>4. QED
    BY <1>1, <1>2, <1>3, Steps DEF NodeStep

LEMMA StoryInitially ==
  ASSUME NetInit
  PROVE  Story
  <1>1. /\ log = <<>> /\ scale = "F" /\ run_flag = TRUE
        /\ pc["main"] \notin {"printsample", "logsample"}
    BY DEF NetInit, NodeInitAt, Threads
  <1>2. Len(log) = 0 /\ DOMAIN log = {}
    BY <1>1
  <1>3. PICK b \in Nat : b = 0 /\ 1 .. b = {}
    OBVIOUS
  <1>4. /\ LastOf(<<>>, b + 1, ScaleLines, "SCALE=F") = "SCALE=F"
        /\ LastOf(<<>>, b + 1, FlagLines, "START") = "START"
    BY <1>3, LastIsNone
  <1>5. QED
    BY <1>1, <1>2, <1>3, <1>4 DEF Story, LogTellsTheTruth, ScaleLine

\* Read from top to bottom the log tells a true story, in all three programs:
\* the scale of every sample is what the last SCALE command above it asked for,
\* and no sample follows a STOP that no START has undone (processCommand and
\* the body of main's loop, with the button pressed at any moment).
THEOREM LogIsTrue == NetSpec => []LogTellsTheTruth
  <1>1. NetInit => NodeInv /\ Story
    BY InitTyped, StoryInitially DEF NodeInv
  <1>2. NodeInv /\ Story /\ [NetNext]_netVars => Story'
    BY StoryStep DEF NodeInv
  <1>3. Story => LogTellsTheTruth
    BY DEF Story, LogTellsTheTruth
  <1>4. QED
    BY <1>1, <1>2, <1>3, NodeInvStep, PTL DEF NetSpec

-----------------------------------------------------------------------------
(* The end, when the button has not been pressed. *)

\* t is s with the line x behind it.
LineAdded(s, x, t) ==
  /\ NoShutdown(s) /\ x # "SHUTDOWN" => NoShutdown(t)
  /\ NoShutdown(s) /\ x = "SHUTDOWN" => ShutdownLast(t)
  /\ t # <<>> /\ t[Len(t)] = x
  /\ Head(t) = IF s = <<>> THEN x ELSE Head(s)
  /\ s # <<>> => Len(t) > 1 /\ t[Len(t) - 1] = s[Len(s)]

LEMMA OneLineMore ==
  ASSUME NEW L, NEW s \in Seq(L), NEW x \in L, NEW t, t = Append(s, x)
  PROVE  LineAdded(s, x, t)
  <1>1. PICK N \in Nat : N = Len(s) /\ DOMAIN s = 1 .. N
    BY LenProperties
  <1>2. t \in Seq(L) /\ Len(t) = N + 1 /\ t[N + 1] = x /\ \A n \in 1 .. N : t[n] = s[n]
    BY <1>1, AppendProperties
  <1>3. DOMAIN t = 1 .. N + 1 /\ t # <<>> /\ Head(t) = t[1]
    BY <1>2, LenProperties, EmptySeq
  <1>4. s # <<>> => N >= 1 /\ Head(s) = s[1]
    BY <1>1, EmptySeq
  <1>5. s = <<>> => N = 0
    BY <1>1, EmptySeq
  <1>6. N + 1 - 1 = N
    OBVIOUS
  <1>7. QED
    BY <1>1, <1>2, <1>3, <1>4, <1>5, <1>6 DEF LineAdded, NoShutdown, ShutdownLast

\* buttonPress, run by main for OFF.
LEMMA QuietButton ==
  ASSUME NodeTyped, Quiet, link' = link, NEW th \in Threads, ButtonStep(th), exit = Running
  PROVE  Quiet'
  <1>1. SUFFICES ASSUME pc'["isr"] = "idle" PROVE Quiet'
    BY DEF Quiet
  <1>2. pc["isr"] = "idle" /\ th = "main"
    BY <1>1 DEF ButtonStep, PrintShutdown, SendShutdown, Send, LogShutdown, CloseSensors, Exit, ShutdownSocket, Quit,
      Goto, NodeTyped, Threads
  <1>3. logfile' = logfile
    BY DEF ButtonStep, PrintShutdown, SendShutdown, LogShutdown, CloseSensors, Exit, ShutdownSocket, Quit, globalVars
  <1>4. log \in Seq(LogLines) /\ out \in Seq(OutLines) /\ "SHUTDOWN" \in LogLines /\ "SHUTDOWN" \in OutLines
    BY DEF NodeTyped, LogLines, OutLines
  <1>5. CASE PrintShutdown("main") \/ SendShutdown("main")
    <2>1. pc["main"] = "print" /\ log' = log
      BY <1>5 DEF PrintShutdown, SendShutdown
    <2>2. CASE UNCHANGED <<out, pc>>
      <3>1. exit' # 0
        BY <1>5, <2>2 DEF PrintShutdown, SendShutdown, Send, SendErrors, SegFault, SigPipe, Goto, NodeTyped, Threads, Running
      <3>2. QED
        BY <1>2, <1>3, <2>1, <2>2, <3>1 DEF Quiet
    <2>3. CASE out' = Append(out, "SHUTDOWN") /\ Goto("main", "log") /\ exit' = exit
      <3>1. pc'["main"] = "log"
        BY <2>3 DEF Goto, NodeTyped, Threads
      <3>2. NoShutdown(out) /\ (link # "stdin" => out # <<>> /\ Head(out) = "ID")
        BY <1>2, <2>1 DEF Quiet
      <3>3. ShutdownLast(out') /\ out' # <<>> /\ (link # "stdin" => Head(out') = "ID")
        <4>1. LineAdded(out, "SHUTDOWN", out')
          BY <1>4, <2>3, OneLineMore
        <4>2. QED
          BY <1>4, <2>3, <3>2, <4>1 DEF LineAdded
      <3>4. QED
        BY <1>2, <1>3, <2>1, <2>3, <3>1, <3>3 DEF Quiet, Running
    <2>4. QED
      BY <1>5, <2>2, <2>3 DEF PrintShutdown, SendShutdown, Send, Printed
  <1>6. CASE LogShutdown("main")
    <2>1. /\ pc["main"] = "log" /\ pc'["main"] = "close" /\ out' = out /\ exit' = exit
          /\ logfile => log' = Append(log, "SHUTDOWN")
      BY <1>6 DEF LogShutdown, Goto, NodeTyped, Threads, Logged
    <2>2. logfile => NoShutdown(log) /\ log # <<>> /\ log[Len(log)] = "OFF"
      BY <1>2, <2>1 DEF Quiet
    <2>3. logfile => ShutdownLast(log') /\ Len(log') > 1 /\ log'[Len(log') - 1] = "OFF"
      <3>1. logfile => LineAdded(log, "SHUTDOWN", log')
        BY <1>4, <2>1, OneLineMore
      <3>2. QED
        BY <1>4, <2>1, <2>2, <3>1 DEF LineAdded
    <2>4. QED
      BY <1>2, <1>3, <2>1, <2>3 DEF Quiet, Running
  <1>7. CASE CloseSensors("main") \/ Exit("main") \/ ShutdownSocket("main") \/ Quit("main")
    <2>1. /\ pc["main"] \in {"close", "exit", "quit"} /\ pc'["main"] \in {"exit", "quit"}
          /\ out' = out /\ log' = log
      BY <1>7 DEF CloseSensors, Exit, ShutdownSocket, Quit, Goto, NodeTyped, Threads
    <2>2. QED
      BY <1>2, <1>3, <2>1 DEF Quiet
  <1>8. QED
    BY <1>2, <1>5, <1>6, <1>7 DEF ButtonStep

\* The steps of main before that.
LEMMA QuietMain ==
  ASSUME Buffered, NodeTyped, Quiet, link' = link, exit = Running,
         OpenStep \/ ReadStep \/ CommandStep \/ SampleStep, pc["isr"] = "idle"
  PROVE  Quiet'
  <1>1. logfile' = logfile
    BY DEF OpenStep, ReadStep, CommandStep, SampleStep, Connect, SendId, LogId, Poll, NetPoll, globalVars,
      Scan, ProcessCommand, NetProcessCommand, Sample, PrintSample, SendSample, LogSample, Sleep
  <1>2. exit' # 0
    <2>1. ASSUME NEW th, NEW line, NEW label, Send(th, line, label)
          PROVE  exit' # 0
      BY <2>1 DEF Send, SendErrors, SegFault, SigPipe, Running
    <2>2. QED
      BY <2>1 DEF OpenStep, ReadStep, CommandStep, SampleStep, Connect, SendId, LogId, Poll, NetPoll,
        Scan, ProcessCommand, NetProcessCommand, Sample, PrintSample, SendSample, LogSample, Sleep, SegFault, Running
  <1>3. log \in Seq(LogLines) /\ out \in Seq(OutLines)
    BY DEF NodeTyped
  <1>4. pc["main"] \notin {"print", "log", "close", "exit", "quit"}
    BY DEF OpenStep, ReadStep, CommandStep, SampleStep, Connect, SendId, LogId, Poll, NetPoll,
      Scan, ProcessCommand, NetProcessCommand, Sample, PrintSample, SendSample, LogSample, Sleep
  <1>5. pc'["main"] \notin {"log", "close", "exit", "quit"}
    BY DEF OpenStep, ReadStep, CommandStep, SampleStep, Connect, SendId, Send, LogId, Poll, NetPoll, Goto, NodeTyped, Threads,
      Scan, ProcessCommand, NetProcessCommand, Sample, PrintSample, SendSample, LogSample, Sleep
  <1>6. /\ NoShutdown(out')
        /\ pc'["main"] \in {"connect", "id"} => out' = <<>>
        /\ link # "stdin" /\ pc'["main"] \notin {"connect", "id"} => out' # <<>> /\ Head(out') = "ID"
    <2>1. /\ NoShutdown(out)
          /\ pc["main"] \in {"connect", "id"} => out = <<>>
          /\ link # "stdin" /\ pc["main"] \notin {"connect", "id"} => out # <<>> /\ Head(out) = "ID"
      BY <1>4 DEF Quiet
    <2>2. CASE /\ out' = out
               /\ pc'["main"] \in {"connect", "id"} <=> pc["main"] \in {"connect", "id"}
      BY <2>1, <2>2
    <2>3. CASE SendId /\ out' = Append(out, "ID") /\ pc'["main"] = "logid"
      <3>1. out = <<>> /\ "ID" \in OutLines
        BY <2>1, <2>3 DEF SendId, OutLines
      <3>2. NoShutdown(out') /\ out' # <<>> /\ Head(out') = "ID"
        <4>1. LineAdded(out, "ID", out')
          BY <1>3, <2>3, <3>1, OneLineMore
        <4>2. QED
          BY <1>3, <2>1, <2>3, <3>1, <4>1 DEF LineAdded
      <3>3. QED
        BY <2>3, <3>2
    <2>4. CASE /\ pc["main"] \notin {"connect", "id"} /\ pc'["main"] \notin {"connect", "id"}
               /\ out' = Append(out, sample)
      <3>1. sample \in OutLines /\ sample # "SHUTDOWN"
        BY DEF NodeTyped, OutLines
      <3>2. NoShutdown(out') /\ out' # <<>> /\ Head(out') = IF out = <<>> THEN sample ELSE Head(out)
        <4>1. LineAdded(out, sample, out')
          BY <1>3, <2>4, <3>1, OneLineMore
        <4>2. QED
          BY <1>3, <2>1, <2>4, <3>1, <4>1 DEF LineAdded
      <3>3. QED
        BY <2>1, <2>4, <3>2
    <2>5. QED
      <3>1. CASE OpenStep
        BY <2>2, <2>3, <3>1 DEF OpenStep, Connect, SendId, Send, Printed, LogId, Goto, NodeTyped, Threads
      <3>2. CASE ReadStep \/ CommandStep
        BY <2>2, <3>2 DEF ReadStep, CommandStep, Poll, NetPoll, Scan, ProcessCommand, NetProcessCommand, Goto, NodeTyped, Threads
      <3>3. CASE SampleStep
        BY <2>2, <2>4, <3>3 DEF SampleStep, Sample, PrintSample, SendSample, Send, Printed, LogSample, Sleep, Goto, NodeTyped, Threads
      <3>4. QED
        BY <3>1, <3>2, <3>3
  <1>7. ASSUME logfile
        PROVE  /\ NoShutdown(log')
               /\ pc'["main"] = "print" => log' # <<>> /\ log'[Len(log')] = "OFF"
    <2>1. NoShutdown(log)
      BY <1>4, <1>7 DEF Quiet
    <2>2. CASE log' = log /\ pc'["main"] # "print"
      BY <2>1, <2>2
    <2>3. ASSUME NEW line \in LogLines \ {"SHUTDOWN"}, log' = Append(log, line),
                 pc'["main"] = "print" => line = "OFF"
          PROVE  /\ NoShutdown(log')
                 /\ pc'["main"] = "print" => log' # <<>> /\ log'[Len(log')] = "OFF"
      <3>1. NoShutdown(log') /\ log' # <<>> /\ log'[Len(log')] = line
        <4>1. LineAdded(log, line, log')
          BY <1>3, <2>3, OneLineMore
        <4>2. QED
          BY <1>3, <2>1, <2>3, <4>1 DEF LineAdded
      <3>2. QED
        BY <2>3, <3>1
    <2>4. /\ {"ID", "F", "C", "OFF", "overlong"} \subseteq LogLines \ {"SHUTDOWN"}
          /\ Symbols \subseteq LogLines \ {"SHUTDOWN"}
      BY NodeAssumption DEF LogLines, OutLines, Symbols, NL
    <2>5. CASE OpenStep \/ ReadStep
      BY <2>2, <2>3, <2>4, <2>5 DEF OpenStep, ReadStep, Connect, SendId, Send, LogId, Written, Poll, NetPoll, Goto, NodeTyped, Threads
    <2>6. CASE Scan
      BY <2>2, <2>3, <2>4, <2>6 DEF Scan, Goto, NodeTyped, Threads
    <2>7. CASE ProcessCommand \/ NetProcessCommand
      <3>1. PICK line \in LogLines \ {"SHUTDOWN"} : line = Head(Command)
        BY <2>4, <2>7, CommandTyped DEF ProcessCommand, NetProcessCommand
      <3>2. CASE line = "OFF"
        <4>1. log' = Append(log, line)
          BY <1>7, <2>7, <3>1, <3>2 DEF ProcessCommand, NetProcessCommand, Logged
        <4>2. QED
          BY <2>3, <3>2, <4>1
      <3>3. CASE line # "OFF"
        <4>1. pc'["main"] # "print" /\ (log' = log \/ log' = Append(log, line))
          BY <2>7, <3>1, <3>3 DEF ProcessCommand, NetProcessCommand, Logged, Written
        <4>2. QED
          BY <2>2, <2>3, <4>1
      <3>4. QED
        BY <3>2, <3>3
    <2>8. CASE SampleStep
      <3>1. sample \in LogLines \ {"SHUTDOWN"}
        BY <2>4 DEF NodeTyped
      <3>2. pc'["main"] # "print" /\ (log' = log \/ log' = Append(log, sample))
        BY <2>8 DEF SampleStep, Sample, PrintSample, SendSample, Send, LogSample, Sleep, Logged, Goto, NodeTyped, Threads
      <3>3. QED
        BY <2>2, <2>3, <3>1, <3>2
    <2>9. QED
      BY <2>5, <2>6, <2>7, <2>8 DEF CommandStep
  <1>8. QED
    BY <1>1, <1>2, <1>5, <1>6, <1>7 DEF Quiet

LEMMA QuietStep ==
  ASSUME Buffered, NodeTyped, LinkTyped, Quiet, [NetNext]_netVars
  PROVE  Quiet'
  <1>1. link' = link
    BY LinkTypedStep
  <1>2. CASE UNCHANGED nodeVars
    BY <1>1, <1>2 DEF nodeVars, Quiet
  <1>3. CASE Press
    BY <1>3 DEF Press, Goto, NodeTyped, Threads, Quiet
  <1>4. CASE exit = Running /\ (OpenStep \/ ReadStep \/ CommandStep \/ SampleStep)
    <2>1. CASE pc["isr"] = "idle"
      BY <1>1, <1>4, <2>1, QuietMain
    <2>2. CASE pc["isr"] # "idle"
      <3>1. pc'["isr"] = pc["isr"]
        BY <1>4 DEF OpenStep, ReadStep, CommandStep, SampleStep, Connect, SendId, Send, LogId, Poll, NetPoll, Goto, NodeTyped,
          Threads, Scan, ProcessCommand, NetProcessCommand, Sample, PrintSample, SendSample, LogSample, Sleep
      <3>2. QED
        BY <2>2, <3>1 DEF Quiet
    <2>3. QED
      BY <2>1, <2>2
  <1>5. QED
    BY <1>1, <1>2, <1>3, <1>4, Steps, QuietButton DEF NodeStep

LEMMA QuietInitially ==
  ASSUME NetInit
  PROVE  Quiet
  <1>1. /\ log = <<>> /\ out = <<>> /\ exit = Running
        /\ pc["main"] = IF link = "stdin" THEN "poll" ELSE "connect"
    BY DEF NetInit, NodeInitAt, Threads
  <1>2. DOMAIN <<>> = {}
    OBVIOUS
  <1>3. NoShutdown(out) /\ NoShutdown(log)
    BY <1>1, <1>2 DEF NoShutdown
  <1>4. QED
    BY <1>1, <1>3 DEF Quiet, Running

LEMMA QuietEnds ==
  ASSUME NodeTyped, Quiet
  PROVE  OffThenShutdown
  <1>1. SUFFICES ASSUME exit = 0, pc["isr"] = "idle"
                 PROVE  /\ EndsWithShutdown
                        /\ logfile => Len(log) > 1 /\ log[Len(log) - 1] = "OFF"
                        /\ link # "stdin" => Head(out) = "ID"
    BY DEF OffThenShutdown
  <1>2. pc["main"] \in {"exit", "quit"} /\ ShutdownLast(out) /\ (logfile => ShutdownLast(log))
    BY <1>1 DEF Quiet
  <1>3. ASSUME NEW L, NEW s \in Seq(L), ShutdownLast(s)
        PROVE  s # <<>> /\ {n \in DOMAIN s : s[n] = "SHUTDOWN"} = {Len(s)}
    <2>1. PICK N \in Nat : N = Len(s) /\ DOMAIN s = 1 .. N
      BY LenProperties
    <2>2. N >= 1 /\ s[N] = "SHUTDOWN" /\ \A n \in 1 .. N - 1 : s[n] # "SHUTDOWN"
      BY <1>3, <2>1, EmptySeq DEF ShutdownLast
    <2>3. \A n \in 1 .. N : s[n] = "SHUTDOWN" <=> n = N
      BY <2>2
    <2>4. QED
      BY <1>3, <2>1, <2>2, <2>3 DEF ShutdownLast
  <1>4. EndsWithShutdown
    BY <1>2, <1>3 DEF EndsWithShutdown, NodeTyped
  <1>5. QED
    BY <1>1, <1>2, <1>4 DEF Quiet

\* A program that OFF ends has printed or sent SHUTDOWN as its last line and
\* logged OFF and then SHUTDOWN, each once, and lab4c has told its ID before
\* anything else (processCommand and buttonPress, run by main).
THEOREM OffIsTheEnd == NetSpec => []OffThenShutdown
  <1>1. NetInit => NodeInv /\ Quiet
    BY InitTyped, QuietInitially DEF NodeInv
  <1>2. NodeInv /\ Quiet /\ [NetNext]_netVars => Quiet'
    BY QuietStep DEF NodeInv
  <1>3. NodeInv /\ Quiet => OffThenShutdown
    BY QuietEnds DEF NodeInv
  <1>4. QED
    BY <1>1, <1>2, <1>3, NodeInvStep, PTL DEF NetSpec
=============================================================================
