------------------------ MODULE RemoteShell_proofs ------------------------
(***************************************************************************)
(* Proofs about RemoteShell, for every size of the buffers and the pipes,  *)
(* whatever is typed and written, with --compress and without, and         *)
(* whenever the client, the server or the shell ends.                      *)
(***************************************************************************)
EXTENDS RemoteShell, InductionLemmas

\* The bytes that there can be anywhere, and the streams of zlib.
Chars == Keys \cup ShellBytes \cup {"CR", "NL", "junk"}
Streams == [pending : Seq(Seq(Chars)), held : Seq(Chars), broken : BOOLEAN]

-----------------------------------------------------------------------------
(* Sequences. *)

LEMMA Sizes ==
  /\ BuffSize \in Nat \ {0} /\ PipeSize \in Nat \ {0}
  /\ DecompSize \in Nat /\ BuffSize <= DecompSize
  BY BoundsAssumption, RoomAssumption

LEMMA CharsThere == "CR" \in Chars /\ "NL" \in Chars /\ "junk" \in Chars /\ Keys \subseteq Chars /\ ShellBytes \subseteq Chars
  BY DEF Chars

LEMMA KeysAreChars ==
  ASSUME NEW s \in Seq(Keys)
  PROVE  s \in Seq(Chars)
  BY CharsThere, SeqMonotonic

LEMMA BytesAreChars ==
  ASSUME NEW s \in Seq(ShellBytes)
  PROVE  s \in Seq(Chars)
  BY CharsThere, SeqMonotonic

LEMMA Joined ==
  ASSUME NEW a \in Seq(Chars), NEW b \in Seq(Chars)
  PROVE  a \o b \in Seq(Chars) /\ Len(a \o b) = Len(a) + Len(b)
  BY ConcatProperties

LEMMA Associative == \A a, b, c \in Seq(Chars) : (a \o b) \o c = a \o (b \o c)
  BY ConcatAssociative

\* The same with a name, so that a step can say which three it regroups.
Grouping(a, b, c) == (a \o b) \o c = a \o (b \o c)

LEMMA Grouped == \A a, b, c \in Seq(Chars) : Grouping(a, b, c)
  BY Associative DEF Grouping

LEMMA WithNothing ==
  ASSUME NEW S, NEW a \in Seq(S)
  PROVE  a \o <<>> = a /\ <<>> \o a = a
  BY ConcatEmptySeq

\* A read takes the front and leaves the others.
LEMMA ReadParts ==
  ASSUME NEW S, NEW s \in Seq(S), NEW n \in Nat
  PROVE  /\ FirstOf(s, n) \in Seq(S) /\ RestOf(s, n) \in Seq(S)
         /\ Len(FirstOf(s, n)) <= n /\ Len(RestOf(s, n)) <= Len(s)
         /\ FirstOf(s, n) \o RestOf(s, n) = s
  BY CutInTwo DEF FirstOf, RestOf

LEMMA BytesTyped ==
  ASSUME NEW tokens \in Seq(Seq(Chars))
  PROVE  Bytes(tokens) \in Seq(Chars)
  BY FlattenAppend, EmptySeq DEF Bytes

LEMMA BytesConcat ==
  ASSUME NEW s \in Seq(Seq(Chars)), NEW t \in Seq(Seq(Chars))
  PROVE  Bytes(s \o t) = Bytes(s) \o Bytes(t)
  BY FlattenConcat DEF Bytes

LEMMA BytesOne ==
  ASSUME NEW x \in Seq(Chars)
  PROVE  Bytes(<<x>>) = x
  <1>1. <<x>> = Append(<<>>, x) /\ <<>> \in Seq(Seq(Chars))
    OBVIOUS
  <1>2. FlattenSeq(Append(<<>>, x)) = FlattenSeq(<<>>) \o x
    BY <1>1, FlattenAppend
  <1>3. QED
    BY <1>1, <1>2, FlattenEmpty, WithNothing DEF Bytes

\* Reading tokens takes their bytes from the front.
LEMMA BytesOfParts ==
  ASSUME NEW tokens \in Seq(Seq(Chars)), NEW n \in Nat
  PROVE  Bytes(tokens) = Bytes(FirstOf(tokens, n)) \o Bytes(RestOf(tokens, n))
  <1>1. PICK s \in Seq(Seq(Chars)), t \in Seq(Seq(Chars)) :
          s = FirstOf(tokens, n) /\ t = RestOf(tokens, n) /\ s \o t = tokens
    BY ReadParts
  <1>2. QED
    BY <1>1, BytesConcat

\* A token for each byte.
LEMMA PlainTyped ==
  ASSUME NEW s \in Seq(Chars)
  PROVE  Plain(s) \in Seq(Seq(Chars)) /\ Len(Plain(s)) = Len(s)
  <1>1. PICK N \in Nat : N = Len(s) /\ DOMAIN s = 1 .. N
    BY LenProperties
  <1>2. \A n \in 1 .. N : <<s[n]>> \in Seq(Chars)
    BY <1>1, ElementOfSeq
  <1>3. Plain(s) \in [1 .. N -> Seq(Chars)]
    BY <1>1, <1>2 DEF Plain
  <1>4. QED
    BY <1>1, <1>3, FunctionsAreSequences

LEMMA BytesOfPlain ==
  ASSUME NEW s \in Seq(Chars)
  PROVE  Bytes(Plain(s)) = s
  <1> DEFINE Good == {n \in Nat : \A t \in Seq(Chars) : Len(t) = n => Bytes(Plain(t)) = t}
  <1>1. 0 \in Good
    <2>1. SUFFICES ASSUME NEW t \in Seq(Chars), Len(t) = 0 PROVE Bytes(Plain(t)) = t
      OBVIOUS
    <2>2. t = <<>> /\ Plain(t) = <<>>
      BY <2>1, EmptySeq DEF Plain
    <2>3. QED
      BY <2>2, FlattenEmpty DEF Bytes
  <1>2. ASSUME NEW n \in Nat, n \in Good
        PROVE  n + 1 \in Good
    <2>1. SUFFICES ASSUME NEW t \in Seq(Chars), Len(t) = n + 1 PROVE Bytes(Plain(t)) = t
      OBVIOUS
    <2>2. t # <<>>
      BY <2>1, EmptySeq
    <2>3. PICK x \in Chars, r \in Seq(Chars) : t = <<x>> \o r /\ Len(r) = n
      <3>1. /\ Head(t) \in Chars /\ Tail(t) \in Seq(Chars) /\ Len(Tail(t)) = Len(t) - 1
            /\ t = <<Head(t)>> \o Tail(t)
        BY <2>2, HeadFirst
      <3>2. Len(Tail(t)) = n
        BY <2>1, <3>1
      <3>3. QED
        BY <3>1, <3>2
    <2>4. Plain(t) = <<<<x>>>> \o Plain(r)
      <3>1. Len(Plain(t)) = n + 1 /\ Len(Plain(r)) = n
        BY <2>1, <2>3, PlainTyped
      <3>2. Plain(t) \in Seq(Seq(Chars)) /\ Plain(r) \in Seq(Seq(Chars)) /\ <<<<x>>>> \in Seq(Seq(Chars))
        BY PlainTyped
      <3>3. <<<<x>>>> \o Plain(r) \in Seq(Seq(Chars)) /\ Len(<<<<x>>>> \o Plain(r)) = n + 1
        BY <3>1, <3>2, ConcatProperties
      <3>4. ASSUME NEW i \in 1 .. n + 1
            PROVE  Plain(t)[i] = (<<<<x>>>> \o Plain(r))[i]
        <4>1. Plain(t)[i] = <<t[i]>>
          BY <2>1 DEF Plain
        <4>2. CASE i = 1
          <5>1. (<<<<x>>>> \o Plain(r))[1] = <<<<x>>>>[1]
            BY <3>2
          <5>2. t[1] = x
            BY <2>3
          <5>3. QED
            BY <4>1, <4>2, <5>1, <5>2
        <4>3. CASE i # 1
          <5>1. i - 1 \in 1 .. n /\ t[i] = r[i - 1]
            BY <2>3, <4>3
          <5>2. Plain(r)[i - 1] = <<r[i - 1]>>
            BY <2>3, <5>1 DEF Plain
          <5>3. (<<<<x>>>> \o Plain(r))[i] = Plain(r)[i - 1]
            BY <3>1, <3>2, <4>3
          <5>4. QED
            BY <4>1, <5>1, <5>2, <5>3
        <4>4. QED
          BY <4>2, <4>3
      <3>5. QED
        BY <3>1, <3>2, <3>3, <3>4, SeqEqual
    <2>5. Bytes(Plain(r)) = r
      BY <1>2, <2>3
    <2>6. <<<<x>>>> \in Seq(Seq(Chars)) /\ <<x>> \in Seq(Chars)
      OBVIOUS
    <2>7. Bytes(<<<<x>>>> \o Plain(r)) = Bytes(<<<<x>>>>) \o Bytes(Plain(r))
      BY <2>6, PlainTyped, BytesConcat
    <2>8. QED
      BY <2>3, <2>4, <2>5, <2>6, <2>7, BytesOne
  <1> HIDE DEF Good
  <1>3. Nat \subseteq Good
    BY <1>1, <1>2, SetInduction
  <1>4. Len(s) \in Nat
    OBVIOUS
  <1>5. QED
    BY <1>3, <1>4 DEF Good

-----------------------------------------------------------------------------
(* zlib. *)

\* deflate() neither loses nor invents anything.
LEMMA DeflateEffect ==
  ASSUME compress \in BOOLEAN, NEW stream \in Streams, NEW s \in Seq(Chars),
         NEW d \in Deflate(stream, s)
  PROVE  /\ d.out \in Seq(Seq(Chars)) /\ d.stream \in Streams
         /\ d.stream.held = stream.held /\ d.stream.broken = stream.broken
         /\ Bytes(d.out) \o Bytes(d.stream.pending) = Bytes(stream.pending) \o s
         /\ ~compress => /\ stream.pending = <<>> => d.out = Plain(s)
                         /\ d.stream.pending = <<>>
  <1>1. PICK tokens : /\ \E e \in Deflations(s) : tokens = stream.pending \o e
                      /\ d.out = FirstOf(tokens, IF compress THEN BuffSize ELSE Len(tokens))
                      /\ d.stream = [stream EXCEPT !.pending = IF compress THEN RestOf(tokens, BuffSize) ELSE <<>>]
    <2>1. PICK u \in {stream.pending \o e : e \in Deflations(s)} :
            d = [out |-> FirstOf(u, IF compress THEN BuffSize ELSE Len(u)),
                 stream |-> [stream EXCEPT !.pending = IF compress THEN RestOf(u, BuffSize) ELSE <<>>]]
      BY Zenon DEF Deflate
    <2>2. QED
      BY <2>1
  <1>2. PICK e \in Deflations(s) : tokens = stream.pending \o e
    BY <1>1
  <1>3. stream.pending \in Seq(Seq(Chars)) /\ stream.held \in Seq(Chars) /\ stream.broken \in BOOLEAN
    BY DEF Streams
  <1>4. e \in Seq(Seq(Chars)) /\ Bytes(e) = s
    <2>1. CASE e = <<s>>
      BY <2>1, BytesOne
    <2>2. CASE e = Plain(s)
      BY <2>2, PlainTyped, BytesOfPlain
    <2>3. CASE e = <<<<>>>> \o Plain(s)
      <3>1. <<>> \in Seq(Chars) /\ <<<<>>>> \in Seq(Seq(Chars)) /\ Plain(s) \in Seq(Seq(Chars))
        BY PlainTyped
      <3>2. Bytes(<<<<>>>>) = <<>>
        BY <3>1, BytesOne
      <3>3. Bytes(e) = Bytes(<<<<>>>>) \o Bytes(Plain(s))
        BY <2>3, <3>1, BytesConcat
      <3>4. e \in Seq(Seq(Chars))
        BY <2>3, <3>1, ConcatProperties
      <3>5. QED
        BY <3>2, <3>3, <3>4, BytesOfPlain, WithNothing
    <2>4. QED
      BY <1>2, <2>1, <2>2, <2>3 DEF Deflations
  <1>5. tokens \in Seq(Seq(Chars)) /\ Bytes(tokens) = Bytes(stream.pending) \o s
    BY <1>2, <1>3, <1>4, BytesConcat, ConcatProperties
  <1>6. CASE compress
    <2>1. d.out = FirstOf(tokens, BuffSize) /\ d.stream = [stream EXCEPT !.pending = RestOf(tokens, BuffSize)]
      BY <1>1, <1>6
    <2>2. FirstOf(tokens, BuffSize) \in Seq(Seq(Chars)) /\ RestOf(tokens, BuffSize) \in Seq(Seq(Chars))
      BY <1>5, ReadParts, Sizes
    <2>3. /\ d.stream.pending = RestOf(tokens, BuffSize) /\ d.stream \in Streams
          /\ d.stream.held = stream.held /\ d.stream.broken = stream.broken
      BY <1>3, <2>1, <2>2 DEF Streams
    <2>4. Bytes(tokens) = Bytes(d.out) \o Bytes(d.stream.pending)
      BY <1>5, <2>1, <2>3, BytesOfParts, Sizes
    <2>5. QED
      BY <1>5, <1>6, <2>1, <2>2, <2>3, <2>4
  <1>7. CASE ~compress
    <2>1. d.out = FirstOf(tokens, Len(tokens)) /\ d.stream = [stream EXCEPT !.pending = <<>>]
      BY <1>1, <1>7
    <2>2. FirstOf(tokens, Len(tokens)) = tokens
      <3>1. Len(tokens) \in Nat /\ ~(Len(tokens) < Len(tokens))
        BY <1>5
      <3>2. FirstOf(tokens, Len(tokens)) = SubSeq(tokens, 1, Len(tokens))
        BY <3>1 DEF FirstOf
      <3>3. QED
        BY <1>5, <3>2, SubSeqFull
    <2>3. /\ d.stream.pending = <<>> /\ d.stream \in Streams
          /\ d.stream.held = stream.held /\ d.stream.broken = stream.broken
      <3>1. <<>> \in Seq(Seq(Chars))
        BY EmptySeq
      <3>2. QED
        BY <1>3, <2>1, <3>1 DEF Streams
    <2>4. Bytes(tokens) \in Seq(Chars) /\ Bytes(<<>>) = <<>>
      BY <1>5, BytesTyped, FlattenEmpty DEF Bytes
    <2>5. Bytes(tokens) = Bytes(d.out) \o Bytes(d.stream.pending)
      BY <2>1, <2>2, <2>3, <2>4, WithNothing
    <2>6. e = Plain(s)
      BY <1>7 DEF Deflations
    <2>7. stream.pending = <<>> => tokens = Plain(s)
      BY <1>2, <1>4, <2>6, WithNothing
    <2>8. QED
      BY <1>5, <2>1, <2>2, <2>3, <2>5, <2>7
  <1>8. QED
    BY <1>6, <1>7

\* A stream in order gives what it was given, or keeps it, unless it is given more
\* than there is room for; then it may break, for good.
LEMMA InflateEffect ==
  ASSUME compress \in BOOLEAN, NEW stream \in Streams, NEW tokens \in Seq(Seq(Chars)),
         NEW r \in Inflate(stream, tokens)
  PROVE  /\ r.out \in Seq(Chars) /\ r.stream \in Streams
         /\ r.stream.pending = stream.pending
         /\ stream.broken => r.stream = stream
         /\ ~stream.broken /\ r.stream.broken =>
              Len(stream.held) + Len(Bytes(tokens)) > DecompSize
         /\ ~r.stream.broken => r.out \o r.stream.held = stream.held \o Bytes(tokens)
         /\ Len(r.stream.held) <= Len(stream.held) + Len(Bytes(tokens))
         /\ Len(r.out) <= DecompSize \/ (~compress /\ r.out = stream.held \o Bytes(tokens))
         /\ ~compress /\ ~stream.broken => ~r.stream.broken /\ r.stream.held = <<>>
  <1>1. stream.pending \in Seq(Seq(Chars)) /\ stream.held \in Seq(Chars) /\ stream.broken \in BOOLEAN
    BY DEF Streams
  <1>2. PICK all \in Seq(Chars) : all = stream.held \o Bytes(tokens) /\ Len(all) = Len(stream.held) + Len(Bytes(tokens))
    BY <1>1, BytesTyped, Joined
  <1>3. Len(stream.held) \in Nat /\ Len(Bytes(tokens)) \in Nat
    BY <1>1, BytesTyped
  <1>4. <<>> \in Seq(Chars) /\ Len(<<>>) = 0
    BY EmptySeq
  <1>5. CASE stream.broken
    <2>1. r.stream = stream /\ r.out \in {<<>>, <<"junk">>}
      BY <1>5 DEF Inflate
    <2>2. <<>> \in Seq(Chars) /\ <<"junk">> \in Seq(Chars) /\ Len(<<>>) = 0 /\ Len(<<"junk">>) = 1
      BY CharsThere
    <2>3. 1 <= DecompSize
      BY Sizes
    <2>4. r.out \in Seq(Chars) /\ Len(r.out) <= DecompSize
      <3>1. CASE r.out = <<>>
        BY <2>2, <3>1, Sizes
      <3>2. CASE r.out = <<"junk">>
        BY <2>2, <2>3, <3>2
      <3>3. QED
        BY <2>1, <3>1, <3>2
    <2>5. Len(stream.held) <= Len(stream.held) + Len(Bytes(tokens))
      BY <1>3
    <2>6. QED
      BY <1>5, <2>1, <2>4, <2>5
  <1>6. CASE ~stream.broken /\ (~compress \/ Len(all) <= DecompSize)
    <2>1. r.out = all /\ r.stream = [stream EXCEPT !.held = <<>>]
      <3>1. r \in {[out |-> all, stream |-> [stream EXCEPT !.held = <<>>]]}
        BY <1>2, <1>6, Zenon DEF Inflate
      <3>2. QED
        BY <3>1
    <2>2. r.stream \in Streams /\ r.stream.held = <<>> /\ r.stream.pending = stream.pending /\ ~r.stream.broken
      BY <1>1, <1>6, <1>4, <2>1 DEF Streams
    <2>3. Len(<<>>) = 0 /\ all \o <<>> = all
      BY WithNothing
    <2>4. QED
      BY <1>2, <1>3, <1>6, <2>1, <2>2, <2>3
  <1>7. CASE ~stream.broken /\ compress /\ Len(all) > DecompSize
    <2>1. /\ r.out = FirstOf(all, DecompSize)
          /\ \/ r.stream = [stream EXCEPT !.held = <<>>, !.broken = TRUE]
             \/ r.stream = [stream EXCEPT !.held = RestOf(all, DecompSize), !.broken = FALSE]
      BY <1>2, <1>3, <1>7, Sizes DEF Inflate
    <2>2. /\ FirstOf(all, DecompSize) \in Seq(Chars) /\ RestOf(all, DecompSize) \in Seq(Chars)
          /\ Len(FirstOf(all, DecompSize)) <= DecompSize /\ Len(RestOf(all, DecompSize)) <= Len(all)
          /\ FirstOf(all, DecompSize) \o RestOf(all, DecompSize) = all
      BY ReadParts, Sizes
    <2>3. CASE r.stream = [stream EXCEPT !.held = <<>>, !.broken = TRUE]
      <3>1. r.stream \in Streams /\ r.stream.held = <<>> /\ r.stream.pending = stream.pending /\ r.stream.broken
        BY <1>1, <1>4, <2>3 DEF Streams
      <3>2. Len(<<>>) = 0
        OBVIOUS
      <3>3. QED
        BY <1>2, <1>3, <1>7, <2>1, <2>2, <3>1, <3>2
    <2>4. CASE r.stream = [stream EXCEPT !.held = RestOf(all, DecompSize), !.broken = FALSE]
      <3>1. /\ r.stream \in Streams /\ r.stream.held = RestOf(all, DecompSize)
            /\ r.stream.pending = stream.pending /\ ~r.stream.broken
        BY <1>1, <2>2, <2>4 DEF Streams
      <3>2. QED
        BY <1>2, <1>3, <1>7, <2>1, <2>2, <3>1
    <2>5. QED
      BY <2>1, <2>3, <2>4
  <1>8. Len(all) \in Nat
    OBVIOUS
  <1>9. Len(all) <= DecompSize \/ Len(all) > DecompSize
    BY <1>8, Sizes
  <1>10. QED
    BY <1>1, <1>5, <1>6, <1>7, <1>9

-----------------------------------------------------------------------------
(* What the shell has written. *)

LEMMA TextTyped ==
  ASSUME NEW byte \in Chars
  PROVE  TextOf(byte) \in Seq(Chars)
  BY DEF TextOf

LEMMA TextSpelled ==
  ASSUME NEW m, \A byte \in Chars : m[byte] = TextOf(byte), NEW s \in Seq(Chars)
  PROVE  ShellText(s) = Spelled(m, s)
  <1>1. \A n \in DOMAIN s : m[s[n]] = TextOf(s[n])
    BY LenProperties, ElementOfSeq
  <1>2. QED
    BY <1>1, Zenon DEF ShellText, Spelled, Each

LEMMA TextConcat ==
  ASSUME NEW s \in Seq(Chars), NEW t \in Seq(Chars)
  PROVE  ShellText(s) \in Seq(Chars) /\ ShellText(s \o t) = ShellText(s) \o ShellText(t)
  <1> DEFINE m == [byte \in Chars |-> TextOf(byte)]
  <1>1. \A byte \in Chars : m[byte] = TextOf(byte) /\ m[byte] \in Seq(Chars)
    BY TextTyped
  <1> HIDE DEF m
  <1>2. s \o t \in Seq(Chars)
    BY Joined
  <1>3. ShellText(s) = Spelled(m, s) /\ ShellText(t) = Spelled(m, t) /\ ShellText(s \o t) = Spelled(m, s \o t)
    BY <1>1, <1>2, TextSpelled
  <1>4. Spells(m, Chars, Chars)
    BY <1>1 DEF Spells
  <1>5. Spelled(m, s) \in Seq(Chars)
    BY <1>4, SpelledTyped
  <1>6. Spelled(m, s \o t) = Spelled(m, s) \o Spelled(m, t)
    BY <1>4, SpelledConcat
  <1>7. QED
    BY <1>3, <1>5, <1>6

LEMMA TextOne ==
  ASSUME NEW byte \in Chars
  PROVE  ShellText(<<byte>>) = TextOf(byte)
  <1> DEFINE m == [b \in Chars |-> TextOf(b)]
  <1>1. \A b \in Chars : m[b] = TextOf(b) /\ m[b] \in Seq(Chars)
    BY TextTyped
  <1> HIDE DEF m
  <1>2. <<byte>> \in Seq(Chars)
    OBVIOUS
  <1>3. ShellText(<<byte>>) = Spelled(m, <<byte>>)
    BY <1>1, <1>2, TextSpelled
  <1>4. m[byte] \in Seq(Chars) /\ m[byte] = TextOf(byte)
    BY <1>1
  <1>5. QED
    BY <1>3, <1>4, SpelledOne

LEMMA TextNone == ShellText(<<>>) = <<>>
  <1>1. [n \in DOMAIN <<>> |-> TextOf(<<>>[n])] = <<>>
    OBVIOUS
  <1>2. QED
    BY <1>1, FlattenEmpty DEF ShellText

\* A byte is shown with the text that it has.
LEMMA TextIsShown ==
  ASSUME NEW byte \in Chars
  PROVE  Shown(byte) \in Seq(Chars) /\ ShellText(Shown(byte)) = TextOf(byte)
  <1>1. <<byte>> \in Seq(Chars) /\ <<"CR", "NL">> \in Seq(Chars)
    BY CharsThere
  <1>2. CASE byte \in {"CR", "NL"}
    <2>1. TextOf("CR") = <<>> /\ TextOf("NL") = <<>>
      BY KeysAssumption DEF TextOf
    <2>2. <<"CR", "NL">> = <<"CR">> \o <<"NL">> /\ <<"CR">> \in Seq(Chars) /\ <<"NL">> \in Seq(Chars)
      BY CharsThere
    <2>3. ShellText(<<"CR", "NL">>) = ShellText(<<"CR">>) \o ShellText(<<"NL">>)
      BY <2>2, TextConcat
    <2>4. ShellText(<<"CR">>) = <<>> /\ ShellText(<<"NL">>) = <<>>
      BY <2>1, TextOne, CharsThere
    <2>5. ShellText(<<"CR", "NL">>) = <<>>
      BY <2>3, <2>4
    <2>6. Shown(byte) = <<"CR", "NL">> /\ TextOf(byte) = <<>>
      BY <1>2, <2>1 DEF Shown
    <2>7. QED
      BY <1>1, <2>5, <2>6
  <1>3. CASE byte \notin {"CR", "NL"}
    <2>1. Shown(byte) = <<byte>>
      BY <1>3 DEF Shown
    <2>2. QED
      BY <1>1, <2>1, TextOne
  <1>4. QED
    BY <1>2, <1>3

LEMMA ShownConcat ==
  ASSUME NEW s \in Seq(Chars), NEW t \in Seq(Chars)
  PROVE  ShownAll(s) \in Seq(Chars) /\ ShownAll(s \o t) = ShownAll(s) \o ShownAll(t)
  <1> DEFINE m == [byte \in Chars |-> Shown(byte)]
  <1>1. \A byte \in Chars : m[byte] = Shown(byte) /\ m[byte] \in Seq(Chars)
    BY TextIsShown
  <1> HIDE DEF m
  <1>2. s \o t \in Seq(Chars)
    BY Joined
  <1>3. ASSUME NEW u \in Seq(Chars)
        PROVE  ShownAll(u) = Spelled(m, u)
    <2>1. \A n \in DOMAIN u : m[u[n]] = Shown(u[n])
      BY <1>1, LenProperties, ElementOfSeq
    <2>2. QED
      BY <2>1, Zenon DEF ShownAll, Spelled, Each
  <1>4. Spells(m, Chars, Chars)
    BY <1>1 DEF Spells
  <1>5. Spelled(m, s) \in Seq(Chars)
    BY <1>4, SpelledTyped
  <1>6. Spelled(m, s \o t) = Spelled(m, s) \o Spelled(m, t)
    BY <1>4, SpelledConcat
  <1>7. QED
    BY <1>2, <1>3, <1>5, <1>6

LEMMA ShownOne ==
  ASSUME NEW byte \in Chars
  PROVE  ShownAll(<<byte>>) = Shown(byte)
  <1>1. [n \in DOMAIN <<byte>> |-> Shown(<<byte>>[n])] = Append(<<>>, Shown(byte))
    OBVIOUS
  <1>2. Shown(byte) \in Seq(Chars) /\ <<>> \in Seq(Seq(Chars))
    BY TextIsShown, EmptySeq
  <1>3. FlattenSeq(Append(<<>>, Shown(byte))) = FlattenSeq(<<>>) \o Shown(byte)
    BY <1>2, FlattenAppend
  <1>4. QED
    BY <1>1, <1>2, <1>3, FlattenEmpty, WithNothing DEF ShownAll

\* So is a sequence of them.
LEMMA TextOfShown ==
  ASSUME NEW s \in Seq(Chars)
  PROVE  ShellText(ShownAll(s)) = ShellText(s)
  <1> DEFINE Good == {n \in Nat : \A t \in Seq(Chars) : Len(t) = n => ShellText(ShownAll(t)) = ShellText(t)}
  <1>1. 0 \in Good
    <2>1. SUFFICES ASSUME NEW t \in Seq(Chars), Len(t) = 0 PROVE ShellText(ShownAll(t)) = ShellText(t)
      OBVIOUS
    <2>2. t = <<>> /\ [n \in DOMAIN <<>> |-> Shown(<<>>[n])] = <<>>
      BY <2>1, EmptySeq
    <2>3. QED
      BY <2>2, FlattenEmpty DEF ShownAll
  <1>2. ASSUME NEW n \in Nat, n \in Good
        PROVE  n + 1 \in Good
    <2>1. SUFFICES ASSUME NEW t \in Seq(Chars), Len(t) = n + 1 PROVE ShellText(ShownAll(t)) = ShellText(t)
      OBVIOUS
    <2>2. t # <<>>
      BY <2>1, EmptySeq
    <2>3. PICK x \in Chars, r \in Seq(Chars) : t = <<x>> \o r /\ Len(r) = n
      <3>1. /\ Head(t) \in Chars /\ Tail(t) \in Seq(Chars) /\ Len(Tail(t)) = Len(t) - 1
            /\ t = <<Head(t)>> \o Tail(t)
        BY <2>2, HeadFirst
      <3>2. Len(Tail(t)) = n
        BY <2>1, <3>1
      <3>3. QED
        BY <3>1, <3>2
    <2>4. <<x>> \in Seq(Chars)
      OBVIOUS
    <2>5. ShownAll(t) = Shown(x) \o ShownAll(r)
      BY <2>3, <2>4, ShownConcat, ShownOne
    <2>6. Shown(x) \in Seq(Chars) /\ ShownAll(r) \in Seq(Chars) /\ ShellText(Shown(x)) = TextOf(x)
      BY TextIsShown, ShownConcat
    <2>7. ShellText(Shown(x) \o ShownAll(r)) = ShellText(Shown(x)) \o ShellText(ShownAll(r))
      BY <2>6, TextConcat
    <2>8. ShellText(<<x>> \o r) = ShellText(<<x>>) \o ShellText(r)
      BY <2>4, TextConcat
    <2>9. ShellText(ShownAll(r)) = ShellText(r)
      BY <1>2, <2>3
    <2>10. ShellText(<<x>>) = TextOf(x)
      BY TextOne
    <2>11. QED
      BY <2>3, <2>5, <2>6, <2>7, <2>8, <2>9, <2>10
  <1> HIDE DEF Good
  <1>3. Nat \subseteq Good
    BY <1>1, <1>2, SetInduction
  <1>4. Len(s) \in Nat
    OBVIOUS
  <1>5. QED
    BY <1>3, <1>4 DEF Good

\* The echo of what is typed is not taken for what the shell has written.
LEMMA KeysAreNoText ==
  ASSUME NEW s \in Seq(Keys)
  PROVE  ShellText(s) = <<>>
  <1> DEFINE Good == {n \in Nat : \A t \in Seq(Keys) : Len(t) = n => ShellText(t) = <<>>}
  <1>1. 0 \in Good
    BY EmptySeq, TextNone
  <1>2. ASSUME NEW n \in Nat, n \in Good
        PROVE  n + 1 \in Good
    <2>1. SUFFICES ASSUME NEW t \in Seq(Keys), Len(t) = n + 1 PROVE ShellText(t) = <<>>
      OBVIOUS
    <2>2. t # <<>>
      BY <2>1, EmptySeq
    <2>3. PICK x \in Keys, r \in Seq(Keys) : t = <<x>> \o r /\ Len(r) = n
      <3>1. /\ Head(t) \in Keys /\ Tail(t) \in Seq(Keys) /\ Len(Tail(t)) = Len(t) - 1
            /\ t = <<Head(t)>> \o Tail(t)
        BY <2>2, HeadFirst
      <3>2. Len(Tail(t)) = n
        BY <2>1, <3>1
      <3>3. QED
        BY <3>1, <3>2
    <2>4. x \in Chars /\ r \in Seq(Chars) /\ <<x>> \in Seq(Chars)
      BY CharsThere, KeysAreChars
    <2>5. TextOf(x) = <<>>
      BY KeysAssumption DEF TextOf
    <2>6. ShellText(<<x>> \o r) = ShellText(<<x>>) \o ShellText(r)
      BY <2>4, TextConcat
    <2>7. ShellText(<<x>>) = <<>> /\ ShellText(r) = <<>>
      BY <1>2, <2>3, <2>4, <2>5, TextOne
    <2>8. QED
      BY <2>3, <2>6, <2>7
  <1> HIDE DEF Good
  <1>3. Nat \subseteq Good
    BY <1>1, <1>2, SetInduction
  <1>4. Len(s) \in Nat
    OBVIOUS
  <1>5. QED
    BY <1>3, <1>4 DEF Good

LEMMA EchoIsNoText ==
  ASSUME NEW s \in Seq(Keys)
  PROVE  ShownAll(s) \in Seq(Chars) /\ ShellText(ShownAll(s)) = <<>>
  BY KeysAreChars, ShownConcat, TextOfShown, KeysAreNoText

-----------------------------------------------------------------------------
(* What the keys send to the shell. *)

LEMMA SentTyped ==
  ASSUME NEW k \in Chars
  PROVE  Sent(k) \in Seq(Chars) /\ Forwarded(k) \in Chars
  <1>1. Forwarded(k) \in Chars
    BY CharsThere DEF Forwarded
  <1>2. <<Forwarded(k)>> \in Seq(Chars) /\ <<>> \in Seq(Chars)
    BY <1>1
  <1>3. QED
    BY <1>1, <1>2 DEF Sent

LEMMA SentBySpelled ==
  ASSUME NEW m, \A k \in Chars : m[k] = Sent(k), NEW s \in Seq(Chars)
  PROVE  SentBy(s) = Spelled(m, s)
  <1>1. \A n \in DOMAIN s : m[s[n]] = Sent(s[n])
    BY LenProperties, ElementOfSeq
  <1>2. QED
    BY <1>1, Zenon DEF SentBy, Spelled, Each

LEMMA SentByConcat ==
  ASSUME NEW s \in Seq(Chars), NEW t \in Seq(Chars)
  PROVE  SentBy(s) \in Seq(Chars) /\ SentBy(s \o t) = SentBy(s) \o SentBy(t)
  <1> DEFINE m == [k \in Chars |-> Sent(k)]
  <1>1. \A k \in Chars : m[k] = Sent(k) /\ m[k] \in Seq(Chars)
    BY SentTyped
  <1> HIDE DEF m
  <1>2. s \o t \in Seq(Chars)
    BY Joined
  <1>3. SentBy(s) = Spelled(m, s) /\ SentBy(t) = Spelled(m, t) /\ SentBy(s \o t) = Spelled(m, s \o t)
    BY <1>1, <1>2, SentBySpelled
  <1>4. Spells(m, Chars, Chars)
    BY <1>1 DEF Spells
  <1>5. Spelled(m, s) \in Seq(Chars)
    BY <1>4, SpelledTyped
  <1>6. Spelled(m, s \o t) = Spelled(m, s) \o Spelled(m, t)
    BY <1>4, SpelledConcat
  <1>7. QED
    BY <1>3, <1>5, <1>6

LEMMA SentByOne ==
  ASSUME NEW k \in Chars
  PROVE  SentBy(<<k>>) = Sent(k)
  <1>1. <<k>> \in Seq(Chars)
    OBVIOUS
  <1> DEFINE m == [x \in Chars |-> Sent(x)]
  <1>2. \A x \in Chars : m[x] = Sent(x) /\ m[x] \in Seq(Chars)
    BY SentTyped
  <1> HIDE DEF m
  <1>3. SentBy(<<k>>) = Spelled(m, <<k>>)
    BY <1>1, <1>2, SentBySpelled
  <1>4. m[k] \in Seq(Chars) /\ m[k] = Sent(k)
    BY <1>2
  <1>5. QED
    BY <1>3, <1>4, SpelledOne

LEMMA SentByNone == SentBy(<<>>) = <<>>
  <1>1. [n \in DOMAIN <<>> |-> Sent(<<>>[n])] = <<>>
    OBVIOUS
  <1>2. QED
    BY <1>1, FlattenEmpty DEF SentBy
-----------------------------------------------------------------------------
(* The types, by the process that a variable belongs to. *)

UserTypes ==
  /\ compress \in Compress /\ typed \in Typed
  /\ untyped \in Seq(Keys) /\ keys \in Seq(Keys) /\ hungup \in BOOLEAN

ClientTypes ==
  /\ terminal \in {"raw", "normal"} /\ display \in Seq(Chars)
  /\ cpc \in {"poll", "keyboard", "send", "sock"}
  /\ crevents \in [key : BOOLEAN, sock : BOOLEAN]
  /\ buffer \in Seq(Keys) /\ Len(buffer) <= BuffSize
  /\ logged \in [sent : Seq(Chars), received : Seq(Chars)]
  /\ cexit \in {Running, 0, 1, SigPipe, SegFault}

ServerTypes ==
  /\ spc \in {"poll", "sock", "bytes", "send"}
  /\ srevents \in [sock : BOOLEAN, shell : BOOLEAN, hup : BOOLEAN]
  /\ inputbuff \in Seq(Chars)
  /\ outputbuff \in Seq(ShellBytes) /\ Len(outputbuff) <= BuffSize
  /\ sent \in Seq(Chars) /\ reports \in Seq(Statuses)
  /\ sexit \in {Running, 0, 1, SigPipe, SegFault}

NetTypes ==
  /\ up \in Seq(Seq(Chars)) /\ down \in Seq(Seq(Chars))
  /\ keyStream \in Streams /\ shellStream \in Streams
  /\ reset \subseteq {"client", "server"}

ShellTypes == ShellTypeOK /\ received \in Seq(Chars) /\ toShell \in Seq(Chars)

Types == UserTypes /\ ClientTypes /\ ServerTypes /\ NetTypes /\ ShellTypes

LEMMA CompressIsBoolean ==
  ASSUME UserTypes
  PROVE  compress \in BOOLEAN /\ typed \in Seq(Keys)
  BY KeysAssumption DEF UserTypes

\* The client echoes what it sends, or ends because the server has gone.
LEMMA ClientSendsOutcome ==
  ASSUME ClientSends
  PROVE  \/ /\ display' = display \o ShownAll(buffer) /\ cpc' = "sock" /\ UNCHANGED <<terminal, cexit>>
            /\ reset' \in {reset, reset \cup {"client"}}
         \/ /\ ServerGone /\ cexit' \in {1, SegFault, SigPipe}
            /\ terminal' \in {terminal, "normal"} /\ UNCHANGED <<reset, display, cpc>>
  <1>1. PICK outcome \in Outcomes("client", ServerGone, up) :
          \/ /\ outcome \in {"sent", "lost"}
             /\ reset' = IF outcome = "lost" THEN reset \cup {"client"} ELSE reset
             /\ display' = display \o ShownAll(buffer)
             /\ cpc' = "sock" /\ UNCHANGED <<terminal, cexit>>
          \/ outcome = "failed" /\ Reset(1) /\ UNCHANGED <<reset, display, cpc>>
          \/ outcome = "killed" /\ cexit' = SigPipe /\ UNCHANGED <<terminal, reset, display, cpc>>
    BY DEF ClientSends
  <1>2. outcome \in {"failed", "killed"} => ServerGone
    BY DEF Outcomes
  <1>3. Reset(1) => terminal' = "normal" /\ cexit' \in {1, SegFault}
    BY DEF Reset, EndStreams
  <1>4. QED
    BY <1>1, <1>2, <1>3

\* The server reads an EOT, or sends, or the client has gone and nothing is sent.
LEMMA ServerSendsOutcome ==
  ASSUME ServerSends
  PROVE  \/ End(0) /\ Reap /\ UNCHANGED <<down, shellStream, reset, outputbuff, sent>>
         \/ /\ outputbuff' = IF compress THEN <<>> ELSE Tail(outputbuff)
            /\ \/ ~ClientGone /\ SendsPortion
               \/ /\ ClientGone /\ UNCHANGED <<down, shellStream, sent>>
                  /\ reset' \in {reset, reset \cup {"server"}}
                  /\ \/ End(1) /\ Reap
                     \/ sexit' \in {sexit, SigPipe} /\ UNCHANGED <<reports, shell>>
  <1>1. CASE ~compress /\ Head(outputbuff) = "EOT"
    BY <1>1 DEF ServerSends
  <1>2. CASE ~(~compress /\ Head(outputbuff) = "EOT")
    <2>1. outputbuff' = IF compress THEN <<>> ELSE Tail(outputbuff)
      BY <1>2 DEF ServerSends
    <2>2. PICK outcome \in Outcomes("server", ClientGone, down) :
            \/ outcome = "sent" /\ SendsPortion
            \/ /\ outcome = "lost" \/ (outcome = "failed" /\ ~compress)
               /\ reset' = reset \cup {"server"}
               /\ UNCHANGED <<down, shellStream, sent, sexit, reports, shell>>
            \/ /\ outcome = "failed" /\ compress /\ End(1) /\ Reap
               /\ UNCHANGED <<down, shellStream, reset, sent>>
            \/ /\ outcome = "killed" /\ sexit' = SigPipe
               /\ UNCHANGED <<down, shellStream, reset, sent, reports, shell>>
      BY <1>2 DEF ServerSends
    <2>3. (outcome = "sent" <=> ~ClientGone) /\ outcome \in {"sent", "lost", "failed", "killed"}
      BY DEF Outcomes
    <2>4. QED
      BY <2>1, <2>2, <2>3
  <1>3. QED
    BY <1>1, <1>2

\* What the client sends is in the log, and in the connection unless the server
\* has gone.
LEMMA ClientSendsEffect ==
  ASSUME Types, ClientSends
  PROVE  \E o \in Seq(Seq(Chars)), e \in Streams, l \in [sent : Seq(Chars), received : Seq(Chars)] :
           /\ keyStream' = e /\ e.held = keyStream.held /\ e.broken = keyStream.broken
           /\ logged' = l /\ l.received = logged.received /\ l.sent = logged.sent \o Bytes(o)
           /\ Bytes(o) \o Bytes(e.pending) = Bytes(keyStream.pending) \o buffer
           /\ up' = IF ServerGone THEN up ELSE up \o o
           /\ ~compress => /\ keyStream.pending = <<>> => o = Plain(buffer)
                           /\ e.pending = <<>>
  <1>1. compress \in BOOLEAN /\ buffer \in Seq(Chars) /\ keyStream \in Streams
    BY CompressIsBoolean, KeysAreChars DEF Types, ClientTypes, NetTypes
  <1>2. PICK d \in Deflate(keyStream, buffer) :
          /\ keyStream' = d.stream
          /\ logged' = [logged EXCEPT !.sent = @ \o Bytes(d.out)]
          /\ up' = IF ServerGone THEN up ELSE up \o d.out
    BY DEF ClientSends
  <1>3. /\ d.out \in Seq(Seq(Chars)) /\ d.stream \in Streams
        /\ d.stream.held = keyStream.held /\ d.stream.broken = keyStream.broken
        /\ Bytes(d.out) \o Bytes(d.stream.pending) = Bytes(keyStream.pending) \o buffer
        /\ ~compress => /\ keyStream.pending = <<>> => d.out = Plain(buffer)
                        /\ d.stream.pending = <<>>
    BY <1>1, <1>2, DeflateEffect
  <1>4. PICK x \in Seq(Chars) : x = logged.sent \o Bytes(d.out)
    BY <1>3, BytesTyped, Joined DEF Types, ClientTypes
  <1>5. logged' = [logged EXCEPT !.sent = x]
    BY <1>2, <1>4
  <1>6. /\ [logged EXCEPT !.sent = x] \in [sent : Seq(Chars), received : Seq(Chars)]
        /\ [logged EXCEPT !.sent = x].sent = x
        /\ [logged EXCEPT !.sent = x].received = logged.received
    BY DEF Types, ClientTypes
  <1>7. QED
    BY <1>2, <1>3, <1>4, <1>5, <1>6

\* What the server reads goes through inflate().
LEMMA ServerReceivesEffect ==
  ASSUME Types, ServerReceives
  PROVE  \E b \in Seq(Chars), e \in Streams, t \in Seq(Seq(Chars)), u \in Seq(Seq(Chars)) :
           /\ inputbuff' = b /\ keyStream' = e /\ up' = u
           /\ t = FirstOf(up, BuffSize) /\ u = RestOf(up, BuffSize)
           /\ Bytes(up) = Bytes(t) \o Bytes(u)
           /\ e.pending = keyStream.pending
           /\ keyStream.broken => e = keyStream
           /\ ~keyStream.broken /\ e.broken => Len(keyStream.held) + Len(Bytes(t)) > DecompSize
           /\ ~e.broken => b \o e.held = keyStream.held \o Bytes(t)
           /\ Len(e.held) <= Len(keyStream.held) + Len(Bytes(t))
           /\ Len(b) <= DecompSize \/ (~compress /\ b = keyStream.held \o Bytes(t))
           /\ ~compress /\ ~keyStream.broken => ~e.broken /\ e.held = <<>>
  <1>1. compress \in BOOLEAN /\ up \in Seq(Seq(Chars)) /\ keyStream \in Streams /\ BuffSize \in Nat
    BY CompressIsBoolean, Sizes DEF Types, NetTypes
  <1>2. PICK t \in Seq(Seq(Chars)), u \in Seq(Seq(Chars)) :
          t = FirstOf(up, BuffSize) /\ u = RestOf(up, BuffSize) /\ Bytes(up) = Bytes(t) \o Bytes(u)
    BY <1>1, ReadParts, BytesOfParts
  <1>3. PICK r \in Inflate(keyStream, t) : inputbuff' = r.out /\ keyStream' = r.stream
    BY <1>2 DEF ServerReceives
  <1>4. up' = u
    BY <1>2 DEF ServerReceives
  <1>5. /\ r.out \in Seq(Chars) /\ r.stream \in Streams
        /\ r.stream.pending = keyStream.pending
        /\ keyStream.broken => r.stream = keyStream
        /\ ~keyStream.broken /\ r.stream.broken => Len(keyStream.held) + Len(Bytes(t)) > DecompSize
        /\ ~r.stream.broken => r.out \o r.stream.held = keyStream.held \o Bytes(t)
        /\ Len(r.stream.held) <= Len(keyStream.held) + Len(Bytes(t))
        /\ Len(r.out) <= DecompSize \/ (~compress /\ r.out = keyStream.held \o Bytes(t))
        /\ ~compress /\ ~keyStream.broken => ~r.stream.broken /\ r.stream.held = <<>>
    BY <1>1, <1>3, InflateEffect
  <1>6. QED
    BY <1>2, <1>3, <1>4, <1>5

\* What is received is added to the log, and what was sent stays in it.
LEMMA LogReceives ==
  ASSUME NEW g \in [sent : Seq(Chars), received : Seq(Chars)], NEW x \in Seq(Chars)
  PROVE  \E l \in [sent : Seq(Chars), received : Seq(Chars)] :
           l = [g EXCEPT !.received = x] /\ l.received = x /\ l.sent = g.sent
  <1>1. /\ [g EXCEPT !.received = x] \in [sent : Seq(Chars), received : Seq(Chars)]
        /\ [g EXCEPT !.received = x].received = x
        /\ [g EXCEPT !.received = x].sent = g.sent
    OBVIOUS
  <1>2. QED
    BY <1>1

\* So does what the client reads, which it logs first.
LEMMA ClientReceivesEffect ==
  ASSUME Types, ClientReceives
  PROVE  \E b \in Seq(Chars), e \in Streams, t \in Seq(Seq(Chars)), u \in Seq(Seq(Chars)),
            l \in [sent : Seq(Chars), received : Seq(Chars)] :
           /\ ClientShows(b) /\ shellStream' = e /\ down' = u /\ logged' = l
           /\ l.sent = logged.sent /\ l.received = logged.received \o Bytes(t)
           /\ Bytes(down) = Bytes(t) \o Bytes(u)
           /\ e.pending = shellStream.pending
           /\ shellStream.broken => e = shellStream
           /\ ~shellStream.broken /\ e.broken => Len(shellStream.held) + Len(Bytes(t)) > DecompSize
           /\ ~e.broken => b \o e.held = shellStream.held \o Bytes(t)
           /\ Len(e.held) <= Len(shellStream.held) + Len(Bytes(t))
  <1>1. compress \in BOOLEAN /\ down \in Seq(Seq(Chars)) /\ shellStream \in Streams /\ BuffSize \in Nat
    BY CompressIsBoolean, Sizes DEF Types, NetTypes
  <1>2. PICK t \in Seq(Seq(Chars)), u \in Seq(Seq(Chars)) :
          t = FirstOf(down, BuffSize) /\ u = RestOf(down, BuffSize) /\ Bytes(down) = Bytes(t) \o Bytes(u)
    BY <1>1, ReadParts, BytesOfParts
  <1>3. PICK r \in Inflate(shellStream, t) : ClientShows(r.out) /\ shellStream' = r.stream
    BY <1>2 DEF ClientReceives
  <1>4. down' = u /\ logged' = [logged EXCEPT !.received = @ \o Bytes(t)]
    BY <1>2 DEF ClientReceives
  <1>5. /\ r.out \in Seq(Chars) /\ r.stream \in Streams
        /\ r.stream.pending = shellStream.pending
        /\ shellStream.broken => r.stream = shellStream
        /\ ~shellStream.broken /\ r.stream.broken => Len(shellStream.held) + Len(Bytes(t)) > DecompSize
        /\ ~r.stream.broken => r.out \o r.stream.held = shellStream.held \o Bytes(t)
        /\ Len(r.stream.held) <= Len(shellStream.held) + Len(Bytes(t))
    BY <1>1, <1>3, InflateEffect
  <1>6. PICK x \in Seq(Chars) : x = logged.received \o Bytes(t)
    BY BytesTyped, Joined DEF Types, ClientTypes
  <1>7. logged' = [logged EXCEPT !.received = x]
    BY <1>4, <1>6
  <1>8. PICK l \in [sent : Seq(Chars), received : Seq(Chars)] :
          l = [logged EXCEPT !.received = x] /\ l.received = x /\ l.sent = logged.sent
    <2>1. PICK g \in [sent : Seq(Chars), received : Seq(Chars)] : g = logged
      BY DEF Types, ClientTypes
    <2>2. \E l \in [sent : Seq(Chars), received : Seq(Chars)] :
            l = [g EXCEPT !.received = x] /\ l.received = x /\ l.sent = g.sent
      BY LogReceives
    <2>3. QED
      BY <2>1, <2>2
  <1>9. QED
    <2>1. PICK b \in Seq(Chars), e \in Streams : b = r.out /\ e = r.stream
      BY <1>5
    <2>2. ClientShows(b) /\ shellStream' = e /\ down' = u /\ logged' = l
      BY <1>3, <1>4, <1>7, <1>8, <2>1
    <2>3. l.sent = logged.sent /\ l.received = logged.received \o Bytes(t) /\ Bytes(down) = Bytes(t) \o Bytes(u)
      BY <1>2, <1>6, <1>8
    <2>4. /\ e.pending = shellStream.pending
          /\ shellStream.broken => e = shellStream
          /\ ~shellStream.broken /\ e.broken => Len(shellStream.held) + Len(Bytes(t)) > DecompSize
          /\ ~e.broken => b \o e.held = shellStream.held \o Bytes(t)
          /\ Len(e.held) <= Len(shellStream.held) + Len(Bytes(t))
      BY <1>5, <2>1
    <2>5. QED
      BY <2>2, <2>3, <2>4

\* What it shows ends before the first EOT, if it compresses, and it ends then.
LEMMA ClientShowsEffect ==
  ASSUME Types, NEW b \in Seq(Chars), ClientShows(b)
  PROVE  \E s \in Seq(Chars), v \in Seq(Chars) :
           /\ b = s \o v
           /\ display' = display \o s \/ display' = display \o ShownAll(s)
           /\ \/ v = <<>> /\ cpc' = "poll" /\ UNCHANGED <<terminal, cexit>>
              \/ terminal' = "normal" /\ cexit' = 0 /\ UNCHANGED cpc
  <1>1. CASE ~compress
    <2>1. b \o <<>> = b /\ <<>> \in Seq(Chars)
      BY WithNothing
    <2>2. QED
      BY <1>1, <2>1 DEF ClientShows
  <1>2. CASE compress
    <2>1. PICK n \in 0 .. Len(b) :
            /\ display' = display \o ShownAll(SubSeq(b, 1, n))
            /\ IF n = Len(b) THEN cpc' = "poll" /\ UNCHANGED <<terminal, cexit>>
               ELSE Reset(0) /\ UNCHANGED cpc
      BY <1>2 DEF ClientShows
    <2>2. n \in Nat /\ ~(Len(b) < n)
      BY <2>1
    <2>3. FirstOf(b, n) = SubSeq(b, 1, n)
      BY <2>2 DEF FirstOf
    <2>4. PICK s \in Seq(Chars), v \in Seq(Chars) :
            s = FirstOf(b, n) /\ v = RestOf(b, n) /\ s \o v = b
      BY <2>2, ReadParts
    <2>5. CASE n = Len(b)
      <3>1. v = <<>>
        BY <2>2, <2>4, <2>5, SubSeqEmpty DEF RestOf
      <3>2. QED
        BY <2>1, <2>3, <2>4, <2>5, <3>1
    <2>6. CASE n # Len(b)
      BY <1>2, <2>1, <2>3, <2>4, <2>6 DEF Reset
    <2>7. QED
      BY <2>5, <2>6
  <1>3. QED
    BY <1>1, <1>2
\* How the server ends, and what waitpid() does to the shell.
LEMMA EndTyped ==
  ASSUME Types, NEW code \in {0, 1}, End(code)
  PROVE  /\ reports' \in Seq(Statuses)
         /\ sexit' \in {Running, 0, 1, SigPipe, SegFault} /\ ServerGone'
  <1>1. WaitResult \in Statuses
    BY DEF WaitResult, Types, ShellTypes, ShellTypeOK, Statuses
  <1>2. reports' \in Seq(Statuses)
    BY <1>1, AppendProperties DEF End, Types, ServerTypes
  <1>3. sexit' \in {code, SegFault}
    BY DEF End, EndStreams
  <1>4. QED
    BY <1>2, <1>3 DEF ServerGone, Running, SegFault

LEMMA ReapTyped ==
  ASSUME Types, shell' = shell \/ Reap, UNCHANGED <<toShell, fromShell, status, received, written>>
  PROVE  ShellTypes'
  BY DEF Types, ShellTypes, ShellTypeOK, Reap, ShellGone

LEMMA ClientTyped ==
  ASSUME Types, Client
  PROVE  Types'
  <1>1. ServerTypes' /\ ShellTypes'
    BY DEF Client, shellVars, serverVars, Types, ServerTypes, ShellTypes, ShellTypeOK
  <1>2. CASE ClientPoll
    <2>1. UNCHANGED <<userVars, netVars, terminal, display, buffer, logged, cexit>>
          /\ crevents' \in [key : BOOLEAN, sock : BOOLEAN] /\ cpc' = "keyboard"
      BY <1>2 DEF ClientPoll
    <2>2. UserTypes' /\ NetTypes'
      BY <2>1 DEF userVars, netVars, Types, UserTypes, NetTypes
    <2>3. ClientTypes'
      BY <2>1 DEF Types, ClientTypes
    <2>4. QED
      BY <1>1, <2>2, <2>3 DEF Types
  <1>3. CASE ClientReadsKeys
    <2>1. /\ UNCHANGED <<compress, typed, untyped, hungup, netVars, display, crevents, logged>>
          /\ buffer' = FirstOf(keys, BuffSize)
          /\ keys' = RestOf(keys, BuffSize) \/ keys' = keys
          /\ cpc' \in {"send", "sock"}
          /\ terminal' \in {terminal, "normal"} /\ cexit' \in {cexit, 1, SegFault}
      BY <1>3 DEF ClientReadsKeys, Reset, EndStreams
    <2>2. /\ FirstOf(keys, BuffSize) \in Seq(Keys) /\ RestOf(keys, BuffSize) \in Seq(Keys)
          /\ Len(FirstOf(keys, BuffSize)) <= BuffSize
      BY ReadParts, Sizes DEF Types, UserTypes
    <2>3. UserTypes'
      BY <2>1, <2>2 DEF Types, UserTypes
    <2>4. NetTypes'
      BY <2>1 DEF netVars, Types, NetTypes
    <2>5. ClientTypes'
      BY <2>1, <2>2 DEF Types, ClientTypes
    <2>6. QED
      BY <1>1, <2>3, <2>4, <2>5 DEF Types
  <1>4. CASE ClientSends
    <2>1. PICK o \in Seq(Seq(Chars)), e \in Streams, l \in [sent : Seq(Chars), received : Seq(Chars)] :
            keyStream' = e /\ logged' = l /\ up' = IF ServerGone THEN up ELSE up \o o
      BY <1>4, ClientSendsEffect
    <2>2. up' \in Seq(Seq(Chars))
      BY <2>1, ConcatProperties DEF Types, NetTypes
    <2>3. /\ UNCHANGED <<userVars, down, shellStream, crevents, buffer>>
          /\ reset' \in {reset, reset \cup {"client"}}
          /\ display' \in {display, display \o ShownAll(buffer)}
          /\ terminal' \in {terminal, "normal"}
          /\ cpc' \in {cpc, "sock"} /\ cexit' \in {cexit, 1, SegFault, SigPipe}
      BY <1>4, ClientSendsOutcome DEF ClientSends
    <2>4. display \o ShownAll(buffer) \in Seq(Chars)
      BY EchoIsNoText, Joined DEF Types, ClientTypes
    <2>5. UserTypes'
      BY <2>3 DEF userVars, Types, UserTypes
    <2>6. NetTypes'
      BY <2>1, <2>2, <2>3 DEF Types, NetTypes
    <2>7. ClientTypes'
      BY <2>1, <2>3, <2>4 DEF Types, ClientTypes
    <2>8. QED
      BY <1>1, <2>5, <2>6, <2>7 DEF Types
  <1>5. CASE ClientReadsSocket
    <2>1. UNCHANGED <<userVars, up, keyStream, reset, crevents, buffer>>
      BY <1>5 DEF ClientReadsSocket
    <2>2. CASE ClientReceives
      <3>1. PICK b \in Seq(Chars), e \in Streams, u \in Seq(Seq(Chars)), l \in [sent : Seq(Chars), received : Seq(Chars)] :
              ClientShows(b) /\ shellStream' = e /\ down' = u /\ logged' = l
        BY <2>2, ClientReceivesEffect
      <3>2. PICK s \in Seq(Chars) :
              /\ display' = display \o s \/ display' = display \o ShownAll(s)
              /\ cpc' \in {cpc, "poll"} /\ terminal' \in {terminal, "normal"} /\ cexit' \in {cexit, 0}
        BY <3>1, ClientShowsEffect
      <3>3. display' \in Seq(Chars)
        <4>1. ShownAll(s) \in Seq(Chars) /\ display \in Seq(Chars)
          BY ShownConcat DEF Types, ClientTypes
        <4>2. display \o s \in Seq(Chars) /\ display \o ShownAll(s) \in Seq(Chars)
          BY <4>1, Joined
        <4>3. QED
          BY <3>2, <4>2
      <3>4. NetTypes'
        BY <2>1, <3>1 DEF Types, NetTypes
      <3>5. ClientTypes'
        BY <2>1, <3>1, <3>2, <3>3 DEF Types, ClientTypes
      <3>6. UserTypes'
        BY <2>1 DEF userVars, Types, UserTypes
      <3>7. QED
        BY <1>1, <3>4, <3>5, <3>6 DEF Types
    <2>3. CASE UNCHANGED <<display, down, shellStream, logged>>
      <3>1. cpc' \in {cpc, "poll"} /\ terminal' \in {terminal, "normal"} /\ cexit' \in {cexit, 0, 1, SegFault}
        <4>1. CASE ClientReceives
          <5>1. PICK b \in Seq(Chars) : ClientShows(b)
            BY <4>1, ClientReceivesEffect
          <5>2. QED
            BY <5>1, ClientShowsEffect
        <4>2. CASE ~ClientReceives
          BY <1>5, <4>2 DEF ClientReadsSocket, Reset, EndStreams
        <4>3. QED
          BY <4>1, <4>2
      <3>2. UserTypes' /\ NetTypes'
        BY <2>1, <2>3 DEF userVars, Types, UserTypes, NetTypes
      <3>3. ClientTypes'
        BY <2>1, <2>3, <3>1 DEF Types, ClientTypes
      <3>4. QED
        BY <1>1, <3>2, <3>3 DEF Types
    <2>4. QED
      BY <1>5, <2>2, <2>3 DEF ClientReadsSocket
  <1>6. QED
    BY <1>2, <1>3, <1>4, <1>5 DEF Client

LEMMA ServerTyped ==
  ASSUME Types, Server
  PROVE  Types'
  <1>1. UserTypes' /\ ClientTypes'
    BY DEF Server, userVars, clientVars, Types, UserTypes, ClientTypes
  <1>2. CASE ServerPoll
    <2>1. /\ UNCHANGED <<shellVars, netVars, inputbuff, outputbuff, sent, reports, sexit>>
          /\ srevents' \in [sock : BOOLEAN, shell : BOOLEAN, hup : BOOLEAN] /\ spc' = "sock"
      BY <1>2 DEF ServerPoll
    <2>2. NetTypes' /\ ShellTypes'
      BY <2>1 DEF netVars, shellVars, Types, NetTypes, ShellTypes, ShellTypeOK
    <2>3. ServerTypes'
      BY <2>1 DEF Types, ServerTypes
    <2>4. QED
      BY <1>1, <2>2, <2>3 DEF Types
  <1>3. CASE ServerReadsSocket
    <2>1. UNCHANGED <<toShell, fromShell, status, received, written, down, shellStream, reset,
                      srevents, outputbuff, sent>>
      BY <1>3 DEF ServerReadsSocket
    <2>2. shell' = shell \/ Reap
      BY <1>3 DEF ServerReadsSocket, ServerReceives
    <2>3. ShellTypes'
      BY <2>1, <2>2, ReapTyped
    <2>4. CASE ServerReceives
      <3>1. PICK b \in Seq(Chars), e \in Streams, u \in Seq(Seq(Chars)) :
              inputbuff' = b /\ keyStream' = e /\ up' = u
        BY <2>4, ServerReceivesEffect
      <3>2. spc' = "bytes" /\ UNCHANGED <<reports, sexit>>
        BY <2>4 DEF ServerReceives
      <3>3. ServerTypes' /\ NetTypes'
        BY <2>1, <3>1, <3>2 DEF Types, ServerTypes, NetTypes
      <3>4. QED
        BY <1>1, <2>3, <3>3 DEF Types
    <2>5. CASE ~ServerReceives
      <3>1. UNCHANGED <<inputbuff, up, keyStream>> /\ spc' \in {spc, "bytes"}
            /\ (End(0) \/ UNCHANGED <<reports, sexit>>)
        BY <1>3, <2>5 DEF ServerReadsSocket
      <3>2. reports' \in Seq(Statuses) /\ sexit' \in {Running, 0, 1, SigPipe, SegFault}
        BY <3>1, EndTyped DEF Types, ServerTypes
      <3>3. ServerTypes' /\ NetTypes'
        BY <2>1, <3>1, <3>2 DEF Types, ServerTypes, NetTypes
      <3>4. QED
        BY <1>1, <2>3, <3>3 DEF Types
    <2>6. QED
      BY <2>4, <2>5
  <1>4. CASE ServerInterrupts \/ ServerEof
    <2>1. /\ UNCHANGED <<toShell, fromShell, received, written, netVars, spc, srevents, inputbuff, outputbuff, sent>>
          /\ End(0)
      BY <1>4 DEF ServerInterrupts, ServerEof
    <2>2. /\ status' \in Statuses /\ shell' \in {shell, "reaped", "closed"}
      BY <1>4 DEF ServerInterrupts, ServerEof, Interrupt, Reap, Types, ShellTypes, ShellTypeOK, Statuses
    <2>3. ShellTypes'
      BY <2>1, <2>2 DEF Types, ShellTypes, ShellTypeOK, ShellGone
    <2>4. reports' \in Seq(Statuses) /\ sexit' \in {Running, 0, 1, SigPipe, SegFault}
      BY <2>1, EndTyped
    <2>5. ServerTypes' /\ NetTypes'
      BY <2>1, <2>4 DEF netVars, Types, ServerTypes, NetTypes
    <2>6. QED
      BY <1>1, <2>3, <2>5 DEF Types
  <1>5. CASE ServerForwards
    <2>1. /\ UNCHANGED <<fromShell, shell, status, received, written, netVars, spc, srevents, outputbuff, sent, reports>>
          /\ inputbuff # <<>> /\ sexit' \in {sexit, SigPipe}
          /\ \/ UNCHANGED <<toShell, inputbuff>>
             \/ /\ Len(toShell) < PipeSize /\ toShell' = Append(toShell, Forwarded(Head(inputbuff)))
                /\ inputbuff' = Tail(inputbuff)
      BY <1>5 DEF ServerForwards
    <2>2. Head(inputbuff) \in Chars /\ Tail(inputbuff) \in Seq(Chars)
      BY <2>1, HeadFirst DEF Types, ServerTypes
    <2>3. PICK x \in Chars : x = Forwarded(Head(inputbuff))
      BY <2>2, SentTyped
    <2>4. Append(toShell, x) \in Seq(Chars) /\ Len(Append(toShell, x)) = Len(toShell) + 1
      BY AppendProperties DEF Types, ShellTypes
    <2>5. toShell' \in Seq(Chars) /\ Len(toShell') <= PipeSize
      <3>1. CASE toShell' = toShell
        BY <3>1 DEF Types, ShellTypes, ShellTypeOK
      <3>2. CASE Len(toShell) < PipeSize /\ toShell' = Append(toShell, x)
        <4>1. Len(toShell') = Len(toShell) + 1 /\ toShell' \in Seq(Chars) /\ Len(toShell) \in Nat
          BY <2>4, <3>2 DEF Types, ShellTypes
        <4>2. QED
          BY <3>2, <4>1, Sizes
      <3>3. QED
        BY <2>1, <2>3, <3>1, <3>2
    <2>6. ShellTypes'
      BY <2>1, <2>5 DEF Types, ShellTypes, ShellTypeOK
    <2>7. inputbuff' \in Seq(Chars)
      BY <2>1, <2>2 DEF Types, ServerTypes
    <2>8. ServerTypes' /\ NetTypes'
      BY <2>1, <2>7 DEF netVars, Types, ServerTypes, NetTypes
    <2>9. QED
      BY <1>1, <2>6, <2>8 DEF Types
  <1>6. CASE ServerReadsShell
    <2>1. /\ UNCHANGED <<toShell, shell, status, received, written, netVars, srevents, inputbuff, sent, reports, sexit>>
          /\ spc' = "send"
          /\ \/ UNCHANGED <<outputbuff, fromShell>>
             \/ outputbuff' = FirstOf(fromShell, BuffSize) /\ fromShell' = RestOf(fromShell, BuffSize)
      BY <1>6 DEF ServerReadsShell
    <2>2. fromShell \in Seq(ShellBytes) /\ Len(fromShell) \in Nat /\ Len(fromShell) <= PipeSize
      BY DEF Types, ShellTypes, ShellTypeOK
    <2>3. PICK a \in Seq(ShellBytes), b \in Seq(ShellBytes) :
            /\ a = FirstOf(fromShell, BuffSize) /\ b = RestOf(fromShell, BuffSize)
            /\ Len(a) <= BuffSize /\ Len(b) <= Len(fromShell)
      BY <2>2, ReadParts, Sizes
    <2>4. Len(b) \in Nat /\ Len(b) <= PipeSize
      BY <2>2, <2>3, Sizes
    <2>5. ShellTypes'
      BY <2>1, <2>3, <2>4 DEF Types, ShellTypes, ShellTypeOK
    <2>6. ServerTypes' /\ NetTypes'
      BY <2>1, <2>3 DEF netVars, Types, ServerTypes, NetTypes
    <2>7. QED
      BY <1>1, <2>5, <2>6 DEF Types
  <1>7. CASE ServerSends
    <2>1. /\ UNCHANGED <<toShell, fromShell, status, received, written, up, keyStream, spc, srevents, inputbuff>>
          /\ outputbuff # <<>>
      BY <1>7 DEF ServerSends
    <2>2. /\ shell' = shell \/ Reap
          /\ \/ reports' \in Seq(Statuses) /\ sexit' \in {Running, 0, 1, SigPipe, SegFault}
             \/ UNCHANGED <<reports, sexit>>
             \/ UNCHANGED reports /\ sexit' = SigPipe
      BY <1>7, ServerSendsOutcome, EndTyped DEF SendsPortion
    <2>3. ShellTypes'
      BY <2>1, <2>2, ReapTyped
    <2>4. reports' \in Seq(Statuses) /\ sexit' \in {Running, 0, 1, SigPipe, SegFault}
      BY <2>2 DEF Types, ServerTypes
    <2>5. CASE UNCHANGED <<down, shellStream, reset, outputbuff, sent>>
      <3>1. ServerTypes' /\ NetTypes'
        BY <2>1, <2>4, <2>5 DEF Types, ServerTypes, NetTypes
      <3>2. QED
        BY <1>1, <2>3, <3>1 DEF Types
    <2>6. CASE ~UNCHANGED <<down, shellStream, reset, outputbuff, sent>>
      <3>1. /\ outputbuff' = IF compress THEN <<>> ELSE Tail(outputbuff)
            /\ \/ SendsPortion
               \/ UNCHANGED <<down, shellStream, sent>> /\ reset' \in {reset, reset \cup {"server"}}
        BY <1>7, <2>6, ServerSendsOutcome
      <3>2. Tail(outputbuff) \in Seq(ShellBytes) /\ Len(Tail(outputbuff)) <= BuffSize /\ Head(outputbuff) \in ShellBytes
        <4>1. /\ Head(outputbuff) \in ShellBytes /\ Tail(outputbuff) \in Seq(ShellBytes)
              /\ Len(Tail(outputbuff)) = Len(outputbuff) - 1
          BY <2>1, HeadFirst DEF Types, ServerTypes
        <4>2. Len(outputbuff) \in Nat /\ Len(outputbuff) <= BuffSize
          BY DEF Types, ServerTypes
        <4>3. QED
          BY <4>1, <4>2, Sizes
      <3>3. outputbuff' \in Seq(ShellBytes) /\ Len(outputbuff') <= BuffSize
        BY <3>1, <3>2, EmptySeq, Sizes
      <3>4. /\ sent' \in Seq(Chars) /\ down' \in Seq(Seq(Chars)) /\ shellStream' \in Streams
            /\ reset' \subseteq {"client", "server"} /\ sexit' \in {Running, 0, 1, SigPipe, SegFault}
        <4>1. CASE UNCHANGED <<down, shellStream, sent>> /\ reset' \in {reset, reset \cup {"server"}}
          BY <2>4, <4>1 DEF Types, ServerTypes, NetTypes
        <4>2. CASE SendsPortion
          <5>1. PICK d \in Deflate(shellStream, Portion) :
                  /\ down' = down \o d.out /\ shellStream' = d.stream
                  /\ sent' = sent \o Portion /\ UNCHANGED <<reset, sexit>>
            BY <4>2 DEF SendsPortion
          <5>2. PICK w \in Seq(Chars) : w = Portion
            BY <3>2, TextIsShown, BytesAreChars, CharsThere DEF Portion, Types, ServerTypes
          <5>3. d.out \in Seq(Seq(Chars)) /\ d.stream \in Streams
            BY <5>1, <5>2, CompressIsBoolean, DeflateEffect DEF Types, NetTypes
          <5>4. sent \o w \in Seq(Chars)
            BY <5>2, Joined DEF Types, ServerTypes
          <5>5. down \o d.out \in Seq(Seq(Chars))
            BY <5>3, ConcatProperties DEF Types, NetTypes
          <5>6. QED
            BY <2>4, <5>1, <5>2, <5>3, <5>4, <5>5 DEF Types, ServerTypes, NetTypes
        <4>3. QED
          BY <3>1, <4>1, <4>2
      <3>5. ServerTypes' /\ NetTypes'
        BY <2>1, <2>4, <3>3, <3>4 DEF Types, ServerTypes, NetTypes
      <3>6. QED
        BY <1>1, <2>3, <3>5 DEF Types
    <2>7. QED
      BY <2>5, <2>6
  <1>8. CASE ServerHangup
    <2>1. UNCHANGED <<toShell, fromShell, status, received, written, netVars, srevents, inputbuff, outputbuff, sent>>
          /\ (shell' = shell \/ Reap) /\ spc' \in {spc, "poll"} /\ (End(1) \/ UNCHANGED <<reports, sexit>>)
      BY <1>8 DEF ServerHangup
    <2>2. ShellTypes'
      BY <2>1, ReapTyped
    <2>3. reports' \in Seq(Statuses) /\ sexit' \in {Running, 0, 1, SigPipe, SegFault}
      BY <2>1, EndTyped DEF Types, ServerTypes
    <2>4. ServerTypes' /\ NetTypes'
      BY <2>1, <2>3 DEF netVars, Types, ServerTypes, NetTypes
    <2>5. QED
      BY <1>1, <2>2, <2>4 DEF Types
  <1>9. QED
    BY <1>2, <1>3, <1>4, <1>5, <1>6, <1>7, <1>8 DEF Server

\* The shell changes its pipes and its histories.
LEMMA ShellTyped ==
  ASSUME ShellTypes, ShellMust \/ ShellMay
  PROVE  ShellTypes'
  <1> USE DEF ShellTypes, ShellTypeOK, ShellGone
  <1>1. Len(toShell) \in Nat /\ Len(fromShell) \in Nat
    OBVIOUS
  <1>2. CASE ShellReads
    <2>1. Head(toShell) \in Chars /\ toShell' \in Seq(Chars) /\ Len(toShell') = Len(toShell) - 1
      BY <1>2, HeadFirst DEF ShellReads
    <2>2. received' \in Seq(Chars)
      BY <1>2, <2>1, AppendProperties DEF ShellReads
    <2>3. UNCHANGED <<fromShell, shell, status, written>>
      BY <1>2 DEF ShellReads
    <2>4. QED
      BY <1>1, <2>1, <2>2, <2>3, Sizes
  <1>3. CASE ShellWantsToWrite
    BY <1>3 DEF ShellWantsToWrite
  <1>4. CASE ShellWrites
    <2>1. PICK byte \in ShellBytes :
            fromShell' = Append(fromShell, byte) /\ written' = Append(written, byte)
      BY <1>4 DEF ShellWrites
    <2>2. /\ fromShell' \in Seq(ShellBytes) /\ written' \in Seq(ShellBytes)
          /\ Len(fromShell') = Len(fromShell) + 1
      BY <2>1, AppendProperties
    <2>3. Len(fromShell) < PipeSize /\ shell' = "ready" /\ UNCHANGED <<toShell, status, received>>
      BY <1>4 DEF ShellWrites
    <2>4. QED
      BY <1>1, <2>2, <2>3, Sizes
  <1>5. CASE ShellExits
    BY <1>5 DEF ShellExits, Statuses
  <1>6. CASE ShellDies
    BY <1>6 DEF ShellDies
  <1>7. QED
    BY <1>2, <1>3, <1>4, <1>5, <1>6 DEF ShellMust, ShellMay

LEMMA TypesStep ==
  ASSUME Types, [Next]_vars
  PROVE  Types'
  <1>1. CASE Client
    BY <1>1, ClientTyped
  <1>2. CASE Server
    BY <1>2, ServerTyped
  <1>3. CASE User \/ UserChoice
    <2>1. UNCHANGED <<shellVars, clientVars, serverVars, netVars, compress, typed>>
          /\ (TypeKey \/ UNCHANGED <<untyped, keys>>) /\ hungup' \in {hungup, TRUE}
      BY <1>3 DEF User, UserChoice, TypeKey, HangUp
    <2>2. untyped' \in Seq(Keys) /\ keys' \in Seq(Keys)
      <3>1. CASE TypeKey
        <4>1. Head(untyped) \in Keys /\ untyped' \in Seq(Keys)
          BY <3>1, HeadFirst DEF TypeKey, Types, UserTypes
        <4>2. keys' \in Seq(Keys)
          BY <3>1, <4>1, AppendProperties DEF TypeKey, Types, UserTypes
        <4>3. QED
          BY <4>1, <4>2
      <3>2. CASE UNCHANGED <<untyped, keys>>
        BY <3>2 DEF Types, UserTypes
      <3>3. QED
        BY <2>1, <3>1, <3>2
    <2>3. UserTypes'
      BY <2>1, <2>2 DEF Types, UserTypes
    <2>4. ClientTypes' /\ ServerTypes'
      BY <2>1 DEF clientVars, serverVars, Types, ClientTypes, ServerTypes
    <2>5. NetTypes' /\ ShellTypes'
      BY <2>1 DEF netVars, shellVars, Types, NetTypes, ShellTypes, ShellTypeOK
    <2>6. QED
      BY <2>3, <2>4, <2>5 DEF Types
  <1>4. CASE Shell \/ ShellChoice
    <2>1. UNCHANGED <<userVars, clientVars, serverVars, netVars>> /\ (ShellMust \/ ShellMay)
      BY <1>4 DEF Shell, ShellChoice
    <2>2. ShellTypes'
      BY <2>1, ShellTyped DEF Types
    <2>3. UserTypes' /\ ClientTypes'
      BY <2>1 DEF userVars, clientVars, Types, UserTypes, ClientTypes
    <2>4. ServerTypes' /\ NetTypes'
      BY <2>1 DEF serverVars, netVars, Types, ServerTypes, NetTypes
    <2>5. QED
      BY <2>2, <2>3, <2>4 DEF Types
  <1>5. CASE UNCHANGED vars
    <2>1. UserTypes' /\ ClientTypes' /\ ServerTypes'
      BY <1>5 DEF vars, userVars, clientVars, serverVars, Types, UserTypes, ClientTypes, ServerTypes
    <2>2. NetTypes' /\ ShellTypes'
      BY <1>5 DEF vars, netVars, shellVars, Types, NetTypes, ShellTypes, ShellTypeOK
    <2>3. QED
      BY <2>1, <2>2 DEF Types
  <1>6. QED
    BY <1>1, <1>2, <1>3, <1>4, <1>5 DEF Next, Ended
-----------------------------------------------------------------------------
(* Where the programs are in their loops. *)

\* What has been read is dealt with before anything else is read.
Loop ==
  /\ inputbuff # <<>> => spc = "bytes"
  /\ outputbuff # <<>> => spc = "send"

\* What poll() told the client is still true when it is used.
Answers ==
  /\ cpc = "keyboard" /\ crevents.key => keys # <<>> \/ hungup
  /\ ~ClientGone /\ cpc # "poll" /\ crevents.sock => down # <<>> \/ ServerGone

\* When a client that neither lost its terminal nor read an EOT has ended, so has
\* the server, and it has read everything or sent to the server that had gone.
Ends ==
  ClientGone /\ ~hungup /\ cexit # 0 => ServerGone /\ (down = <<>> \/ cpc = "send")

LEMMA LoopStep ==
  ASSUME Types, Loop, [Next]_vars
  PROVE  Loop'
  <1>1. CASE Client \/ User \/ UserChoice \/ Shell \/ ShellChoice \/ UNCHANGED vars
    BY <1>1 DEF Client, User, UserChoice, Shell, ShellChoice, vars, serverVars, Loop
  <1>2. CASE ServerPoll
    BY <1>2 DEF ServerPoll, Loop
  <1>3. CASE ServerReadsSocket
    BY <1>3 DEF ServerReadsSocket, ServerReceives, Loop
  <1>4. CASE ServerInterrupts \/ ServerEof
    BY <1>4 DEF ServerInterrupts, ServerEof, Loop
  <1>5. CASE ServerForwards
    BY <1>5 DEF ServerForwards, Loop
  <1>6. CASE ServerReadsShell
    BY <1>6 DEF ServerReadsShell, Loop
  <1>7. CASE ServerSends
    BY <1>7 DEF ServerSends, SendsPortion, Loop
  <1>8. CASE ServerHangup
    BY <1>8 DEF ServerHangup, Loop
  <1>9. QED
    BY <1>1, <1>2, <1>3, <1>4, <1>5, <1>6, <1>7, <1>8 DEF Next, Server, Ended

\* The server appends to down as long as both programs run, and nothing else does.
LEMMA ServerDown ==
  ASSUME Types, Server
  PROVE  /\ down # <<>> => down' # <<>>
         /\ ClientGone => down' = down
  <1>1. CASE ServerSends
    <2>1. CASE down' = down
      BY <2>1
    <2>2. CASE down' # down
      <3>1. outputbuff # <<>> /\ ~ClientGone
            /\ \E d \in Deflate(shellStream, Portion) : down' = down \o d.out
        BY <1>1, <2>2, ServerSendsOutcome DEF ServerSends, SendsPortion
      <3>2. Head(outputbuff) \in ShellBytes
        BY <3>1, HeadFirst DEF Types, ServerTypes
      <3>3. PICK w \in Seq(Chars) : w = Portion
        BY <3>2, TextIsShown, BytesAreChars, CharsThere DEF Portion, Types, ServerTypes
      <3>4. PICK o \in Seq(Seq(Chars)) : down' = down \o o
        BY <3>1, <3>3, CompressIsBoolean, DeflateEffect DEF Types, NetTypes
      <3>5. down \in Seq(Seq(Chars)) /\ Len(down \o o) = Len(down) + Len(o) /\ Len(o) \in Nat
        BY ConcatProperties DEF Types, NetTypes
      <3>6. down # <<>> => Len(down \o o) # 0
        BY <3>5, EmptySeq
      <3>7. QED
        BY <3>1, <3>4, <3>6, EmptySeq
    <2>3. QED
      BY <2>1, <2>2
  <1>2. CASE ~ServerSends
    BY <1>2 DEF Server, ServerPoll, ServerReadsSocket, ServerInterrupts, ServerEof, ServerForwards,
                ServerReadsShell, ServerHangup, netVars
  <1>3. QED
    BY <1>1, <1>2

LEMMA AnswersStep ==
  ASSUME Types, Answers, [Next]_vars
  PROVE  Answers'
  <1>1. CASE ClientPoll /\ Client
    BY <1>1 DEF ClientPoll, Client, userVars, serverVars, netVars, Answers, ClientGone, ServerGone
  <1>2. CASE ClientReadsKeys /\ Client
    BY <1>2 DEF ClientReadsKeys, Client, serverVars, netVars, Answers, ClientGone, ServerGone
  <1>3. CASE ClientSends /\ Client
    BY <1>3 DEF ClientSends, Client, serverVars, Answers, ClientGone, ServerGone
  <1>4. CASE ClientReadsSocket /\ Client
    <2>1. cpc = "sock" /\ (cpc' = "poll" \/ (cpc' = cpc /\ ClientGone'))
      <3>1. CASE ClientReceives
        <4>1. PICK b \in Seq(Chars) : ClientShows(b)
          BY <3>1, ClientReceivesEffect
        <4>2. cpc' = "poll" \/ (cpc' = cpc /\ cexit' = 0)
          BY <4>1, ClientShowsEffect
        <4>3. QED
          BY <1>4, <4>2 DEF ClientReadsSocket, ClientGone, Running
      <3>2. CASE ~ClientReceives
        BY <1>4, <3>2 DEF ClientReadsSocket, Reset, EndStreams, ClientGone, Running, SegFault
      <3>3. QED
        BY <3>1, <3>2
    <2>2. QED
      BY <2>1 DEF Answers
  <1>5. CASE Server
    <2>1. UNCHANGED <<cpc, crevents, keys, hungup, cexit>> /\ ~ServerGone
      BY <1>5 DEF Server, userVars, clientVars, ServerGone
    <2>2. down # <<>> => down' # <<>>
      BY <1>5, ServerDown
    <2>3. QED
      BY <2>1, <2>2 DEF Answers, ClientGone
  <1>6. CASE User \/ UserChoice
    <2>1. UNCHANGED <<cpc, crevents, down, sexit, cexit>> /\ hungup' \in {hungup, TRUE}
      BY <1>6 DEF User, UserChoice, TypeKey, HangUp, clientVars, serverVars, netVars
    <2>2. keys' # keys => keys' # <<>>
      <3>1. CASE TypeKey
        <4>1. Head(untyped) \in Keys /\ keys \in Seq(Keys)
          BY <3>1, HeadFirst DEF TypeKey, Types, UserTypes
        <4>2. QED
          BY <3>1, <4>1, AppendProperties DEF TypeKey
      <3>2. CASE ~TypeKey
        BY <1>6, <3>2 DEF User, UserChoice, HangUp
      <3>3. QED
        BY <3>1, <3>2
    <2>3. hungup \in BOOLEAN
      BY DEF Types, UserTypes
    <2>4. QED
      BY <2>1, <2>2, <2>3 DEF Answers, ClientGone, ServerGone
  <1>7. CASE Shell \/ ShellChoice \/ UNCHANGED vars
    BY <1>7 DEF Shell, ShellChoice, vars, userVars, clientVars, serverVars, netVars, Answers, ClientGone, ServerGone
  <1>8. QED
    BY <1>1, <1>2, <1>3, <1>4, <1>5, <1>6, <1>7 DEF Next, Client, Ended

LEMMA EndsStep ==
  ASSUME Types, Answers, Ends, [Next]_vars
  PROVE  Ends'
  <1>1. CASE (ClientPoll \/ ClientSends) /\ Client
    <2>1. CASE cexit' = Running
      BY <2>1 DEF Ends, ClientGone
    <2>2. CASE cexit' # Running
      <3>1. ClientSends
        BY <1>1, <2>2 DEF Client, ClientPoll
      <3>2. ServerGone /\ cpc = "send" /\ UNCHANGED <<cpc, sexit>>
        BY <1>1, <2>2, <3>1, ClientSendsOutcome DEF Client, ClientSends, serverVars
      <3>3. QED
        BY <3>2 DEF Ends, ServerGone
    <2>3. QED
      BY <2>1, <2>2
  <1>2. CASE ClientReadsKeys /\ Client
    <2>1. CASE crevents.key /\ keys = <<>>
      <3>1. hungup /\ hungup' = hungup
        BY <1>2, <2>1 DEF ClientReadsKeys, Answers
      <3>2. QED
        BY <3>1 DEF Ends
    <2>2. CASE ~(crevents.key /\ keys = <<>>)
      BY <1>2, <2>2 DEF ClientReadsKeys, Client, Ends, ClientGone
    <2>3. QED
      BY <2>1, <2>2
  <1>3. CASE ClientReadsSocket /\ Client
    <2>1. CASE ClientReceives
      <3>1. PICK b \in Seq(Chars) : ClientShows(b)
        BY <2>1, ClientReceivesEffect
      <3>2. cexit' \in {Running, 0}
        BY <1>3, <3>1, ClientShowsEffect DEF Client
      <3>3. QED
        BY <3>2 DEF Ends, ClientGone
    <2>2. CASE crevents.sock /\ down = <<>> /\ down' = down
      <3>1. ServerGone /\ sexit' = sexit
        BY <1>3, <2>2 DEF Client, ClientReadsSocket, serverVars, Answers, ClientGone
      <3>2. QED
        BY <2>2, <3>1 DEF Ends, ServerGone
    <2>3. CASE UNCHANGED cexit
      BY <1>3, <2>3 DEF Client, Ends, ClientGone
    <2>4. QED
      BY <1>3, <2>1, <2>2, <2>3 DEF ClientReadsSocket
  <1>4. CASE Server
    <2>1. UNCHANGED <<cexit, hungup, cpc>> /\ ~ServerGone
      BY <1>4 DEF Server, userVars, clientVars, ServerGone
    <2>2. QED
      BY <2>1 DEF Ends, ClientGone
  <1>5. CASE User \/ UserChoice
    BY <1>5 DEF User, UserChoice, clientVars, Ends, ClientGone
  <1>6. CASE Shell \/ ShellChoice \/ UNCHANGED vars
    BY <1>6 DEF Shell, ShellChoice, vars, userVars, clientVars, serverVars, netVars, Ends, ClientGone, ServerGone
  <1>7. QED
    BY <1>1, <1>2, <1>3, <1>4, <1>5, <1>6 DEF Next, Client, Ended
-----------------------------------------------------------------------------
(* The log of the client, and how much a stream can have been given. *)

InClient == IF cpc = "send" THEN buffer ELSE <<>>

LogReceived == logged.received \o (Bytes(down) \o Bytes(shellStream.pending)) = sent

LogSent ==
  IF ClientGone
  THEN \E q \in Seq(Chars) : (logged.sent \o Bytes(keyStream.pending)) \o q = typed
  ELSE (logged.sent \o Bytes(keyStream.pending)) \o (InClient \o (keys \o untyped)) = typed

\* What inflate() keeps has been sent to it; a stream breaks only if there was more
\* than it has room for.
KeyBursts ==
  /\ keyStream.broken => Len(typed) > DecompSize
  /\ ~ServerGone => Len(keyStream.held) + Len(Bytes(up)) <= Len(logged.sent)

ShellBursts ==
  /\ shellStream.broken => Len(sent) > DecompSize
  /\ Len(shellStream.held) <= Len(logged.received)

LEMMA Fields ==
  ASSUME Types
  PROVE  /\ logged.sent \in Seq(Chars) /\ logged.received \in Seq(Chars)
         /\ Bytes(down) \in Seq(Chars) /\ Bytes(up) \in Seq(Chars)
         /\ shellStream.held \in Seq(Chars) /\ Bytes(shellStream.pending) \in Seq(Chars)
         /\ keyStream.held \in Seq(Chars) /\ Bytes(keyStream.pending) \in Seq(Chars)
         /\ InClient \in Seq(Chars) /\ InClient \in Seq(Keys)
         /\ keys \o untyped \in Seq(Chars) /\ typed \in Seq(Chars)
  <1>1. logged.sent \in Seq(Chars) /\ logged.received \in Seq(Chars)
    BY DEF Types, ClientTypes
  <1>2. /\ shellStream.held \in Seq(Chars) /\ shellStream.pending \in Seq(Seq(Chars))
        /\ keyStream.held \in Seq(Chars) /\ keyStream.pending \in Seq(Seq(Chars))
    BY DEF Types, NetTypes, Streams
  <1>3. Bytes(down) \in Seq(Chars) /\ Bytes(up) \in Seq(Chars)
    BY BytesTyped DEF Types, NetTypes
  <1>4. Bytes(shellStream.pending) \in Seq(Chars) /\ Bytes(keyStream.pending) \in Seq(Chars)
    BY <1>2, BytesTyped
  <1>5. InClient \in Seq(Keys)
    BY EmptySeq DEF InClient, Types, ClientTypes
  <1>6. InClient \in Seq(Chars)
    BY <1>5, KeysAreChars
  <1>7. keys \o untyped \in Seq(Chars)
    BY KeysAreChars, Joined DEF Types, UserTypes
  <1>8. typed \in Seq(Chars)
    BY CompressIsBoolean, KeysAreChars DEF Types
  <1>9. QED
    BY <1>1, <1>2, <1>3, <1>4, <1>5, <1>6, <1>7, <1>8

\* What the server does to what it sends.
LEMMA ServerSendsEffect ==
  ASSUME Types, Server
  PROVE  \/ UNCHANGED <<down, shellStream, sent>>
         \/ /\ ~ClientGone
            /\ \E o \in Seq(Seq(Chars)), e \in Streams, w \in Seq(Chars) :
                 /\ down' = down \o o /\ shellStream' = e /\ sent' = sent \o w
                 /\ e.held = shellStream.held /\ e.broken = shellStream.broken
                 /\ Bytes(o) \o Bytes(e.pending) = Bytes(shellStream.pending) \o w
  <1>1. CASE ServerSends /\ ~UNCHANGED <<down, shellStream, sent>>
    <2>1. outputbuff # <<>> /\ ~ClientGone /\ sent' = sent \o Portion
      BY <1>1, ServerSendsOutcome DEF ServerSends, SendsPortion
    <2>2. PICK d \in Deflate(shellStream, Portion) : down' = down \o d.out /\ shellStream' = d.stream
      BY <1>1, ServerSendsOutcome DEF SendsPortion
    <2>3. Head(outputbuff) \in ShellBytes
      BY <2>1, HeadFirst DEF Types, ServerTypes
    <2>4. PICK w \in Seq(Chars) : w = Portion
      BY <2>3, TextIsShown, BytesAreChars, CharsThere DEF Portion, Types, ServerTypes
    <2>5. /\ d.out \in Seq(Seq(Chars)) /\ d.stream \in Streams
          /\ d.stream.held = shellStream.held /\ d.stream.broken = shellStream.broken
          /\ Bytes(d.out) \o Bytes(d.stream.pending) = Bytes(shellStream.pending) \o w
      BY <2>2, <2>4, CompressIsBoolean, DeflateEffect DEF Types, NetTypes
    <2>6. QED
      BY <2>1, <2>2, <2>4, <2>5
  <1>2. CASE ~ServerSends
    BY <1>2 DEF Server, ServerPoll, ServerReadsSocket, ServerReceives, ServerInterrupts, ServerEof,
                ServerForwards, ServerReadsShell, ServerHangup, netVars
  <1>3. QED
    BY <1>1, <1>2

\* What the server does to what it receives.
LEMMA ServerKeysEffect ==
  ASSUME Types, Server
  PROVE  ServerReceives \/ UNCHANGED <<up, keyStream>>
  BY DEF Server, ServerPoll, ServerReadsSocket, ServerInterrupts, ServerEof,
         ServerForwards, ServerReadsShell, ServerSends, ServerHangup, netVars

\* What the server sends comes behind what is on its way.
LEMMA SendGrows ==
  ASSUME Types, Server, ~UNCHANGED <<down, shellStream, sent>>
  PROVE  /\ ~ClientGone
         /\ shellStream'.held = shellStream.held /\ shellStream'.broken = shellStream.broken
         /\ \E w \in Seq(Chars) :
              /\ sent' = sent \o w
              /\ \A r \in Seq(Chars) : r \o (Bytes(down') \o Bytes(shellStream'.pending))
                                         = (r \o (Bytes(down) \o Bytes(shellStream.pending))) \o w
  <1>1. PICK d \in Seq(Chars), p \in Seq(Chars) : d = Bytes(down) /\ p = Bytes(shellStream.pending)
    BY Fields
  <1>2. \A r, w \in Seq(Chars) : r \o ((d \o p) \o w) = (r \o (d \o p)) \o w
    <2>1. PICK v \in Seq(Chars) : v = d \o p
      BY Joined
    <2>2. \A r, w \in Seq(Chars) : r \o (v \o w) = (r \o v) \o w
      BY Associative, Zenon
    <2>3. QED
      BY <2>1, <2>2
  <1>3. PICK o \in Seq(Seq(Chars)), w \in Seq(Chars) :
          /\ ~ClientGone
          /\ down' = down \o o /\ sent' = sent \o w
          /\ shellStream'.pending \in Seq(Seq(Chars))
          /\ shellStream'.held = shellStream.held /\ shellStream'.broken = shellStream.broken
          /\ Bytes(o) \o Bytes(shellStream'.pending) = Bytes(shellStream.pending) \o w
    <2>1. PICK o \in Seq(Seq(Chars)), e \in Streams, w \in Seq(Chars) :
            /\ ~ClientGone
            /\ down' = down \o o /\ shellStream' = e /\ sent' = sent \o w
            /\ e.held = shellStream.held /\ e.broken = shellStream.broken
            /\ Bytes(o) \o Bytes(e.pending) = Bytes(shellStream.pending) \o w
      BY ServerSendsEffect
    <2>2. e.pending \in Seq(Seq(Chars))
      BY DEF Streams
    <2>3. QED
      BY <2>1, <2>2
  <1>4. PICK x \in Seq(Chars), q \in Seq(Chars) :
          x = Bytes(o) /\ q = Bytes(shellStream'.pending)
    BY <1>3, BytesTyped
  <1>5. Bytes(down \o o) = d \o x
    BY <1>1, <1>4, BytesConcat DEF Types, NetTypes
  <1>6. (d \o x) \o q = (d \o p) \o w
    <2>1. x \o q = p \o w
      BY <1>1, <1>3, <1>4
    <2>2. Grouping(d, x, q)
      BY Grouped
    <2>3. Grouping(d, p, w)
      BY Grouped
    <2>4. QED
      BY <2>1, <2>2, <2>3 DEF Grouping
  <1>7. \A r \in Seq(Chars) : r \o (Bytes(down') \o Bytes(shellStream'.pending))
                                = (r \o (Bytes(down) \o Bytes(shellStream.pending))) \o w
    <2>1. Bytes(down') \o Bytes(shellStream'.pending) = (d \o p) \o w
      BY <1>3, <1>4, <1>5, <1>6
    <2>2. Bytes(down) \o Bytes(shellStream.pending) = d \o p
      BY <1>1
    <2>3. TAKE r \in Seq(Chars)
    <2>4. r \o ((d \o p) \o w) = (r \o (d \o p)) \o w
      BY <1>2
    <2>5. QED
      BY <2>1, <2>2, <2>4
  <1>8. QED
    BY <1>3, <1>7

LEMMA LogReceivedStep ==
  ASSUME Types, LogReceived, [Next]_vars
  PROVE  LogReceived'
  <1>1. CASE UNCHANGED <<logged, down, shellStream, sent>>
    BY <1>1 DEF LogReceived
  <1>2. CASE Client /\ ClientReceives
    <2>1. PICK t \in Seq(Seq(Chars)), u \in Seq(Seq(Chars)) :
            /\ down' = u /\ Bytes(down) = Bytes(t) \o Bytes(u)
            /\ logged'.received = logged.received \o Bytes(t)
            /\ shellStream'.pending = shellStream.pending
      <3>1. PICK e \in Streams, t \in Seq(Seq(Chars)), u \in Seq(Seq(Chars)),
                 l \in [sent : Seq(Chars), received : Seq(Chars)] :
              /\ shellStream' = e /\ down' = u /\ logged' = l
              /\ l.received = logged.received \o Bytes(t)
              /\ Bytes(down) = Bytes(t) \o Bytes(u) /\ e.pending = shellStream.pending
        BY <1>2, ClientReceivesEffect
      <3>2. QED
        BY <3>1
    <2>2. PICK r \in Seq(Chars), x \in Seq(Chars), y \in Seq(Chars), p \in Seq(Chars) :
            r = logged.received /\ x = Bytes(t) /\ y = Bytes(u) /\ p = Bytes(shellStream.pending)
      BY Fields, BytesTyped
    <2>3. (r \o x) \o (y \o p) = r \o ((x \o y) \o p)
      <3>1. PICK v \in Seq(Chars) : v = y \o p
        BY Joined
      <3>2. Grouping(r, x, v)
        BY Grouped
      <3>3. Grouping(x, y, p)
        BY Grouped
      <3>4. QED
        BY <3>1, <3>2, <3>3 DEF Grouping
    <2>4. sent' = sent
      BY <1>2 DEF Client, serverVars
    <2>5. QED
      BY <2>1, <2>2, <2>3, <2>4 DEF LogReceived
  <1>3. CASE Client /\ ClientSends
    <2>1. PICK l \in [sent : Seq(Chars), received : Seq(Chars)] : logged' = l /\ l.received = logged.received
      BY <1>3, ClientSendsEffect
    <2>2. UNCHANGED <<down, shellStream, sent>>
      BY <1>3 DEF Client, ClientSends, serverVars
    <2>3. QED
      BY <2>1, <2>2 DEF LogReceived
  <1>4. CASE Client /\ ~ClientReceives /\ ~ClientSends
    BY <1>1, <1>4 DEF Client, ClientPoll, ClientReadsKeys, ClientReadsSocket, serverVars, netVars
  <1>5. CASE Server
    <2>1. logged' = logged
      BY <1>5 DEF Server, clientVars
    <2>2. CASE UNCHANGED <<down, shellStream, sent>>
      BY <1>1, <2>1, <2>2
    <2>3. CASE ~UNCHANGED <<down, shellStream, sent>>
      <3>1. PICK w \in Seq(Chars) :
              /\ sent' = sent \o w
              /\ \A r \in Seq(Chars) : r \o (Bytes(down') \o Bytes(shellStream'.pending))
                                         = (r \o (Bytes(down) \o Bytes(shellStream.pending))) \o w
        BY <1>5, <2>3, SendGrows
      <3>2. PICK r \in Seq(Chars) : r = logged.received
        BY Fields
      <3>3. r \o (Bytes(down') \o Bytes(shellStream'.pending)) = sent \o w
        BY <3>1, <3>2 DEF LogReceived
      <3>4. QED
        BY <2>1, <3>1, <3>2, <3>3 DEF LogReceived
    <2>4. QED
      BY <2>2, <2>3
  <1>6. CASE User \/ UserChoice \/ Shell \/ ShellChoice \/ UNCHANGED vars
    BY <1>1, <1>6 DEF User, UserChoice, Shell, ShellChoice, vars, clientVars, serverVars, netVars
  <1>7. QED
    BY <1>2, <1>3, <1>4, <1>5, <1>6 DEF Next, Ended

\* A client that ends, ends with a part of what was typed in its log.
LEMMA LogSentAtEnd ==
  ASSUME Types, LogSent, ClientGone', UNCHANGED <<logged, keyStream, typed>>
  PROVE  LogSent'
  <1>1. CASE ClientGone
    BY <1>1 DEF LogSent
  <1>2. CASE ~ClientGone
    <2>1. PICK q \in Seq(Chars) : q = InClient \o (keys \o untyped)
      BY Fields, Joined
    <2>2. QED
      BY <1>2, <2>1 DEF LogSent
  <1>3. QED
    BY <1>1, <1>2

LEMMA LogSentSame ==
  ASSUME LogSent, UNCHANGED <<logged, keyStream, typed>>, ClientGone' = ClientGone,
         InClient' \o (keys' \o untyped') = InClient \o (keys \o untyped)
  PROVE  LogSent'
  BY DEF LogSent

LEMMA LogSentStep ==
  ASSUME Types, LogSent, Types', [Next]_vars
  PROVE  LogSent'
  <1>1. CASE UNCHANGED <<logged, keyStream, typed, cexit, cpc, buffer, keys, untyped>>
    BY <1>1 DEF LogSent, ClientGone, InClient
  <1>2. CASE Client /\ ClientPoll
    <2>1. UNCHANGED <<logged, keyStream, typed, keys, untyped, cexit>> /\ InClient = <<>> /\ InClient' = <<>>
      BY <1>2 DEF Client, ClientPoll, userVars, netVars, InClient
    <2>2. QED
      BY <2>1, LogSentSame DEF ClientGone
  <1>3. CASE Client /\ ClientReadsKeys
    <2>1. UNCHANGED <<logged, keyStream, typed, untyped>> /\ InClient = <<>>
      BY <1>3 DEF Client, ClientReadsKeys, netVars, InClient
    <2>2. CASE ClientGone'
      BY <2>1, <2>2, LogSentAtEnd
    <2>3. CASE ~ClientGone'
      <3>1. PICK a \in Seq(Chars), b \in Seq(Chars), c \in Seq(Chars) :
              a = FirstOf(keys, BuffSize) /\ b = RestOf(keys, BuffSize) /\ a \o b = keys /\ c = untyped
        BY ReadParts, KeysAreChars, Sizes DEF Types, UserTypes
      <3>2. Grouping(a, b, c)
        BY Grouped
      <3>3. \/ keys' = b /\ InClient' = a
            \/ keys' = keys /\ InClient' = <<>>
        BY <1>3, <3>1 DEF ClientReadsKeys, InClient
      <3>4. <<>> \o (keys \o untyped) = keys \o untyped
        BY Fields, WithNothing
      <3>5. InClient' \o (keys' \o untyped') = InClient \o (keys \o untyped)
        BY <2>1, <3>1, <3>2, <3>3, <3>4 DEF Grouping
      <3>6. ClientGone' = ClientGone
        BY <1>3, <2>3 DEF Client, ClientGone
      <3>7. QED
        BY <2>1, <2>3, <3>5, <3>6, LogSentSame
    <2>4. QED
      BY <2>2, <2>3
  <1>4. CASE Client /\ ClientSends
    <2>1. PICK o \in Seq(Seq(Chars)) :
            /\ logged'.sent = logged.sent \o Bytes(o)
            /\ keyStream'.pending \in Seq(Seq(Chars))
            /\ Bytes(o) \o Bytes(keyStream'.pending) = Bytes(keyStream.pending) \o buffer
      <3>1. PICK o \in Seq(Seq(Chars)), e \in Streams, l \in [sent : Seq(Chars), received : Seq(Chars)] :
              /\ keyStream' = e /\ logged' = l /\ l.sent = logged.sent \o Bytes(o)
              /\ Bytes(o) \o Bytes(e.pending) = Bytes(keyStream.pending) \o buffer
        BY <1>4, ClientSendsEffect
      <3>2. e.pending \in Seq(Seq(Chars))
        BY DEF Streams
      <3>3. QED
        BY <3>1, <3>2
    <2>2. /\ UNCHANGED <<typed, keys, untyped>> /\ InClient = buffer /\ ~ClientGone
          /\ \/ ClientGone'
             \/ ~ClientGone' /\ InClient' = <<>>
      <3>1. UNCHANGED <<typed, keys, untyped>> /\ InClient = buffer /\ ~ClientGone
        BY <1>4 DEF Client, ClientSends, userVars, InClient, ClientGone
      <3>2. \/ cpc' = "sock" /\ cexit' = cexit
            \/ cexit' \in {1, SegFault, SigPipe}
        BY <1>4, ClientSendsOutcome
      <3>3. ~ClientGone' => cpc' = "sock"
        BY <3>2 DEF ClientGone, SigPipe, SegFault, Running
      <3>4. QED
        BY <3>1, <3>3 DEF InClient
    <2>3. Bytes(keyStream'.pending) \in Seq(Chars)
      BY <2>1, BytesTyped
    <2>4. PICK s \in Seq(Chars), p \in Seq(Chars), x \in Seq(Chars), q \in Seq(Chars), w \in Seq(Chars), k \in Seq(Chars) :
            /\ s = logged.sent /\ p = Bytes(keyStream.pending) /\ w = buffer /\ k = keys \o untyped
            /\ x = Bytes(o) /\ q = Bytes(keyStream'.pending)
      BY <2>2, <2>3, Fields, BytesTyped
    <2>5. (s \o p) \o (w \o k) = typed
      BY <2>2, <2>4 DEF LogSent
    <2>6. ((s \o x) \o q) \o k = typed
      <3>1. Grouping(s, x, q)
        BY Grouped
      <3>2. Grouping(s, p, w)
        BY Grouped
      <3>3. x \o q = p \o w
        BY <2>1, <2>4
      <3>4. s \o p \in Seq(Chars)
        BY Joined
      <3>5. Grouping(s \o p, w, k)
        BY <3>4, Grouped
      <3>6. QED
        BY <2>5, <3>1, <3>2, <3>3, <3>5, Zenon DEF Grouping
    <2>7. (logged.sent \o Bytes(keyStream.pending))' = (s \o x) \o q
      BY <2>1, <2>4
    <2>8. CASE ClientGone'
      BY <2>2, <2>4, <2>6, <2>7, <2>8 DEF LogSent
    <2>9. CASE ~ClientGone' /\ InClient' = <<>>
      <3>1. <<>> \o k = k
        BY WithNothing
      <3>2. (InClient \o (keys \o untyped))' = k
        BY <2>2, <2>4, <2>9, <3>1
      <3>3. QED
        BY <2>2, <2>6, <2>7, <2>9, <3>2 DEF LogSent
    <2>10. QED
      BY <2>2, <2>8, <2>9
  <1>5. CASE Client /\ ClientReadsSocket
    <2>1. UNCHANGED <<keyStream, typed, keys, untyped, buffer>> /\ cpc = "sock"
      BY <1>5 DEF ClientReadsSocket, userVars
    <2>2. logged'.sent = logged.sent
      <3>1. CASE ClientReceives
        <4>1. PICK l \in [sent : Seq(Chars), received : Seq(Chars)] : logged' = l /\ l.sent = logged.sent
          BY <3>1, ClientReceivesEffect
        <4>2. QED
          BY <4>1
      <3>2. CASE ~ClientReceives
        BY <1>5, <3>2 DEF ClientReadsSocket
      <3>3. QED
        BY <3>1, <3>2
    <2>3. cpc' \in {"poll", "sock"}
      <3>1. CASE ClientReceives
        <4>1. PICK b \in Seq(Chars) : ClientShows(b)
          BY <3>1, ClientReceivesEffect
        <4>2. cpc' \in {"poll", cpc}
          BY <4>1, ClientShowsEffect
        <4>3. QED
          BY <2>1, <4>2
      <3>2. CASE ~ClientReceives
        BY <1>5, <3>2 DEF ClientReadsSocket
      <3>3. QED
        BY <3>1, <3>2
    <2>4. InClient = <<>> /\ InClient' = <<>> /\ ~ClientGone
      BY <1>5, <2>1, <2>3 DEF Client, InClient, ClientGone
    <2>5. PICK q \in Seq(Chars) : q = InClient \o (keys \o untyped)
      BY Fields, Joined
    <2>6. (logged.sent \o Bytes(keyStream.pending)) \o q = typed
      BY <2>4, <2>5 DEF LogSent
    <2>7. CASE ClientGone'
      BY <2>1, <2>2, <2>6, <2>7 DEF LogSent
    <2>8. CASE ~ClientGone'
      <3>1. (InClient \o (keys \o untyped))' = q
        BY <2>1, <2>4, <2>5
      <3>2. QED
        BY <2>1, <2>2, <2>6, <2>8, <3>1 DEF LogSent
    <2>9. QED
      BY <2>7, <2>8
  <1>6. CASE Server
    <2>1. UNCHANGED <<logged, typed, cexit, cpc, buffer, keys, untyped>>
      BY <1>6 DEF Server, userVars, clientVars
    <2>2. keyStream'.pending = keyStream.pending
      <3>1. CASE ServerReceives
        <4>1. PICK e \in Streams : keyStream' = e /\ e.pending = keyStream.pending
          BY <3>1, ServerReceivesEffect
        <4>2. QED
          BY <4>1
      <3>2. CASE UNCHANGED keyStream
        BY <3>2
      <3>3. QED
        BY <1>6, <3>1, <3>2, ServerKeysEffect
    <2>3. QED
      BY <2>1, <2>2 DEF LogSent, ClientGone, InClient
  <1>7. CASE User
    <2>1. UNCHANGED <<logged, keyStream, typed, cexit, cpc, buffer>> /\ TypeKey
      BY <1>7 DEF User, TypeKey, clientVars, netVars
    <2>2. Append(keys, Head(untyped)) \o Tail(untyped) = keys \o untyped
      BY <2>1, MoveHead DEF TypeKey, Types, UserTypes
    <2>3. keys' \o untyped' = keys \o untyped
      BY <2>1, <2>2 DEF TypeKey
    <2>4. QED
      BY <2>1, <2>3, LogSentSame DEF ClientGone, InClient
  <1>8. CASE UserChoice
    BY <1>1, <1>8 DEF UserChoice, HangUp, clientVars, netVars
  <1>9. CASE Shell \/ ShellChoice \/ UNCHANGED vars
    BY <1>1, <1>9 DEF Shell, ShellChoice, vars, userVars, clientVars, netVars
  <1>10. QED
    BY <1>2, <1>3, <1>4, <1>5, <1>6, <1>7, <1>8, <1>9 DEF Next, Client, Ended
\* The log holds no more than was typed, and than was sent.
LEMMA LogLengths ==
  ASSUME Types, LogSent, LogReceived
  PROVE  /\ Len(logged.sent) <= Len(typed)
         /\ Len(logged.received) + Len(Bytes(down)) <= Len(sent)
  <1>1. PICK r \in Seq(Chars), d \in Seq(Chars), p \in Seq(Chars) :
          r = logged.received /\ d = Bytes(down) /\ p = Bytes(shellStream.pending)
    BY Fields
  <1>2. PICK v \in Seq(Chars) : v = d \o p /\ Len(v) = Len(d) + Len(p)
    BY Joined
  <1>3. Len(r \o v) = Len(r) + Len(v)
    BY Joined
  <1>4. r \o v = sent
    BY <1>1, <1>2 DEF LogReceived
  <1>5. PICK q \in Seq(Chars) : (logged.sent \o Bytes(keyStream.pending)) \o q = typed
    <2>1. InClient \o (keys \o untyped) \in Seq(Chars)
      BY Fields, Joined
    <2>2. QED
      BY <2>1 DEF LogSent
  <1>6. PICK s \in Seq(Chars), k \in Seq(Chars) : s = logged.sent /\ k = Bytes(keyStream.pending)
    BY Fields
  <1>7. PICK w \in Seq(Chars) : w = s \o k /\ Len(w) = Len(s) + Len(k)
    BY Joined
  <1>8. Len(w \o q) = Len(w) + Len(q) /\ w \o q = typed
    BY <1>5, <1>6, <1>7, Joined
  <1>9. Len(d) \in Nat /\ Len(p) \in Nat /\ Len(r) \in Nat /\ Len(s) \in Nat /\ Len(k) \in Nat /\ Len(q) \in Nat
    OBVIOUS
  <1>10. Len(s) <= Len(typed)
    BY <1>7, <1>8, <1>9
  <1>11. Len(r) + Len(d) <= Len(sent)
    BY <1>2, <1>3, <1>4, <1>9
  <1>12. QED
    BY <1>1, <1>6, <1>10, <1>11

LEMMA KeyBurstsStep ==
  ASSUME Types, LogSent, LogReceived, KeyBursts, [Next]_vars
  PROVE  KeyBursts'
  <1>1. PICK H \in Nat, U \in Nat, L \in Nat :
          H = Len(keyStream.held) /\ U = Len(Bytes(up)) /\ L = Len(logged.sent)
    BY Fields
  <1>2. L <= Len(typed) /\ Len(typed) \in Nat /\ DecompSize \in Nat
    BY <1>1, LogLengths, Fields, Sizes
  <1>3. CASE UNCHANGED <<keyStream, up, typed, sexit>> /\ logged'.sent = logged.sent
    BY <1>3 DEF KeyBursts, ServerGone
  <1>4. CASE Client /\ ClientSends
    <2>1. PICK o \in Seq(Seq(Chars)) :
            /\ keyStream'.held = keyStream.held /\ keyStream'.broken = keyStream.broken
            /\ logged'.sent = logged.sent \o Bytes(o)
            /\ up' = IF ServerGone THEN up ELSE up \o o
      BY <1>4, ClientSendsEffect
    <2>2. UNCHANGED <<typed, sexit>>
      BY <1>4 DEF Client, ClientSends, userVars, serverVars
    <2>3. CASE ServerGone
      BY <2>1, <2>2, <2>3 DEF KeyBursts, ServerGone
    <2>4. CASE ~ServerGone
      <3>1. PICK x \in Seq(Chars) : x = Bytes(o)
        BY BytesTyped
      <3>2. PICK s \in Seq(Chars), u \in Seq(Chars) : s = logged.sent /\ u = Bytes(up)
        BY Fields
      <3>3. Bytes(up \o o) = u \o x
        BY <3>1, <3>2, BytesConcat DEF Types, NetTypes
      <3>4. Len(s \o x) = Len(s) + Len(x) /\ Len(u \o x) = Len(u) + Len(x) /\ Len(x) \in Nat
        BY Joined
      <3>5. H + U <= L
        BY <1>1, <2>4 DEF KeyBursts
      <3>6. /\ Len(Bytes(up')) = U + Len(x) /\ Len(logged'.sent) = L + Len(x)
            /\ Len(keyStream'.held) = H
        BY <1>1, <2>1, <2>4, <3>1, <3>2, <3>3, <3>4
      <3>7. Len(keyStream'.held) + Len(Bytes(up')) <= Len(logged'.sent)
        BY <3>4, <3>5, <3>6
      <3>8. QED
        BY <2>1, <2>2, <3>7 DEF KeyBursts
    <2>5. QED
      BY <2>3, <2>4
  <1>5. CASE Client /\ ClientReadsSocket
    <2>1. UNCHANGED <<keyStream, up, typed, sexit>>
      BY <1>5 DEF Client, ClientReadsSocket, userVars, serverVars
    <2>2. logged'.sent = logged.sent
      <3>1. CASE ClientReceives
        <4>1. PICK l \in [sent : Seq(Chars), received : Seq(Chars)] : logged' = l /\ l.sent = logged.sent
          BY <3>1, ClientReceivesEffect
        <4>2. QED
          BY <4>1
      <3>2. CASE ~ClientReceives
        BY <1>5, <3>2 DEF ClientReadsSocket
      <3>3. QED
        BY <3>1, <3>2
    <2>3. QED
      BY <1>3, <2>1, <2>2
  <1>6. CASE Client /\ (ClientPoll \/ ClientReadsKeys)
    BY <1>3, <1>6 DEF Client, ClientPoll, ClientReadsKeys, userVars, netVars, serverVars
  <1>7. CASE Server
    <2>1. UNCHANGED <<typed, logged>> /\ ~ServerGone
      BY <1>7 DEF Server, userVars, clientVars, ServerGone
    <2>2. H + U <= L
      BY <1>1, <2>1 DEF KeyBursts
    <2>3. CASE ServerReceives
      <3>1. PICK t \in Seq(Seq(Chars)), u \in Seq(Seq(Chars)) :
              /\ up' = u /\ Bytes(up) = Bytes(t) \o Bytes(u)
              /\ keyStream.broken => keyStream' = keyStream
              /\ ~keyStream.broken /\ keyStream'.broken => Len(keyStream.held) + Len(Bytes(t)) > DecompSize
              /\ Len(keyStream'.held) <= Len(keyStream.held) + Len(Bytes(t))
              /\ Len(keyStream'.held) \in Nat
        <4>1. PICK e \in Streams, t \in Seq(Seq(Chars)), u \in Seq(Seq(Chars)) :
              /\ keyStream' = e /\ up' = u /\ Bytes(up) = Bytes(t) \o Bytes(u)
              /\ keyStream.broken => e = keyStream
              /\ ~keyStream.broken /\ e.broken => Len(keyStream.held) + Len(Bytes(t)) > DecompSize
              /\ Len(e.held) <= Len(keyStream.held) + Len(Bytes(t))
          BY <2>3, ServerReceivesEffect
        <4>2. Len(e.held) \in Nat
          BY DEF Streams
        <4>3. QED
          BY <4>1, <4>2
      <3>2. PICK x \in Seq(Chars), y \in Seq(Chars) : x = Bytes(t) /\ y = Bytes(u)
        BY BytesTyped
      <3>3. PICK A \in Nat, B \in Nat : A = Len(x) /\ B = Len(y) /\ Len(x \o y) = A + B
        BY Joined
      <3>4. U = A + B
        BY <1>1, <3>1, <3>2, <3>3
      <3>5. Len(keyStream'.held) <= H + A
        BY <1>1, <3>1, <3>2, <3>3
      <3>6. Len(keyStream'.held) + B <= L
        BY <2>2, <3>1, <3>4, <3>5
      <3>7. ~keyStream.broken /\ keyStream'.broken => Len(typed) > DecompSize
        <4>1. ~keyStream.broken /\ keyStream'.broken => H + A > DecompSize
          BY <1>1, <3>1, <3>2, <3>3
        <4>2. H + A > DecompSize => Len(typed) > DecompSize
          BY <1>2, <2>2, <3>4
        <4>3. QED
          BY <4>1, <4>2
      <3>8. keyStream'.broken => Len(typed) > DecompSize
        BY <3>1, <3>7 DEF KeyBursts
      <3>9. Len(Bytes(up')) = B /\ Len(logged'.sent) = L
        BY <1>1, <2>1, <3>1, <3>2, <3>3
      <3>10. QED
        BY <2>1, <3>6, <3>8, <3>9 DEF KeyBursts
    <2>4. CASE UNCHANGED <<up, keyStream>>
      BY <2>1, <2>4 DEF KeyBursts
    <2>5. QED
      BY <1>7, <2>3, <2>4, ServerKeysEffect
  <1>8. CASE User \/ UserChoice \/ Shell \/ ShellChoice \/ UNCHANGED vars
    BY <1>3, <1>8 DEF User, UserChoice, TypeKey, HangUp, Shell, ShellChoice, vars, userVars, clientVars, serverVars, netVars
  <1>9. QED
    BY <1>4, <1>5, <1>6, <1>7, <1>8 DEF Next, Client, Ended

LEMMA ShellBurstsStep ==
  ASSUME Types, LogSent, LogReceived, ShellBursts, [Next]_vars
  PROVE  ShellBursts'
  <1>1. PICK H \in Nat, R \in Nat, D \in Nat, N \in Nat :
          /\ H = Len(shellStream.held) /\ R = Len(logged.received) /\ D = Len(Bytes(down)) /\ N = Len(sent)
          /\ R + D <= N /\ H <= R
    <2>1. /\ Len(shellStream.held) \in Nat /\ Len(logged.received) \in Nat
          /\ Len(Bytes(down)) \in Nat
      BY Fields
    <2>2. Len(sent) \in Nat
      BY DEF Types, ServerTypes
    <2>3. Len(logged.received) + Len(Bytes(down)) <= Len(sent)
      BY LogLengths
    <2>4. Len(shellStream.held) <= Len(logged.received)
      BY DEF ShellBursts
    <2>5. QED
      BY <2>1, <2>2, <2>3, <2>4
  <1>2. DecompSize \in Nat
    BY Sizes
  <1>3. CASE UNCHANGED <<shellStream, sent>> /\ logged'.received = logged.received
    BY <1>3 DEF ShellBursts
  <1>4. CASE Client /\ ClientReceives
    <2>1. PICK t \in Seq(Seq(Chars)), u \in Seq(Seq(Chars)) :
            /\ logged'.received = logged.received \o Bytes(t) /\ Bytes(down) = Bytes(t) \o Bytes(u)
            /\ shellStream.broken => shellStream' = shellStream
            /\ ~shellStream.broken /\ shellStream'.broken => Len(shellStream.held) + Len(Bytes(t)) > DecompSize
            /\ Len(shellStream'.held) <= Len(shellStream.held) + Len(Bytes(t))
            /\ Len(shellStream'.held) \in Nat
      <3>1. PICK e \in Streams, t \in Seq(Seq(Chars)), u \in Seq(Seq(Chars)),
                 l \in [sent : Seq(Chars), received : Seq(Chars)] :
              /\ shellStream' = e /\ logged' = l
              /\ l.received = logged.received \o Bytes(t) /\ Bytes(down) = Bytes(t) \o Bytes(u)
              /\ shellStream.broken => e = shellStream
              /\ ~shellStream.broken /\ e.broken => Len(shellStream.held) + Len(Bytes(t)) > DecompSize
              /\ Len(e.held) <= Len(shellStream.held) + Len(Bytes(t))
        BY <1>4, ClientReceivesEffect
      <3>2. Len(e.held) \in Nat
        BY DEF Streams
      <3>3. QED
        BY <3>1, <3>2
    <2>2. PICK x \in Seq(Chars), y \in Seq(Chars), r \in Seq(Chars) :
            x = Bytes(t) /\ y = Bytes(u) /\ r = logged.received
      BY Fields, BytesTyped
    <2>3. PICK A \in Nat, B \in Nat :
            A = Len(x) /\ B = Len(y) /\ Len(x \o y) = A + B /\ Len(r \o x) = Len(r) + A
      BY Joined
    <2>4. D = A + B /\ Len(logged'.received) = R + A
      BY <1>1, <2>1, <2>2, <2>3
    <2>5. PICK G \in Nat : G = Len(shellStream'.held) /\ G <= H + A
      BY <1>1, <2>1, <2>2, <2>3
    <2>6. G <= R + A
      <3>1. H <= R
        BY <1>1
      <3>2. QED
        BY <2>5, <3>1
    <2>7. ~shellStream.broken /\ shellStream'.broken => N > DecompSize
      <3>1. ~shellStream.broken /\ shellStream'.broken => H + A > DecompSize
        BY <1>1, <2>1, <2>2, <2>3
      <3>2. H + A > DecompSize => N > DecompSize
        <4>1. R + (A + B) <= N /\ H <= R
          BY <1>1, <2>4
        <4>2. QED
          BY <1>2, <4>1
      <3>3. QED
        BY <3>1, <3>2
    <2>8. sent' = sent
      BY <1>4 DEF Client, serverVars
    <2>9. shellStream'.broken => Len(sent') > DecompSize
      BY <1>1, <2>1, <2>7, <2>8 DEF ShellBursts
    <2>10. QED
      BY <2>4, <2>5, <2>6, <2>9 DEF ShellBursts
  <1>5. CASE Client /\ ClientSends
    <2>1. PICK l \in [sent : Seq(Chars), received : Seq(Chars)] : logged' = l /\ l.received = logged.received
      BY <1>5, ClientSendsEffect
    <2>2. UNCHANGED <<shellStream, sent>>
      BY <1>5 DEF Client, ClientSends, serverVars
    <2>3. QED
      BY <1>3, <2>1, <2>2
  <1>6. CASE Client /\ ~ClientReceives /\ ~ClientSends
    BY <1>3, <1>6 DEF Client, ClientPoll, ClientReadsKeys, ClientReadsSocket, serverVars, netVars
  <1>7. CASE Server
    <2>1. logged' = logged
      BY <1>7 DEF Server, clientVars
    <2>2. CASE UNCHANGED <<down, shellStream, sent>>
      BY <1>3, <2>1, <2>2
    <2>3. CASE ~UNCHANGED <<down, shellStream, sent>>
      <3>1. PICK w \in Seq(Chars) :
              /\ sent' = sent \o w
              /\ shellStream'.held = shellStream.held /\ shellStream'.broken = shellStream.broken
        BY <1>7, <2>3, ServerSendsEffect
      <3>2. Len(sent \o w) = N + Len(w) /\ Len(w) \in Nat
        BY <1>1, Joined DEF Types, ServerTypes
      <3>3. N > DecompSize => Len(sent') > DecompSize
        BY <1>2, <3>1, <3>2
      <3>4. QED
        BY <1>1, <2>1, <3>1, <3>3 DEF ShellBursts
    <2>4. QED
      BY <2>2, <2>3
  <1>8. CASE User \/ UserChoice \/ Shell \/ ShellChoice \/ UNCHANGED vars
    BY <1>3, <1>8 DEF User, UserChoice, Shell, ShellChoice, vars, clientVars, serverVars, netVars
  <1>9. QED
    BY <1>4, <1>5, <1>6, <1>7, <1>8 DEF Next, Ended
-----------------------------------------------------------------------------
(* What the shell gets. *)

\* The keys that the server has not forwarded, and before them those that it has.
OnWay == inputbuff \o (keyStream.held \o Bytes(up))

Reaches ==
  ~keyStream.broken =>
    IF ServerGone
    THEN \E x \in Seq(Chars) : (received \o toShell) \o x = SentBy(typed)
    ELSE \E p \in Seq(Chars) : p \o OnWay = logged.sent /\ received \o toShell = SentBy(p)

LEMMA OnWayTyped ==
  ASSUME Types
  PROVE  OnWay \in Seq(Chars) /\ inputbuff \in Seq(Chars) /\ received \o toShell \in Seq(Chars)
  <1>1. keyStream.held \o Bytes(up) \in Seq(Chars)
    BY Fields, Joined
  <1>2. QED
    BY <1>1, Joined DEF OnWay, Types, ServerTypes, ShellTypes

LEMMA OnWayGrows ==
  ASSUME Types
  PROVE  \A x \in Seq(Chars) : OnWay \o x = inputbuff \o (keyStream.held \o (Bytes(up) \o x))
  <1>1. PICK i \in Seq(Chars), h \in Seq(Chars), u \in Seq(Chars) :
          i = inputbuff /\ h = keyStream.held /\ u = Bytes(up)
    BY Fields, OnWayTyped
  <1>2. PICK v \in Seq(Chars) : v = h \o u
    BY Joined
  <1>3. \A x \in Seq(Chars) : v \o x = h \o (u \o x)
    BY <1>2, Associative
  <1>4. \A x \in Seq(Chars) : (i \o v) \o x = i \o (v \o x)
    BY Associative, Zenon
  <1>5. OnWay = i \o v
    BY <1>1, <1>2 DEF OnWay
  <1>6. \A x \in Seq(Chars) : OnWay \o x = i \o (h \o (u \o x))
    BY <1>3, <1>4, <1>5
  <1>7. QED
    BY <1>1, <1>6

\* What was sent first was typed first.
LEMMA SentIsPrefix ==
  ASSUME Types, LogSent, NEW p \in Seq(Chars), p \o OnWay = logged.sent
  PROVE  \E x \in Seq(Chars) : SentBy(p) \o x = SentBy(typed)
  <1>1. PICK q \in Seq(Chars) : (logged.sent \o Bytes(keyStream.pending)) \o q = typed
    <2>1. InClient \o (keys \o untyped) \in Seq(Chars)
      BY Fields, Joined
    <2>2. QED
      BY <2>1 DEF LogSent
  <1>2. PICK w \in Seq(Chars), k \in Seq(Chars) : w = OnWay /\ k = Bytes(keyStream.pending)
    BY Fields, OnWayTyped
  <1>3. PICK y \in Seq(Chars) : y = w \o k
    BY Joined
  <1>4. Grouping(p, w, k)
    BY Grouped
  <1>5. PICK z \in Seq(Chars) : z = y \o q
    BY Joined
  <1>6. Grouping(p, y, q)
    BY Grouped
  <1>7. p \o z = typed
    BY <1>1, <1>2, <1>3, <1>4, <1>5, <1>6 DEF Grouping
  <1>8. SentBy(p \o z) = SentBy(p) \o SentBy(z) /\ SentBy(z) \in Seq(Chars)
    BY SentByConcat
  <1>9. QED
    BY <1>7, <1>8

LEMMA ReachesAtEnd ==
  ASSUME Types, LogSent, Reaches, ~ServerGone, ServerGone',
         UNCHANGED <<received, toShell, keyStream, typed>>
  PROVE  Reaches'
  <1>1. SUFFICES ASSUME ~keyStream.broken
                 PROVE  \E x \in Seq(Chars) : (received \o toShell) \o x = SentBy(typed)
    BY DEF Reaches
  <1>2. PICK p \in Seq(Chars) : p \o OnWay = logged.sent /\ received \o toShell = SentBy(p)
    BY <1>1 DEF Reaches
  <1>3. PICK x \in Seq(Chars) : SentBy(p) \o x = SentBy(typed)
    BY <1>2, SentIsPrefix
  <1>4. QED
    BY <1>2, <1>3

LEMMA ReachesSame ==
  ASSUME Reaches, UNCHANGED <<keyStream, up, inputbuff, typed, sexit>>,
         received' \o toShell' = received \o toShell, logged'.sent = logged.sent
  PROVE  Reaches'
  <1>1. OnWay' = OnWay
    BY DEF OnWay
  <1>2. QED
    BY <1>1 DEF Reaches, ServerGone

\* A key is forwarded.
LEMMA ReachesForward ==
  ASSUME Types, Reaches, ServerForwards, ~ServerGone, ~ServerGone', UNCHANGED <<logged, typed>>
  PROVE  Reaches'
  <1>1. \A f \in Seq(Chars) : (received \o toShell) \o f = received \o (toShell \o f)
    <2>1. PICK a \in Seq(Chars), b \in Seq(Chars) : a = received /\ b = toShell
      BY DEF Types, ShellTypes
    <2>2. \A f \in Seq(Chars) : (a \o b) \o f = a \o (b \o f)
      BY Associative, Zenon
    <2>3. QED
      BY <2>1, <2>2
  <1>2. SUFFICES ASSUME ~keyStream.broken
                 PROVE  \E p \in Seq(Chars) : p \o OnWay' = logged.sent /\ received \o toShell' = SentBy(p)
    BY DEF Reaches, ServerForwards, netVars
  <1>3. PICK p \in Seq(Chars) : p \o OnWay = logged.sent /\ received \o toShell = SentBy(p)
    BY <1>2 DEF Reaches
  <1>4. /\ inputbuff # <<>> /\ Head(inputbuff) \notin {"^C", "^D"}
        /\ toShell' = Append(toShell, Forwarded(Head(inputbuff)))
        /\ inputbuff' = Tail(inputbuff) /\ UNCHANGED <<keyStream, up>>
    BY DEF ServerForwards, ServerGone, SigPipe, Running, netVars
  <1>5. PICK k \in Chars, r \in Seq(Chars) : k = Head(inputbuff) /\ r = Tail(inputbuff) /\ inputbuff = <<k>> \o r
    BY <1>4, HeadFirst DEF Types, ServerTypes
  <1>6. PICK one \in Seq(Chars), v \in Seq(Chars) : one = <<k>> /\ v = keyStream.held \o Bytes(up)
    <2>1. keyStream.held \o Bytes(up) \in Seq(Chars)
      BY Fields, Joined
    <2>2. <<k>> \in Seq(Chars)
      OBVIOUS
    <2>3. QED
      BY <2>1, <2>2
  <1>7. OnWay = (one \o r) \o v /\ OnWay' = r \o v
    BY <1>4, <1>5, <1>6 DEF OnWay
  <1>8. PICK y \in Seq(Chars), z \in Seq(Chars) : y = r \o v /\ z = p \o one
    BY Joined
  <1>9. Grouping(one, r, v)
    BY <1>8, Grouped
  <1>10. Grouping(p, one, y)
    BY <1>8, Grouped
  <1>11. z \o OnWay' = logged.sent
    BY <1>3, <1>7, <1>8, <1>9, <1>10 DEF Grouping
  <1>12. SentBy(one) = <<Forwarded(k)>> /\ <<Forwarded(k)>> \in Seq(Chars)
    BY <1>4, <1>5, <1>6, SentByOne, SentTyped DEF Sent
  <1>13. SentBy(z) = SentBy(p) \o <<Forwarded(k)>>
    <2>1. SentBy(p \o one) = SentBy(p) \o SentBy(one)
      BY SentByConcat
    <2>2. QED
      BY <1>8, <1>12, <2>1
  <1>14. Append(toShell, Forwarded(k)) = toShell \o <<Forwarded(k)>>
    BY SentTyped, AppendIsConcat DEF Types, ShellTypes
  <1>15. (received \o toShell) \o <<Forwarded(k)>> = received \o (toShell \o <<Forwarded(k)>>)
    BY <1>1, <1>12, Zenon
  <1>16. received \o toShell' = SentBy(z)
    BY <1>3, <1>4, <1>5, <1>13, <1>14, <1>15
  <1>17. QED
    BY <1>11, <1>16

\* What the server reads is in its buffer, or kept by inflate().
LEMMA ReachesReceive ==
  ASSUME Types, Loop, Reaches, ServerReceives, spc = "sock", ~ServerGone,
         UNCHANGED <<sexit, logged, typed, received, toShell>>
  PROVE  Reaches'
  <1>1. SUFFICES ASSUME ~keyStream'.broken
                 PROVE  \E p \in Seq(Chars) : p \o OnWay' = logged.sent /\ received \o toShell = SentBy(p)
    BY DEF Reaches, ServerGone
  <1>2. PICK t \in Seq(Seq(Chars)), u \in Seq(Seq(Chars)) :
          /\ up' = u /\ Bytes(up) = Bytes(t) \o Bytes(u)
          /\ ~keyStream.broken
          /\ inputbuff' \o keyStream'.held = keyStream.held \o Bytes(t)
          /\ inputbuff' \in Seq(Chars) /\ keyStream'.held \in Seq(Chars)
    <2>1. PICK b \in Seq(Chars), e \in Streams, t \in Seq(Seq(Chars)), u \in Seq(Seq(Chars)) :
            /\ inputbuff' = b /\ keyStream' = e /\ up' = u
            /\ Bytes(up) = Bytes(t) \o Bytes(u)
            /\ keyStream.broken => e = keyStream
            /\ ~e.broken => b \o e.held = keyStream.held \o Bytes(t)
      BY ServerReceivesEffect
    <2>2. e.held \in Seq(Chars)
      BY DEF Streams
    <2>3. QED
      BY <1>1, <2>1, <2>2
  <1>3. PICK p \in Seq(Chars) : p \o OnWay = logged.sent /\ received \o toShell = SentBy(p)
    BY <1>2 DEF Reaches
  <1>4. PICK h \in Seq(Chars), x \in Seq(Chars), y \in Seq(Chars), b \in Seq(Chars), g \in Seq(Chars) :
          h = keyStream.held /\ x = Bytes(t) /\ y = Bytes(u) /\ b = inputbuff' /\ g = keyStream'.held
    BY <1>2, Fields, BytesTyped
  <1>5. Grouping(h, x, y)
    BY Grouped
  <1>6. Grouping(b, g, y)
    BY Grouped
  <1>7. inputbuff = <<>>
    BY DEF Loop
  <1>8. OnWay = h \o (x \o y)
    <2>1. h \o (x \o y) \in Seq(Chars)
      <3>1. PICK v \in Seq(Chars) : v = x \o y
        BY Joined
      <3>2. QED
        BY <3>1, Joined
    <2>2. <<>> \o (h \o (x \o y)) = h \o (x \o y)
      BY <2>1, WithNothing
    <2>3. QED
      BY <1>2, <1>4, <1>7, <2>2 DEF OnWay
  <1>9. OnWay' = b \o (g \o y)
    BY <1>2, <1>4 DEF OnWay
  <1>10. OnWay' = OnWay
    BY <1>2, <1>4, <1>5, <1>6, <1>8, <1>9 DEF Grouping
  <1>11. QED
    BY <1>3, <1>10

\* What the client sends comes behind what it has sent.
LEMMA ReachesSend ==
  ASSUME Types, Reaches, Client, ClientSends
  PROVE  Reaches'
  <1>1. PICK o \in Seq(Seq(Chars)) :
          /\ keyStream'.held = keyStream.held /\ keyStream'.broken = keyStream.broken
          /\ logged'.sent = logged.sent \o Bytes(o)
          /\ up' = IF ServerGone THEN up ELSE up \o o
    BY ClientSendsEffect
  <1>2. UNCHANGED <<typed, sexit, received, toShell, inputbuff>>
    BY DEF Client, ClientSends, userVars, serverVars, shellVars
  <1>3. CASE ServerGone
    BY <1>1, <1>2, <1>3 DEF Reaches, ServerGone
  <1>4. CASE ~ServerGone
    <2>1. SUFFICES ASSUME ~keyStream.broken
                   PROVE  \E p \in Seq(Chars) : p \o OnWay' = logged'.sent /\ received \o toShell = SentBy(p)
      BY <1>1, <1>2, <1>4 DEF Reaches, ServerGone
    <2>2. PICK p \in Seq(Chars) : p \o OnWay = logged.sent /\ received \o toShell = SentBy(p)
      BY <1>4, <2>1 DEF Reaches
    <2>3. PICK w \in Seq(Chars) : w = OnWay
      BY OnWayTyped
    <2>4. \A x \in Seq(Chars) : (p \o w) \o x = p \o (w \o x)
      BY Associative, Zenon
    <2>5. PICK x \in Seq(Chars) : x = Bytes(o)
      BY BytesTyped
    <2>6. Bytes(up \o o) = Bytes(up) \o x
      BY <2>5, BytesConcat DEF Types, NetTypes
    <2>7. OnWay' = inputbuff \o (keyStream.held \o (Bytes(up) \o x))
      BY <1>1, <1>2, <1>4, <2>6 DEF OnWay
    <2>8. OnWay \o x = inputbuff \o (keyStream.held \o (Bytes(up) \o x))
      BY OnWayGrows, Zenon
    <2>9. p \o OnWay' = (p \o OnWay) \o x
      BY <2>3, <2>4, <2>7, <2>8
    <2>10. QED
      BY <1>1, <2>2, <2>5, <2>9
  <1>5. QED
    BY <1>3, <1>4

LEMMA ReachesStep ==
  ASSUME Types, Loop, LogSent, Reaches, [Next]_vars
  PROVE  Reaches'
  <1>1. CASE Client /\ ClientSends
    BY <1>1, ReachesSend
  <1>2. CASE Client /\ ClientReadsSocket
    <2>1. UNCHANGED <<keyStream, up, inputbuff, typed, sexit, received, toShell>>
      BY <1>2 DEF Client, ClientReadsSocket, userVars, serverVars, shellVars
    <2>2. logged'.sent = logged.sent
      <3>1. CASE ClientReceives
        <4>1. PICK l \in [sent : Seq(Chars), received : Seq(Chars)] : logged' = l /\ l.sent = logged.sent
          BY <3>1, ClientReceivesEffect
        <4>2. QED
          BY <4>1
      <3>2. CASE ~ClientReceives
        BY <1>2, <3>2 DEF ClientReadsSocket
      <3>3. QED
        BY <3>1, <3>2
    <2>3. QED
      BY <2>1, <2>2, ReachesSame
  <1>3. CASE Client /\ (ClientPoll \/ ClientReadsKeys)
    BY <1>3, ReachesSame DEF Client, ClientPoll, ClientReadsKeys, userVars, serverVars, netVars, shellVars
  <1>4. CASE Server /\ ServerForwards
    <2>1. ~ServerGone /\ UNCHANGED <<logged, typed>>
      BY <1>4 DEF Server, userVars, clientVars, ServerGone
    <2>2. CASE ServerGone'
      BY <1>4, <2>1, <2>2, ReachesAtEnd DEF ServerForwards, ServerGone, SigPipe, Running, netVars
    <2>3. CASE ~ServerGone'
      BY <1>4, <2>1, <2>3, ReachesForward
    <2>4. QED
      BY <2>2, <2>3
  <1>5. CASE Server /\ ServerReadsSocket /\ ServerReceives
    <2>1. ~ServerGone /\ spc = "sock" /\ UNCHANGED <<sexit, logged, typed, received, toShell>>
      BY <1>5 DEF Server, ServerReadsSocket, ServerReceives, userVars, clientVars, ServerGone
    <2>2. QED
      BY <1>5, <2>1, ReachesReceive
  <1>6. CASE Server /\ ~ServerForwards /\ ~(ServerReadsSocket /\ ServerReceives)
    <2>1. ~ServerGone /\ UNCHANGED <<logged, typed>>
      BY <1>6 DEF Server, userVars, clientVars, ServerGone
    <2>2. UNCHANGED <<received, toShell, keyStream, up, inputbuff>>
      BY <1>6 DEF Server, ServerPoll, ServerReadsSocket, ServerInterrupts, ServerEof,
                  ServerReadsShell, ServerSends, ServerHangup, shellVars, netVars
    <2>3. CASE ServerGone'
      BY <2>1, <2>2, <2>3, ReachesAtEnd
    <2>4. CASE ~ServerGone'
      BY <2>1, <2>2, <2>4, ReachesSame DEF ServerGone
    <2>5. QED
      BY <2>3, <2>4
  <1>7. CASE Shell \/ ShellChoice
    <2>1. UNCHANGED <<keyStream, up, inputbuff, typed, sexit, logged>>
      BY <1>7 DEF Shell, ShellChoice, userVars, clientVars, serverVars, netVars
    <2>2. received' \o toShell' = received \o toShell
      <3>1. CASE ShellReads
        <4>1. Append(received, Head(toShell)) \o Tail(toShell) = received \o toShell
          BY <3>1, MoveHead DEF ShellReads, Types, ShellTypes
        <4>2. QED
          BY <3>1, <4>1 DEF ShellReads
      <3>2. CASE ~ShellReads
        BY <1>7, <3>2 DEF Shell, ShellChoice, ShellMust, ShellMay, ShellWrites, ShellDies, ShellWantsToWrite, ShellExits
      <3>3. QED
        BY <3>1, <3>2
    <2>3. QED
      BY <2>1, <2>2, ReachesSame
  <1>8. CASE User \/ UserChoice \/ UNCHANGED vars
    BY <1>8, ReachesSame DEF User, UserChoice, TypeKey, HangUp, vars, userVars, clientVars, serverVars, netVars, shellVars
  <1>9. QED
    BY <1>1, <1>2, <1>3, <1>4, <1>5, <1>6, <1>7, <1>8 DEF Next, Client, Ended
-----------------------------------------------------------------------------
(* What the terminal shows. *)

\* What has been sent and not been shown.
Left == shellStream.held \o (Bytes(down) \o Bytes(shellStream.pending))

Shows ==
  ~shellStream.broken =>
    IF cexit = 0
    THEN \E x \in Seq(Chars) : ShellText(display) \o x = ShellText(sent)
    ELSE ShellText(display) \o ShellText(Left) = ShellText(sent)

LEMMA LeftTyped ==
  ASSUME Types
  PROVE  Left \in Seq(Chars) /\ display \in Seq(Chars) /\ sent \in Seq(Chars)
  <1>1. Bytes(down) \o Bytes(shellStream.pending) \in Seq(Chars)
    BY Fields, Joined
  <1>2. QED
    BY <1>1, Fields, Joined DEF Left, Types, ClientTypes, ServerTypes

LEMMA TextGroups ==
  ASSUME NEW a \in Seq(Chars), NEW b \in Seq(Chars), NEW c \in Seq(Chars)
  PROVE  (ShellText(a) \o ShellText(b)) \o ShellText(c) = ShellText(a) \o (ShellText(b) \o ShellText(c))
  <1>1. PICK x \in Seq(Chars), y \in Seq(Chars), z \in Seq(Chars) :
          x = ShellText(a) /\ y = ShellText(b) /\ z = ShellText(c)
    BY TextConcat
  <1>2. Grouping(x, y, z)
    BY Grouped
  <1>3. QED
    BY <1>1, <1>2 DEF Grouping

LEMMA LeftTypedNext == (Types => Left \in Seq(Chars))'
  <1>1. Types => Left \in Seq(Chars)
    BY LeftTyped
  <1>2. QED
    BY <1>1, PTL

\* The client ends, without having read an EOT, or goes on.
LEMMA ShowsSame ==
  ASSUME Shows, UNCHANGED <<shellStream, down, sent>>, ShellText(display') = ShellText(display),
         (cexit' = cexit) \/ (cexit # 0 /\ cexit' # 0)
  PROVE  Shows'
  <1>1. Left' = Left
    BY DEF Left
  <1>2. QED
    BY <1>1 DEF Shows

LEMMA ShowsEcho ==
  ASSUME Types, Shows, Client, ClientSends
  PROVE  Shows'
  <1>1. UNCHANGED <<shellStream, down, sent>> /\ ((cexit' = cexit) \/ (cexit # 0 /\ cexit' # 0))
    <2>1. UNCHANGED <<shellStream, down, sent>> /\ cexit = Running
      BY DEF Client, ClientSends, serverVars
    <2>2. cexit' \in {cexit, 1, SegFault, SigPipe}
      BY ClientSendsOutcome
    <2>3. QED
      BY <2>1, <2>2 DEF Running, SigPipe, SegFault
  <1>2. ShellText(display') = ShellText(display)
    <2>1. CASE display' = display
      BY <2>1
    <2>2. CASE display' # display
      <3>1. display' = display \o ShownAll(buffer)
        BY <2>2, ClientSendsOutcome
      <3>2. ShownAll(buffer) \in Seq(Chars) /\ ShellText(ShownAll(buffer)) = <<>>
        BY EchoIsNoText DEF Types, ClientTypes
      <3>3. PICK a \in Seq(Chars), b \in Seq(Chars) : a = display /\ b = ShownAll(buffer)
        BY <3>2, LeftTyped
      <3>4. ShellText(a \o b) = ShellText(a) \o ShellText(b) /\ ShellText(a) \in Seq(Chars)
        BY TextConcat
      <3>5. ShellText(a) \o <<>> = ShellText(a)
        BY <3>4, WithNothing
      <3>6. QED
        BY <3>1, <3>2, <3>3, <3>4, <3>5
    <2>3. QED
      BY <2>1, <2>2
  <1>3. QED
    BY <1>1, <1>2, ShowsSame

\* What inflate() gives to the client was next, unless the stream is broken.
LEMMA LeftReceive ==
  ASSUME Types, ClientReceives, ~shellStream'.broken
  PROVE  /\ ~shellStream.broken
         /\ \E b \in Seq(Chars) : ClientShows(b) /\ Left = b \o Left'
  <1>1. PICK b \in Seq(Chars), t \in Seq(Seq(Chars)), u \in Seq(Seq(Chars)) :
          /\ ClientShows(b) /\ down' = u
          /\ Bytes(down) = Bytes(t) \o Bytes(u)
          /\ shellStream'.pending = shellStream.pending
          /\ ~shellStream.broken
          /\ b \o shellStream'.held = shellStream.held \o Bytes(t)
          /\ shellStream'.held \in Seq(Chars)
    <2>1. PICK b \in Seq(Chars), e \in Streams, t \in Seq(Seq(Chars)), u \in Seq(Seq(Chars)) :
            /\ ClientShows(b) /\ shellStream' = e /\ down' = u
            /\ Bytes(down) = Bytes(t) \o Bytes(u)
            /\ e.pending = shellStream.pending
            /\ shellStream.broken => e = shellStream
            /\ ~e.broken => b \o e.held = shellStream.held \o Bytes(t)
      BY ClientReceivesEffect
    <2>2. e.held \in Seq(Chars)
      BY DEF Streams
    <2>3. QED
      BY <2>1, <2>2
  <1>2. PICK y \in Seq(Chars), p \in Seq(Chars) : y = Bytes(u) /\ p = Bytes(shellStream.pending)
    BY Fields, BytesTyped
  <1>3. PICK z \in Seq(Chars) : z = y \o p
    BY Joined
  <1>4. Left = (shellStream.held \o Bytes(t)) \o z
    <2>1. PICK h \in Seq(Chars), x \in Seq(Chars) : h = shellStream.held /\ x = Bytes(t)
      BY Fields, BytesTyped
    <2>2. Grouping(x, y, p)
      BY Grouped
    <2>3. Grouping(h, x, z)
      BY Grouped
    <2>4. QED
      BY <1>1, <1>2, <1>3, <2>1, <2>2, <2>3 DEF Left, Grouping
  <1>5. (b \o shellStream'.held) \o z = b \o Left'
    <2>1. PICK g \in Seq(Chars) : g = shellStream'.held
      BY <1>1
    <2>2. Grouping(b, g, z)
      BY Grouped
    <2>3. Left' = g \o z
      BY <1>1, <1>2, <1>3, <2>1 DEF Left
    <2>4. QED
      BY <2>1, <2>2, <2>3 DEF Grouping
  <1>6. Left = b \o Left'
    BY <1>1, <1>4, <1>5
  <1>7. QED
    BY <1>1, <1>6

LEMMA ShowsReceive ==
  ASSUME Types, Types', Shows, Client, ClientReceives
  PROVE  Shows'
  <1>1. SUFFICES ASSUME ~shellStream'.broken
                 PROVE  IF cexit' = 0
                        THEN \E x \in Seq(Chars) : ShellText(display') \o x = ShellText(sent')
                        ELSE ShellText(display') \o ShellText(Left') = ShellText(sent')
    BY DEF Shows
  <1>2. PICK b \in Seq(Chars) : ~shellStream.broken /\ ClientShows(b) /\ Left = b \o Left'
    BY <1>1, LeftReceive
  <1>3. PICK s \in Seq(Chars), v \in Seq(Chars) :
          /\ b = s \o v
          /\ display' = display \o s \/ display' = display \o ShownAll(s)
          /\ \/ v = <<>> /\ cexit' = cexit
             \/ cexit' = 0
    <2>1. \E s \in Seq(Chars), v \in Seq(Chars) :
            /\ b = s \o v
            /\ display' = display \o s \/ display' = display \o ShownAll(s)
            /\ \/ v = <<>> /\ cpc' = "poll" /\ UNCHANGED <<terminal, cexit>>
               \/ terminal' = "normal" /\ cexit' = 0 /\ UNCHANGED cpc
      BY <1>2, ClientShowsEffect
    <2>2. QED
      BY <2>1
  <1>4. cexit = Running /\ cexit # 0 /\ sent' = sent
    BY DEF Client, serverVars, Running
  <1>5. PICK d \in Seq(Chars), l \in Seq(Chars) : d = display /\ l = Left'
    <2>1. display \in Seq(Chars)
      BY LeftTyped
    <2>2. Left' \in Seq(Chars)
      BY LeftTypedNext
    <2>3. QED
      BY <2>1, <2>2
  <1>6. ShellText(display') = ShellText(d) \o ShellText(s)
    <2>1. ShellText(d \o s) = ShellText(d) \o ShellText(s)
      BY TextConcat
    <2>2. ShownAll(s) \in Seq(Chars) /\ ShellText(ShownAll(s)) = ShellText(s)
      BY ShownConcat, TextOfShown
    <2>3. ShellText(d \o ShownAll(s)) = ShellText(d) \o ShellText(ShownAll(s))
      BY <2>2, TextConcat
    <2>4. QED
      BY <1>3, <1>5, <2>1, <2>2, <2>3
  <1>7. PICK r \in Seq(Chars) : r = v \o l
    BY Joined
  <1>8. Left = s \o r
    <2>1. Grouping(s, v, l)
      BY Grouped
    <2>2. QED
      BY <1>2, <1>3, <1>5, <1>7, <2>1 DEF Grouping
  <1>9. ShellText(Left) = ShellText(s) \o ShellText(r)
    BY <1>8, TextConcat
  <1>10. (ShellText(d) \o ShellText(s)) \o ShellText(r) = ShellText(d) \o (ShellText(s) \o ShellText(r))
    BY TextGroups
  <1>11. ShellText(d) \o ShellText(Left) = ShellText(sent)
    BY <1>2, <1>4, <1>5 DEF Shows
  <1>12. ShellText(r) \in Seq(Chars)
    BY TextConcat
  <1>13. ShellText(display') \o ShellText(r) = ShellText(sent')
    BY <1>4, <1>6, <1>9, <1>10, <1>11
  <1>14. CASE v = <<>> /\ cexit' = cexit
    <2>1. r = l
      BY <1>7, <1>14, WithNothing
    <2>2. QED
      BY <1>4, <1>5, <1>13, <1>14, <2>1
  <1>15. CASE cexit' = 0
    BY <1>12, <1>13, <1>15
  <1>16. QED
    BY <1>3, <1>14, <1>15

LEMMA ShowsSent ==
  ASSUME Types, Shows, Server
  PROVE  Shows'
  <1>1. UNCHANGED <<display, cexit>>
    BY DEF Server, clientVars
  <1>2. CASE UNCHANGED <<down, shellStream, sent>>
    BY <1>1, <1>2, ShowsSame
  <1>3. CASE ~UNCHANGED <<down, shellStream, sent>>
    <2>1. /\ ~ClientGone /\ shellStream'.broken = shellStream.broken
          /\ shellStream'.held = shellStream.held
      BY <1>3, SendGrows
    <2>2. PICK w \in Seq(Chars) :
            /\ sent' = sent \o w
            /\ \A r \in Seq(Chars) : r \o (Bytes(down') \o Bytes(shellStream'.pending))
                                       = (r \o (Bytes(down) \o Bytes(shellStream.pending))) \o w
      BY <1>3, SendGrows
    <2>3. PICK h \in Seq(Chars) : h = shellStream.held
      BY Fields
    <2>4. Left' = Left \o w
      BY <2>1, <2>2, <2>3 DEF Left
    <2>5. cexit # 0
      BY <2>1 DEF ClientGone, Running
    <2>6. SUFFICES ASSUME ~shellStream.broken
                   PROVE  ShellText(display) \o ShellText(Left') = ShellText(sent')
      BY <1>1, <2>1, <2>5 DEF Shows
    <2>7. ShellText(display) \o ShellText(Left) = ShellText(sent)
      BY <2>5, <2>6 DEF Shows
    <2>8. PICK d \in Seq(Chars), l \in Seq(Chars), s \in Seq(Chars) : d = display /\ l = Left /\ s = sent
      BY LeftTyped
    <2>9. ShellText(l \o w) = ShellText(l) \o ShellText(w)
      BY TextConcat
    <2>10. ShellText(s \o w) = ShellText(s) \o ShellText(w)
      BY TextConcat
    <2>11. (ShellText(d) \o ShellText(l)) \o ShellText(w) = ShellText(d) \o (ShellText(l) \o ShellText(w))
      BY TextGroups
    <2>12. QED
      BY <2>2, <2>4, <2>7, <2>8, <2>9, <2>10, <2>11
  <1>4. QED
    BY <1>2, <1>3

LEMMA ShowsStep ==
  ASSUME Types, Types', Shows, [Next]_vars
  PROVE  Shows'
  <1>1. CASE Client /\ ClientSends
    BY <1>1, ShowsEcho
  <1>2. CASE Client /\ ClientReceives
    BY <1>2, ShowsReceive
  <1>3. CASE Client /\ ~ClientSends /\ ~ClientReceives
    <2>1. UNCHANGED <<shellStream, down, sent, display>>
      BY <1>3 DEF Client, ClientPoll, ClientReadsKeys, ClientReadsSocket, serverVars, netVars
    <2>2. (cexit' = cexit) \/ (cexit # 0 /\ cexit' # 0)
      BY <1>3 DEF Client, ClientPoll, ClientReadsKeys, ClientReadsSocket, Reset, EndStreams, Running, SegFault
    <2>3. QED
      BY <2>1, <2>2, ShowsSame
  <1>4. CASE Server
    BY <1>4, ShowsSent
  <1>5. CASE User \/ UserChoice \/ Shell \/ ShellChoice \/ UNCHANGED vars
    BY <1>5, ShowsSame DEF User, UserChoice, Shell, ShellChoice, vars, clientVars, serverVars, netVars
  <1>6. QED
    BY <1>1, <1>2, <1>3, <1>4, <1>5 DEF Next, Ended
-----------------------------------------------------------------------------
(* How much the server reads at once: as many keys as it has room for. *)

LEMMA PlainAt ==
  ASSUME NEW s \in Seq(Chars), NEW N \in Nat, Len(s) = N
  PROVE  \A i \in 1 .. N : Plain(s)[i] = <<s[i]>>
  <1>1. DOMAIN s = 1 .. N
    BY LenProperties
  <1>2. QED
    BY <1>1 DEF Plain

LEMMA PlainIs ==
  ASSUME NEW s \in Seq(Chars), NEW N \in Nat, Len(s) = N
  PROVE  \E a \in Seq(Seq(Chars)) : a = Plain(s) /\ Len(a) = N /\ \A i \in 1 .. N : a[i] = <<s[i]>>
  <1>1. Plain(s) \in Seq(Seq(Chars))
    BY PlainTyped
  <1>2. Len(Plain(s)) = N
    BY PlainTyped
  <1>3. \A i \in 1 .. N : Plain(s)[i] = <<s[i]>>
    BY PlainAt
  <1>4. QED
    BY <1>1, <1>2, <1>3

LEMMA PlainConcat ==
  ASSUME NEW s \in Seq(Chars), NEW t \in Seq(Chars)
  PROVE  Plain(s) \o Plain(t) = Plain(s \o t)
  <1>1. PICK N \in Nat, M \in Nat : N = Len(s) /\ M = Len(t)
    OBVIOUS
  <1>2. PICK u \in Seq(Chars) : /\ u = s \o t /\ Len(u) = N + M
                                /\ \A i \in 1 .. N + M : u[i] = IF i <= N THEN s[i] ELSE t[i - N]
    <2>1. s \o t \in Seq(Chars)
      BY ConcatProperties
    <2>2. Len(s \o t) = N + M
      BY <1>1, ConcatProperties
    <2>3. \A i \in 1 .. N + M : (s \o t)[i] = IF i <= N THEN s[i] ELSE t[i - N]
      BY <1>1, ConcatProperties
    <2>4. QED
      BY <2>1, <2>2, <2>3
  <1>3. PICK a \in Seq(Seq(Chars)) : a = Plain(s) /\ Len(a) = N /\ \A i \in 1 .. N : a[i] = <<s[i]>>
    BY <1>1, PlainIs
  <1>4. PICK b \in Seq(Seq(Chars)) : b = Plain(t) /\ Len(b) = M /\ \A i \in 1 .. M : b[i] = <<t[i]>>
    BY <1>1, PlainIs
  <1>5. PICK c \in Seq(Seq(Chars)) : c = Plain(u) /\ Len(c) = N + M /\ \A i \in 1 .. N + M : c[i] = <<u[i]>>
    <2>1. N + M \in Nat
      OBVIOUS
    <2>2. QED
      BY <1>2, <2>1, PlainIs
  <1>6. PICK v \in Seq(Seq(Chars)) : /\ v = a \o b /\ Len(v) = N + M
                                     /\ \A i \in 1 .. N + M : v[i] = IF i <= N THEN a[i] ELSE b[i - N]
    <2>1. a \o b \in Seq(Seq(Chars))
      BY ConcatProperties
    <2>2. Len(a \o b) = N + M
      BY <1>3, <1>4, ConcatProperties
    <2>3. Len(a) = N /\ Len(b) = M
      BY <1>3, <1>4
    <2>4. \A i \in 1 .. Len(a) + Len(b) : (a \o b)[i] = IF i <= Len(a) THEN a[i] ELSE b[i - Len(a)]
      BY ConcatProperties
    <2>5. \A i \in 1 .. N + M : (a \o b)[i] = IF i <= N THEN a[i] ELSE b[i - N]
      BY <2>3, <2>4
    <2>6. QED
      BY <2>1, <2>2, <2>5
  <1>7. ASSUME NEW i \in 1 .. N + M
        PROVE  v[i] = c[i]
    <2>1. CASE i <= N
      <3>1. v[i] = a[i] /\ u[i] = s[i] /\ a[i] = <<s[i]>>
        BY <1>2, <1>3, <1>6, <2>1
      <3>2. QED
        BY <1>5, <3>1
    <2>2. CASE ~(i <= N)
      <3>1. i - N \in 1 .. M
        BY <2>2
      <3>2. v[i] = b[i - N] /\ u[i] = t[i - N]
        BY <1>2, <1>6, <2>2
      <3>3. b[i - N] = <<t[i - N]>>
        BY <1>4, <3>1
      <3>4. QED
        BY <1>5, <3>2, <3>3
    <2>3. QED
      BY <2>1, <2>2
  <1>8. v = c
    BY <1>5, <1>6, <1>7, SeqEqual
  <1>9. QED
    BY <1>2, <1>3, <1>4, <1>5, <1>6, <1>8

\* A read of tokens of one byte each.
LEMMA PlainParts ==
  ASSUME NEW x \in Seq(Chars), NEW n \in Nat
  PROVE  /\ \E f \in Seq(Chars) : FirstOf(Plain(x), n) = Plain(f) /\ Len(f) <= n
         /\ \E r \in Seq(Chars) : RestOf(Plain(x), n) = Plain(r)
  <1>1. PICK N \in Nat : N = Len(x) /\ \A i \in 1 .. N : x[i] \in Chars
    BY ElementOfSeq
  <1>2. PICK P \in Seq(Seq(Chars)) : P = Plain(x) /\ Len(P) = N /\ \A i \in 1 .. N : P[i] = <<x[i]>>
    BY <1>1, PlainIs
  <1>3. \A i \in 1 .. N : P[i] \in Seq(Chars)
    BY <1>2, ElementOfSeq
  <1>4. PICK m \in Nat : m = (IF N < n THEN N ELSE n) /\ m <= n /\ m <= N
    OBVIOUS
  <1>5. PICK f \in Seq(Chars) : f = SubSeq(x, 1, m) /\ Len(f) = m /\ \A i \in 1 .. m : f[i] = x[i]
    <2>1. \A i \in 1 .. m : x[i] \in Chars
      BY <1>1, <1>4
    <2>2. /\ SubSeq(x, 1, m) \in Seq(Chars) /\ Len(SubSeq(x, 1, m)) = m
          /\ \A i \in 1 .. m : SubSeq(x, 1, m)[i] = x[i]
      BY <2>1, SubSeqProperties
    <2>3. QED
      BY <2>2
  <1>6. PICK g \in Seq(Seq(Chars)) : g = SubSeq(P, 1, m) /\ Len(g) = m /\ \A i \in 1 .. m : g[i] = P[i]
    <2>1. \A i \in 1 .. m : P[i] \in Seq(Chars)
      BY <1>3, <1>4
    <2>2. /\ SubSeq(P, 1, m) \in Seq(Seq(Chars)) /\ Len(SubSeq(P, 1, m)) = m
          /\ \A i \in 1 .. m : SubSeq(P, 1, m)[i] = P[i]
      BY <2>1, SubSeqProperties
    <2>3. QED
      BY <2>2
  <1>7. g = Plain(f)
    <2>1. PICK h \in Seq(Seq(Chars)) : h = Plain(f) /\ Len(h) = m /\ \A i \in 1 .. m : h[i] = <<f[i]>>
      BY <1>5, PlainIs
    <2>2. ASSUME NEW i \in 1 .. m
          PROVE  g[i] = h[i]
      <3>1. i \in 1 .. N
        BY <1>4
      <3>2. P[i] = <<x[i]>>
        BY <1>2, <3>1
      <3>3. g[i] = P[i] /\ f[i] = x[i] /\ h[i] = <<f[i]>>
        BY <1>5, <1>6, <2>1
      <3>4. QED
        BY <3>2, <3>3
    <2>3. QED
      BY <1>6, <2>1, <2>2, SeqEqual
  <1>8. FirstOf(Plain(x), n) = Plain(f)
    BY <1>2, <1>4, <1>6, <1>7 DEF FirstOf
  <1>9. RestOf(Plain(x), n) = SubSeq(P, n + 1, N)
    BY <1>2 DEF RestOf
  <1>10. CASE N <= n
    <2>1. SubSeq(P, n + 1, N) = <<>>
      BY <1>10, SubSeqEmpty
    <2>2. Plain(<<>>) = <<>> /\ <<>> \in Seq(Chars)
      BY EmptySeq DEF Plain
    <2>3. QED
      BY <1>4, <1>5, <1>8, <1>9, <2>1, <2>2
  <1>11. CASE n < N
    <2>1. PICK k \in Nat : k = N - n
      BY <1>11
    <2>2. PICK r \in Seq(Chars) : Len(r) = k /\ \A i \in 1 .. k : r[i] = x[n + i]
      <3>1. \A i \in n + 1 .. N : x[i] \in Chars
        BY <1>1
      <3>2. PICK m1 \in Int : m1 = n + 1 /\ m1 <= N /\ N - m1 + 1 = k /\ \A i \in 1 .. k : m1 + i - 1 = n + i
        BY <1>11, <2>1
      <3>3. /\ SubSeq(x, m1, N) \in Seq(Chars) /\ Len(SubSeq(x, m1, N)) = IF m1 <= N THEN N - m1 + 1 ELSE 0
            /\ \A i \in 1 .. N - m1 + 1 : SubSeq(x, m1, N)[i] = x[m1 + i - 1]
        BY <3>1, <3>2, SubSeqProperties
      <3>4. \A i \in 1 .. k : SubSeq(x, m1, N)[i] = x[n + i]
        BY <3>2, <3>3
      <3>5. QED
        BY <3>2, <3>3, <3>4
    <2>3. PICK g2 \in Seq(Seq(Chars)) : g2 = SubSeq(P, n + 1, N) /\ Len(g2) = k /\ \A i \in 1 .. k : g2[i] = P[n + i]
      <3>1. \A i \in n + 1 .. N : P[i] \in Seq(Chars)
        BY <1>3
      <3>2. PICK m1 \in Int : m1 = n + 1 /\ m1 <= N /\ N - m1 + 1 = k /\ \A i \in 1 .. k : m1 + i - 1 = n + i
        BY <1>11, <2>1
      <3>3. /\ SubSeq(P, m1, N) \in Seq(Seq(Chars)) /\ Len(SubSeq(P, m1, N)) = IF m1 <= N THEN N - m1 + 1 ELSE 0
            /\ \A i \in 1 .. N - m1 + 1 : SubSeq(P, m1, N)[i] = P[m1 + i - 1]
        BY <3>1, <3>2, SubSeqProperties
      <3>4. \A i \in 1 .. k : SubSeq(P, m1, N)[i] = P[n + i]
        BY <3>2, <3>3
      <3>5. QED
        BY <3>2, <3>3, <3>4
    <2>4. PICK h \in Seq(Seq(Chars)) : h = Plain(r) /\ Len(h) = k /\ \A i \in 1 .. k : h[i] = <<r[i]>>
      BY <2>2, PlainIs
    <2>5. ASSUME NEW i \in 1 .. k
          PROVE  g2[i] = h[i]
      <3>1. n + i \in 1 .. N
        BY <2>1
      <3>2. P[n + i] = <<x[n + i]>>
        BY <1>2, <3>1
      <3>3. g2[i] = P[n + i] /\ r[i] = x[n + i] /\ h[i] = <<r[i]>>
        BY <2>2, <2>3, <2>4
      <3>4. QED
        BY <3>2, <3>3
    <2>6. g2 = h
      BY <2>3, <2>4, <2>5, SeqEqual
    <2>7. QED
      BY <1>4, <1>5, <1>8, <1>9, <2>3, <2>4, <2>6
  <1>12. QED
    BY <1>10, <1>11

\* Without --compress a byte is a token.
Uncompressed ==
  ~compress =>
    /\ \E x \in Seq(Chars) : up = Plain(x)
    /\ keyStream.held = <<>> /\ keyStream.pending = <<>> /\ ~keyStream.broken

Fits == Len(inputbuff) <= DecompSize

\* What is not typed yet comes behind what has been typed.
Typing == \E a \in Seq(Keys) : a \o untyped = typed

LEMMA UncompressedStep ==
  ASSUME Types, Uncompressed, [Next]_vars
  PROVE  Uncompressed'
  <1>1. CASE UNCHANGED <<compress, up, keyStream>>
    BY <1>1 DEF Uncompressed
  <1>2. CASE Client /\ ClientSends
    <2>1. SUFFICES ASSUME ~compress
                   PROVE  /\ \E x \in Seq(Chars) : up' = Plain(x)
                          /\ keyStream'.held = <<>> /\ keyStream'.pending = <<>> /\ ~keyStream'.broken
      BY <1>2 DEF Uncompressed, ClientSends, userVars
    <2>2. PICK x \in Seq(Chars) : up = Plain(x)
      BY <2>1 DEF Uncompressed
    <2>3. keyStream.held = <<>> /\ keyStream.pending = <<>> /\ ~keyStream.broken
      BY <2>1 DEF Uncompressed
    <2>4. PICK o \in Seq(Seq(Chars)) :
            /\ keyStream'.held = keyStream.held /\ keyStream'.broken = keyStream.broken
            /\ up' = IF ServerGone THEN up ELSE up \o o
            /\ o = Plain(buffer) /\ keyStream'.pending = <<>>
      BY <1>2, <2>1, <2>3, ClientSendsEffect
    <2>5. buffer \in Seq(Chars)
      BY KeysAreChars DEF Types, ClientTypes
    <2>6. Plain(x) \o Plain(buffer) = Plain(x \o buffer) /\ x \o buffer \in Seq(Chars)
      BY <2>5, PlainConcat, Joined
    <2>7. QED
      BY <2>2, <2>3, <2>4, <2>6
  <1>3. CASE Client /\ ~ClientSends
    BY <1>1, <1>3 DEF Client, ClientPoll, ClientReadsKeys, ClientReadsSocket, userVars, netVars
  <1>4. CASE Server
    <2>1. compress' = compress
      BY <1>4 DEF Server, userVars
    <2>2. CASE ServerReceives
      <3>1. SUFFICES ASSUME ~compress
                     PROVE  /\ \E x \in Seq(Chars) : up' = Plain(x)
                            /\ keyStream'.held = <<>> /\ keyStream'.pending = <<>> /\ ~keyStream'.broken
        BY <2>1 DEF Uncompressed
      <3>2. keyStream.held = <<>> /\ keyStream.pending = <<>> /\ ~keyStream.broken
        BY <3>1 DEF Uncompressed
      <3>3. PICK x \in Seq(Chars) : up = Plain(x)
        BY <3>1 DEF Uncompressed
      <3>4. PICK e \in Streams :
              /\ keyStream' = e /\ up' = RestOf(up, BuffSize)
              /\ e.pending = keyStream.pending
              /\ ~compress /\ ~keyStream.broken => ~e.broken /\ e.held = <<>>
        BY <2>2, ServerReceivesEffect
      <3>5. PICK r \in Seq(Chars) : RestOf(Plain(x), BuffSize) = Plain(r)
        BY PlainParts, Sizes
      <3>6. QED
        BY <3>1, <3>2, <3>3, <3>4, <3>5
    <2>3. CASE UNCHANGED <<up, keyStream>>
      BY <1>1, <2>1, <2>3
    <2>4. QED
      BY <1>4, <2>2, <2>3, ServerKeysEffect
  <1>5. CASE User \/ UserChoice \/ Shell \/ ShellChoice \/ UNCHANGED vars
    BY <1>1, <1>5 DEF User, UserChoice, TypeKey, HangUp, Shell, ShellChoice, vars, userVars, netVars
  <1>6. QED
    BY <1>2, <1>3, <1>4, <1>5 DEF Next, Ended

LEMMA FitsStep ==
  ASSUME Types, Uncompressed, Fits, [Next]_vars
  PROVE  Fits'
  <1>1. CASE UNCHANGED inputbuff
    BY <1>1 DEF Fits
  <1>2. CASE ServerReceives
    <2>1. PICK b \in Seq(Chars) :
            /\ inputbuff' = b
            /\ Len(b) <= DecompSize \/ (~compress /\ b = keyStream.held \o Bytes(FirstOf(up, BuffSize)))
      BY <1>2, ServerReceivesEffect
    <2>2. CASE Len(b) <= DecompSize
      BY <2>1, <2>2 DEF Fits
    <2>3. CASE ~compress /\ b = keyStream.held \o Bytes(FirstOf(up, BuffSize))
      <3>1. PICK x \in Seq(Chars) : up = Plain(x) /\ keyStream.held = <<>>
        BY <2>3 DEF Uncompressed
      <3>2. PICK f \in Seq(Chars) : FirstOf(Plain(x), BuffSize) = Plain(f) /\ Len(f) <= BuffSize
        BY PlainParts, Sizes
      <3>3. Bytes(Plain(f)) = f /\ <<>> \o f = f
        BY BytesOfPlain, WithNothing
      <3>4. Len(b) <= BuffSize /\ Len(b) \in Nat
        BY <2>3, <3>1, <3>2, <3>3
      <3>5. QED
        BY <2>1, <3>4, Sizes DEF Fits
    <2>4. QED
      BY <2>1, <2>2, <2>3
  <1>3. CASE ServerForwards
    <2>1. inputbuff' = inputbuff \/ (inputbuff' = Tail(inputbuff) /\ inputbuff # <<>>)
      BY <1>3 DEF ServerForwards
    <2>2. CASE inputbuff' = Tail(inputbuff) /\ inputbuff # <<>>
      <3>1. Len(Tail(inputbuff)) = Len(inputbuff) - 1 /\ Len(inputbuff) \in Nat
        BY <2>2, HeadFirst DEF Types, ServerTypes
      <3>2. QED
        BY <2>2, <3>1, Sizes DEF Fits
    <2>3. QED
      BY <1>1, <2>1, <2>2
  <1>4. CASE Server /\ ~ServerReceives /\ ~ServerForwards
    BY <1>1, <1>4 DEF Server, ServerPoll, ServerReadsSocket, ServerInterrupts, ServerEof,
                      ServerReadsShell, ServerSends, ServerHangup
  <1>5. CASE Client \/ User \/ UserChoice \/ Shell \/ ShellChoice \/ UNCHANGED vars
    BY <1>1, <1>5 DEF Client, User, UserChoice, Shell, ShellChoice, vars, serverVars
  <1>6. QED
    BY <1>2, <1>3, <1>4, <1>5 DEF Next, Ended

LEMMA TypingStep ==
  ASSUME Types, Typing, [Next]_vars
  PROVE  Typing'
  <1>1. CASE UNCHANGED <<typed, untyped>>
    BY <1>1 DEF Typing
  <1>2. CASE User
    <2>1. untyped # <<>> /\ untyped' = Tail(untyped) /\ typed' = typed
      BY <1>2 DEF User, TypeKey
    <2>2. PICK a \in Seq(Keys) : a \o untyped = typed
      BY DEF Typing
    <2>3. Head(untyped) \in Keys
      BY <2>1, HeadFirst DEF Types, UserTypes
    <2>4. Append(a, Head(untyped)) \in Seq(Keys)
      BY <2>3
    <2>5. Append(a, Head(untyped)) \o Tail(untyped) = a \o untyped
      BY <2>1, MoveHead DEF Types, UserTypes
    <2>6. QED
      BY <2>1, <2>2, <2>4, <2>5 DEF Typing
  <1>3. CASE Client \/ Server \/ UserChoice \/ Shell \/ ShellChoice \/ UNCHANGED vars
    BY <1>1, <1>3 DEF Client, ClientPoll, ClientReadsKeys, ClientSends, ClientReadsSocket, Server,
                      UserChoice, HangUp, Shell, ShellChoice, vars, userVars
  <1>4. QED
    BY <1>2, <1>3 DEF Next, Ended

-----------------------------------------------------------------------------
(* The inductive invariant. *)

IInv ==
  /\ Types /\ Loop /\ Answers /\ Ends
  /\ LogReceived /\ LogSent /\ KeyBursts /\ ShellBursts
  /\ Reaches /\ Shows
  /\ Uncompressed /\ Fits /\ Typing

LEMMA InitTypes ==
  ASSUME Init
  PROVE  Types
  <1>1. <<>> \in Seq(Chars) /\ <<>> \in Seq(Keys) /\ <<>> \in Seq(ShellBytes) /\ Len(<<>>) = 0
        /\ <<>> \in Seq(Statuses) /\ <<>> \in Seq(Seq(Chars))
    BY EmptySeq
  <1>2. UserTypes
    BY <1>1, KeysAssumption DEF Init, UserTypes
  <1>3. ClientTypes
    <2>1. [sent |-> <<>>, received |-> <<>>] \in [sent : Seq(Chars), received : Seq(Chars)]
      BY <1>1
    <2>2. [key |-> FALSE, sock |-> FALSE] \in [key : BOOLEAN, sock : BOOLEAN]
      OBVIOUS
    <2>3. QED
      BY <1>1, <2>1, <2>2, Sizes DEF Init, ClientInit, ClientTypes
  <1>4. ServerTypes
    <2>1. [sock |-> FALSE, shell |-> FALSE, hup |-> FALSE] \in [sock : BOOLEAN, shell : BOOLEAN, hup : BOOLEAN]
      OBVIOUS
    <2>2. QED
      BY <1>1, <2>1, Sizes DEF Init, ServerInit, ServerTypes
  <1>5. NetTypes
    <2>1. NewStream \in Streams
      BY <1>1 DEF NewStream, Streams
    <2>2. QED
      BY <1>1, <2>1 DEF Init, NetTypes
  <1>6. ShellTypes
    BY <1>1, Sizes DEF Init, ServerInit, ShellInit, ShellTypes, ShellTypeOK, Statuses
  <1>7. QED
    BY <1>2, <1>3, <1>4, <1>5, <1>6 DEF Types

LEMMA InitIInv ==
  ASSUME Init
  PROVE  IInv
  <1>1. Types
    BY InitTypes
  <1>2. <<>> \in Seq(Chars) /\ <<>> \o <<>> = <<>> /\ Len(<<>>) = 0
    BY EmptySeq, WithNothing
  <1>3. Bytes(<<>>) = <<>>
    BY FlattenEmpty DEF Bytes
  <1>4. /\ keyStream.held = <<>> /\ keyStream.pending = <<>> /\ ~keyStream.broken
        /\ shellStream.held = <<>> /\ shellStream.pending = <<>> /\ ~shellStream.broken
    BY DEF Init, NewStream
  <1>5. /\ up = <<>> /\ down = <<>> /\ keys = <<>> /\ untyped = typed
        /\ logged.sent = <<>> /\ logged.received = <<>> /\ sent = <<>> /\ display = <<>>
        /\ cpc = "poll" /\ spc = "poll" /\ inputbuff = <<>> /\ outputbuff = <<>>
        /\ ~ClientGone /\ ~ServerGone /\ cexit = Running
        /\ received = <<>> /\ toShell = <<>>
    BY DEF Init, ClientInit, ServerInit, ShellInit, ClientGone, ServerGone
  <1>6. Loop /\ Answers /\ Ends
    BY <1>5 DEF Loop, Answers, Ends
  <1>7. LogReceived
    BY <1>2, <1>3, <1>4, <1>5 DEF LogReceived
  <1>8. LogSent
    <2>1. typed \in Seq(Chars)
      BY <1>1, Fields
    <2>2. <<>> \o typed = typed
      BY <2>1, WithNothing
    <2>3. InClient = <<>>
      BY <1>5 DEF InClient
    <2>4. QED
      BY <1>2, <1>3, <1>4, <1>5, <2>2, <2>3 DEF LogSent
  <1>9. KeyBursts /\ ShellBursts
    BY <1>2, <1>3, <1>4, <1>5 DEF KeyBursts, ShellBursts
  <1>10. Reaches
    BY <1>2, <1>3, <1>4, <1>5, SentByNone DEF Reaches, OnWay
  <1>11. Shows
    BY <1>2, <1>3, <1>4, <1>5, TextNone DEF Shows, Left, Running
  <1>12. Uncompressed /\ Fits
    <2>1. <<>> \in Seq(Chars) /\ Plain(<<>>) = <<>>
      BY EmptySeq DEF Plain
    <2>2. \E x \in Seq(Chars) : up = Plain(x)
      BY <1>5, <2>1
    <2>3. Uncompressed
      BY <1>2, <1>4, <1>5, <2>2 DEF Uncompressed
    <2>4. Fits
      BY <1>2, <1>4, <1>5, Sizes DEF Fits
    <2>5. QED
      BY <2>3, <2>4
  <1>13. Typing
    <2>1. typed \in Seq(Keys) /\ <<>> \in Seq(Keys)
      BY <1>1, CompressIsBoolean, EmptySeq DEF Types
    <2>2. <<>> \o typed = typed
      BY <2>1, WithNothing
    <2>3. QED
      BY <1>5, <2>1, <2>2 DEF Typing
  <1>14. QED
    BY <1>1, <1>6, <1>7, <1>8, <1>9, <1>10, <1>11, <1>12, <1>13 DEF IInv

LEMMA StepIInv ==
  ASSUME IInv, [Next]_vars
  PROVE  IInv'
  <1>1. Types /\ Loop /\ Answers /\ Ends /\ LogReceived /\ LogSent /\ KeyBursts /\ ShellBursts /\ Reaches /\ Shows
        /\ Uncompressed /\ Fits /\ Typing
    BY DEF IInv
  <1>2. Types'
    BY <1>1, TypesStep
  <1>3. Loop' /\ Answers' /\ Ends'
    BY <1>1, LoopStep, AnswersStep, EndsStep
  <1>4. LogReceived' /\ LogSent'
    BY <1>1, <1>2, LogReceivedStep, LogSentStep
  <1>5. KeyBursts' /\ ShellBursts'
    BY <1>1, KeyBurstsStep, ShellBurstsStep
  <1>6. Reaches' /\ Shows'
    BY <1>1, <1>2, ReachesStep, ShowsStep
  <1>7. Uncompressed' /\ Fits' /\ Typing'
    BY <1>1, UncompressedStep, FitsStep, TypingStep
  <1>8. QED
    BY <1>2, <1>3, <1>4, <1>5, <1>6, <1>7 DEF IInv

\* In every state of lab1b-client.c and lab1b-server.c each byte that was typed or
\* written is in exactly one place: the equations that the theorems below read off.
THEOREM SessionIsAccountedFor == Spec => []IInv
  <1>1. Init => IInv
    BY InitIInv
  <1>2. IInv /\ [Next]_vars => IInv'
    BY StepIInv
  <1>3. QED
    BY <1>1, <1>2, PTL DEF Spec

-----------------------------------------------------------------------------
(* What it shows. *)

LEMMA LogIsTrue ==
  ASSUME IInv
  PROVE  LogMatchesTraffic
  <1>1. Types /\ LogReceived /\ LogSent
    BY DEF IInv
  <1>2. logged.received \o Bytes(down \o shellStream.pending) = sent
    <2>1. shellStream.pending \in Seq(Seq(Chars)) /\ down \in Seq(Seq(Chars))
      BY <1>1 DEF Types, NetTypes, Streams
    <2>2. Bytes(down \o shellStream.pending) = Bytes(down) \o Bytes(shellStream.pending)
      BY <2>1, BytesConcat
    <2>3. QED
      BY <1>1, <2>2 DEF LogReceived
  <1>3. PICK v \in Seq(Chars) : v = logged.sent \o Bytes(keyStream.pending)
    BY <1>1, Fields, Joined
  <1>4. IsPrefix(v, typed)
    <2>1. PICK q \in Seq(Chars) : v \o q = typed
      <3>1. InClient \o (keys \o untyped) \in Seq(Chars)
        BY <1>1, Fields, Joined
      <3>2. QED
        BY <1>1, <1>3, <3>1 DEF LogSent
    <2>2. IsPrefix(v, v \o q)
      BY PrefixOfConcat
    <2>3. QED
      BY <2>1, <2>2
  <1>5. ASSUME ~ClientGone
        PROVE  ((v \o InClient) \o keys) \o untyped = typed
    <2>1. PICK c \in Seq(Chars), k \in Seq(Chars), u \in Seq(Chars) : c = InClient /\ k = keys /\ u = untyped
      BY <1>1, Fields, KeysAreChars DEF Types, UserTypes
    <2>2. PICK w \in Seq(Chars) : w = v \o c
      BY Joined
    <2>3. Grouping(w, k, u)
      BY Grouped
    <2>4. PICK z \in Seq(Chars) : z = k \o u
      BY Joined
    <2>5. Grouping(v, c, z)
      BY Grouped
    <2>6. v \o (c \o z) = typed
      BY <1>1, <1>3, <1>5, <2>1, <2>4 DEF LogSent
    <2>7. QED
      BY <2>1, <2>2, <2>3, <2>4, <2>5, <2>6 DEF Grouping
  <1>6. QED
    BY <1>2, <1>3, <1>4, <1>5 DEF LogMatchesTraffic, InClient

Regrouping(p, w, q, c, k, u) ==
  p \o ((((w \o q) \o c) \o k) \o u) = ((p \o w) \o q) \o (c \o (k \o u))

LEMMA Regrouped ==
  ASSUME NEW p \in Seq(Chars), NEW w \in Seq(Chars), NEW q \in Seq(Chars),
         NEW c \in Seq(Chars), NEW k \in Seq(Chars), NEW u \in Seq(Chars)
  PROVE  Regrouping(p, w, q, c, k, u)
  <1>1. PICK a \in Seq(Chars), b \in Seq(Chars) : a = w \o q /\ b = k \o u
    BY Joined
  <1>2. PICK e \in Seq(Chars), f \in Seq(Chars) : e = c \o b /\ f = a \o c
    BY Joined
  <1>3. Grouping(p, w, q) /\ Grouping(f, k, u) /\ Grouping(a, c, b) /\ Grouping(p, a, e)
    BY Grouped
  <1>4. (p \o w) \o q = p \o a
    BY <1>1, <1>3 DEF Grouping
  <1>5. ((a \o c) \o k) \o u = a \o e
    BY <1>1, <1>2, <1>3 DEF Grouping
  <1>6. (p \o a) \o e = p \o (a \o e)
    BY <1>3 DEF Grouping
  <1>7. QED
    BY <1>1, <1>2, <1>4, <1>5, <1>6 DEF Regrouping

LEMMA FiveJoined ==
  ASSUME NEW w \in Seq(Chars), NEW q \in Seq(Chars),
         NEW c \in Seq(Chars), NEW k \in Seq(Chars), NEW u \in Seq(Chars)
  PROVE  (((w \o q) \o c) \o k) \o u \in Seq(Chars)
  BY Joined

LEMMA KeysArrive ==
  ASSUME IInv
  PROVE  KeysReachShell
  <1>1. Types /\ LogSent /\ KeyBursts /\ Reaches
    BY DEF IInv
  <1>2. CASE keyStream.broken
    BY <1>1, <1>2 DEF KeyBursts, KeysReachShell
  <1>3. CASE ~keyStream.broken /\ (ServerGone \/ ClientGone)
    <2>1. PICK a \in Seq(Chars) : a = received \o toShell
      BY <1>1, OnWayTyped
    <2>2. PICK x \in Seq(Chars) : a \o x = SentBy(typed)
      <3>1. CASE ServerGone
        BY <1>1, <1>3, <2>1, <3>1 DEF Reaches
      <3>2. CASE ~ServerGone
        <4>1. PICK p \in Seq(Chars) : p \o OnWay = logged.sent /\ received \o toShell = SentBy(p)
          BY <1>1, <1>3, <3>2 DEF Reaches
        <4>2. QED
          BY <1>1, <2>1, <4>1, SentIsPrefix
      <3>3. QED
        BY <3>1, <3>2
    <2>3. IsPrefix(a, a \o x)
      BY PrefixOfConcat
    <2>4. IsPrefix(received \o toShell, SentBy(typed))
      BY <2>1, <2>2, <2>3
    <2>5. QED
      BY <1>3, <2>4 DEF KeysReachShell
  <1>4. CASE ~keyStream.broken /\ ~ServerGone /\ ~ClientGone
    <2>1. PICK p \in Seq(Chars) : p \o OnWay = logged.sent /\ received \o toShell = SentBy(p)
      BY <1>1, <1>4 DEF Reaches
    <2>2. PICK i \in Seq(Chars), c \in Seq(Chars), k \in Seq(Chars), u \in Seq(Chars) :
            i = inputbuff /\ c = InClient /\ k = keys /\ u = untyped
      BY <1>1, Fields, OnWayTyped, KeysAreChars DEF Types, UserTypes
    <2>3. PICK n \in Seq(Chars) : n = keyStream.held \o Bytes(up \o keyStream.pending)
                                   /\ OnWay \o Bytes(keyStream.pending) = i \o n
      <3>1. keyStream.pending \in Seq(Seq(Chars)) /\ up \in Seq(Seq(Chars))
        BY <1>1 DEF Types, NetTypes, Streams
      <3>2. Bytes(up \o keyStream.pending) = Bytes(up) \o Bytes(keyStream.pending)
        BY <3>1, BytesConcat
      <3>3. keyStream.held \o (Bytes(up) \o Bytes(keyStream.pending)) \in Seq(Chars)
        BY <1>1, Fields, Joined
      <3>4. PICK q \in Seq(Chars) : q = Bytes(keyStream.pending)
        BY <1>1, Fields
      <3>5. OnWay \o q = inputbuff \o (keyStream.held \o (Bytes(up) \o q))
        BY <1>1, OnWayGrows, Zenon
      <3>6. QED
        BY <2>2, <3>2, <3>3, <3>4, <3>5
    <2>4. PICK rest \in Seq(Chars) : rest = (((i \o n) \o c) \o k) \o u /\ p \o rest = typed
      <3>1. PICK w \in Seq(Chars), q \in Seq(Chars) : w = OnWay /\ q = Bytes(keyStream.pending)
        BY <1>1, OnWayTyped, Fields
      <3>2. ((p \o w) \o q) \o (c \o (k \o u)) = typed
        BY <1>1, <1>4, <2>1, <2>2, <3>1 DEF LogSent
      <3>3. p \o ((((w \o q) \o c) \o k) \o u) = ((p \o w) \o q) \o (c \o (k \o u))
        <4>1. Regrouping(p, w, q, c, k, u)
          BY Regrouped
        <4>2. QED
          BY <4>1 DEF Regrouping
      <3>4. (((w \o q) \o c) \o k) \o u \in Seq(Chars)
        BY FiveJoined
      <3>5. QED
        BY <2>3, <3>1, <3>2, <3>3, <3>4
    <2>5. SentBy(p \o rest) = SentBy(p) \o SentBy(rest)
      BY SentByConcat
    <2>6. (received \o toShell) \o SentBy((((i \o n) \o c) \o k) \o u) = SentBy(typed)
      BY <2>1, <2>4, <2>5
    <2>7. QED
      BY <1>4, <2>2, <2>3, <2>6 DEF KeysReachShell, InClient
  <1>5. QED
    BY <1>2, <1>3, <1>4

LEMMA SentShows ==
  ASSUME IInv
  PROVE  AllSentIsShown
  <1>1. Types /\ Ends /\ ShellBursts /\ Shows
    BY DEF IInv
  <1>2. CASE shellStream.broken
    BY <1>1, <1>2 DEF ShellBursts, AllSentIsShown
  <1>3. CASE ~shellStream.broken /\ cexit = 0
    <2>1. PICK x \in Seq(Chars) : ShellText(display) \o x = ShellText(sent)
      BY <1>1, <1>3 DEF Shows
    <2>2. PICK d \in Seq(Chars), a \in Seq(Chars) : d = display /\ a = ShellText(d)
      BY <1>1, LeftTyped, TextConcat
    <2>3. IsPrefix(a, a \o x)
      BY PrefixOfConcat
    <2>4. IsPrefix(ShellText(display), ShellText(sent))
      BY <2>1, <2>2, <2>3
    <2>5. QED
      BY <1>3, <2>4 DEF AllSentIsShown
  <1>4. CASE ~shellStream.broken /\ cexit # 0
    <2>1. shellStream.pending \in Seq(Seq(Chars)) /\ down \in Seq(Seq(Chars))
      BY <1>1 DEF Types, NetTypes, Streams
    <2>2. Bytes(down \o shellStream.pending) = Bytes(down) \o Bytes(shellStream.pending)
      BY <2>1, BytesConcat
    <2>3. PICK d \in Seq(Chars), h \in Seq(Chars), v \in Seq(Chars) :
            d = display /\ h = shellStream.held /\ v = Bytes(down) \o Bytes(shellStream.pending)
      BY <1>1, LeftTyped, Fields, Joined
    <2>4. PICK l \in Seq(Chars) : l = h \o v
      BY Joined
    <2>5. (d \o h) \o v = d \o l
      BY <2>4, Associative
    <2>6. ShellText(d \o l) = ShellText(d) \o ShellText(l)
      BY TextConcat
    <2>7. ShellText(d) \o ShellText(l) = ShellText(sent)
      BY <1>1, <1>4, <2>3, <2>4 DEF Shows, Left
    <2>8. ShellText((display \o shellStream.held) \o Bytes(down \o shellStream.pending)) = ShellText(sent)
      BY <2>2, <2>3, <2>5, <2>6, <2>7
    <2>9. ClientGone /\ ~hungup => ServerGone /\ (down = <<>> \/ cpc = "send")
      BY <1>1, <1>4 DEF Ends
    <2>10. QED
      BY <1>4, <2>8, <2>9 DEF AllSentIsShown
  <1>5. QED
    BY <1>2, <1>3, <1>4

LEMMA TypesAreRight ==
  ASSUME IInv
  PROVE  TypeOK
  <1>1. Types /\ Loop /\ Fits /\ Typing
    BY DEF IInv
  <1>2. IsSuffix(untyped, typed)
    <2>1. PICK a \in Seq(Keys), u \in Seq(Keys) : u = untyped /\ a \o u = typed
      BY <1>1 DEF Typing, Types, UserTypes
    <2>2. IsSuffix(u, a \o u)
      BY SuffixOfConcat
    <2>3. QED
      BY <2>1, <2>2
  <1>3. ToSet(reports) \subseteq Statuses
    <2>1. reports \in Seq(Statuses)
      BY <1>1 DEF Types, ServerTypes
    <2>2. \A n \in DOMAIN reports : reports[n] \in Statuses
      BY <2>1, LenProperties, ElementOfSeq
    <2>3. QED
      BY <2>2 DEF ToSet
  <1>4. compress \in Compress /\ typed \in Typed
    BY <1>1 DEF Types, UserTypes
  <1>5. /\ Len(buffer) <= BuffSize /\ terminal \in {"raw", "normal"}
        /\ cpc \in {"poll", "keyboard", "send", "sock"}
        /\ cexit \in {Running, 0, 1, SigPipe, SegFault}
    BY <1>1 DEF Types, ClientTypes
  <1>6. /\ outputbuff \in Seq(ShellBytes) /\ Len(outputbuff) <= BuffSize
        /\ spc \in {"poll", "sock", "bytes", "send"}
        /\ sexit \in {Running, 0, 1, SigPipe, SegFault}
    BY <1>1 DEF Types, ServerTypes
  <1>7. reset \subseteq {"client", "server"}
    BY <1>1 DEF Types, NetTypes
  <1>8. ShellTypeOK
    BY <1>1 DEF Types, ShellTypes
  <1>9. QED
    BY <1>1, <1>2, <1>3, <1>4, <1>5, <1>6, <1>7, <1>8 DEF TypeOK, Loop, Fits

\* Type correctness; the 500 bytes of decomp_buff, lab1b-server.c:258, are never
\* exceeded, and the server reads nothing before it has dealt with what it read.
THEOREM TypesCorrect == Spec => []TypeOK
  BY SessionIsAccountedFor, TypesAreRight, PTL

\* What the client's log says, lab1b-client.c:227, 246 and 292, is what went through
\* the connection: all that the server has sent but what is on its way, and of
\* what was typed, in order, but what the client has not come to.
THEOREM LogMatchesTrafficAlways == Spec => []LogMatchesTraffic
  BY SessionIsAccountedFor, LogIsTrue, PTL

\* What the shell has read and will read from its pipe is what was typed, in order
\* and once, as long as no burst of more than the room of inflate() has broken the
\* stream; nothing is lost before one of the programs ends.
THEOREM KeysReachShellAlways == Spec => []KeysReachShell
  BY SessionIsAccountedFor, KeysArrive, PTL

\* The terminal shows what the server has sent, in order, with the same exception;
\* unless the terminal went away or an EOT came, the client ends only when the
\* server has, and then with all of it read, or at a send() to the server that has
\* gone, lab1b-client.c:233 and 251.
THEOREM AllSentIsShownAlways == Spec => []AllSentIsShown
  BY SessionIsAccountedFor, SentShows, PTL
=============================================================================
