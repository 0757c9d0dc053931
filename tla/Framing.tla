------------------------------ MODULE Framing ------------------------------
(***************************************************************************)
(* net-filter/json-rpc/json-msg.go: a message channel over a stream of     *)
(* bytes.  WriteCtx puts the length before the json, "%d,", and writes it  *)
(* in segments under writeMutex; at the other end ReadCtx cuts the stream  *)
(* up again with a bufio.Scanner whose split function is SplitJson.        *)
(*                                                                         *)
(* A byte is a digit or the comma of a header, or one of message m's json. *)
(* A message is known by the length of its json; json that is not one      *)
(* whole message is rejected by Unmarshal.  A connection delivers a prefix *)
(* of what was written, in pieces of any size.  As its callers in          *)
(* json-rpc-server.go and json-rpc-cli.go do, the reader stops at the first*)
(* error; callers of ReadCtx take turns by readMutex and count as one.     *)
(***************************************************************************)
EXTENDS Naturals, Sequences, Enumeration

CONSTANTS
  Writers,      \* goroutines that call WriteCtx
  NoWriter,     \* writeMutex is free
  Lengths,      \* bound: the lengths of the messages, 0 for one ToBin cannot encode
  MaxMessages,  \* bound: calls of WriteCtx
  Radix,        \* of the digits of a length: 10
  SegmentSize,  \* 1024
  MaxHeader,    \* bytes without a header that SplitJson accepts: 10
  MaxLen,       \* the length that SplitJson accepts: 2 MB
  MaxToken      \* bufio.MaxScanTokenSize, the scanner's buffer: 64 KB

\* The bytes of a message.
Byte(type, value) == [type |-> type, value |-> value]
Digits[n \in Nat] ==
  IF n < Radix THEN <<Byte("digit", n)>>
  ELSE Append(Digits[n \div Radix], Byte("digit", n % Radix))
Bin == [m \in 1 .. MaxMessages |->
          [length \in Lengths |->
             Digits[length] \o <<Byte("comma", 0)>>
               \o [i \in 1 .. length |-> Byte("json", m)]]]

\* Of the limits: 2 MB has seven digits.
ASSUME FramingAssumption ==
  /\ NoWriter \notin Writers
  /\ Lengths \subseteq Nat
  /\ MaxMessages \in Nat
  /\ Radix \in Nat \ {0, 1}
  /\ {SegmentSize, MaxHeader, MaxLen, MaxToken} \subseteq Nat \ {0}
  /\ \A length \in Lengths : length <= MaxLen => Len(Digits[length]) <= MaxHeader

VARIABLES
  writeMutex,  \* the writer that holds it
  writing,     \* the message each writer is on, 0 for none
  messages,    \* their lengths, and how many bytes of each were written
  wire,        \* bytes written and not yet read
  end,         \* "open"; closed ("eof") or broken by the writing side
  buf,         \* the scanner's buffer from start to end
  reader,      \* "reading", or "stopped" by an error
  delivered,   \* the messages ReadCtx has returned
  emptied      \* ReadCtx has returned nil and no message

writerVars == <<writeMutex, writing, messages>>
readerVars == <<buf, reader, delivered, emptied>>
vars == <<writerVars, wire, end, readerVars>>

Init ==
  /\ writeMutex = NoWriter
  /\ writing = [w \in Writers |-> 0]
  /\ messages = <<>>
  /\ wire = <<>> /\ end = "open"
  /\ buf = <<>> /\ reader = "reading" /\ delivered = <<>> /\ emptied = FALSE

-----------------------------------------------------------------------------
\* What WriteCtx writes for message m, and what is left of it.
Total(m) == Len(Bin[m][messages[m].length])
Rest(m) == SubSeq(Bin[m][messages[m].length], messages[m].sent + 1, Total(m))

\* Up to k bytes of message m reach the connection.
Put(m, k) ==
  /\ wire' = wire \o SubSeq(Rest(m), 1, k)
  /\ messages' = [messages EXCEPT ![m].sent = @ + k]
Segment(m) == IF Len(Rest(m)) > SegmentSize THEN SegmentSize ELSE Len(Rest(m))

MutexFree_Ignored == TRUE   \* mutant: writeMutex is not locked
MutexFree == writeMutex = NoWriter

\* WriteCtx encodes the message and takes the lock.
Lock(w) ==
  /\ writing[w] = 0
  /\ MutexFree
  /\ Len(messages) < MaxMessages
  /\ \E length \in Lengths :
       messages' = Append(messages, [length |-> length, sent |-> 0])
  /\ writeMutex' = w
  /\ writing' = [writing EXCEPT ![w] = Len(messages) + 1]
  /\ UNCHANGED <<wire, end, readerVars>>

WriteSegment(w) ==
  /\ writing[w] # 0
  /\ end = "open"
  /\ Rest(writing[w]) # <<>>
  /\ Put(writing[w], Segment(writing[w]))
  /\ UNCHANGED <<writeMutex, writing, end, readerVars>>

Unlocked_Kept(w) == w   \* mutant: the Unlock is left out
Unlocked(w) == NoWriter

\* WriteCtx returns: everything is written and the empty Write of line 100 has
\* been tried, or a Write fails, of which the peer may get the first k bytes.
WriteEnds(w) ==
  /\ writing[w] # 0
  /\ \E k \in 0 .. Segment(writing[w]) :
       /\ end = "open" \/ k = 0
       /\ Put(writing[w], k)
  /\ writeMutex' = Unlocked(w)
  /\ writing' = [writing EXCEPT ![w] = 0]
  /\ UNCHANGED <<end, readerVars>>

\* Close, after which the reader still gets what is on the way; or the
\* connection breaks and it does not.
Close ==
  /\ end = "open"
  /\ \/ end' = "eof" /\ UNCHANGED wire
     \/ end' = "broken" /\ wire' = <<>>
  /\ UNCHANGED <<writerVars, readerVars>>

-----------------------------------------------------------------------------
\* strconv.Atoi.
Value(digits) ==
  LET value[i \in 0 .. Len(digits)] ==
        IF i = 0 THEN 0 ELSE value[i - 1] * Radix + digits[i].value
  IN value[Len(digits)]

\* The length of the header that data starts with, as jsonLengthRe finds it.
Headers(data) ==
  {h \in 2 .. Len(data) : /\ data[h].type = "comma"
                          /\ \A i \in 1 .. h - 1 : data[i].type = "digit"}

Missing_OffByOne(data, size) == Len(data) <= size   \* mutant: <= for <
Missing(data, size) == Len(data) < size

Advance_Body(header, length) == length   \* mutant: the header is not counted
Advance(header, length) == header + length

\* SplitJson: what it makes of the buffer, and how much of it is used up.
More == [kind |-> "more"]
SplitError == [kind |-> "error"]
SplitJson(data) ==
  IF Headers(data) = {}
  THEN IF Len(data) > MaxHeader THEN SplitError ELSE More
  ELSE LET header == CHOOSE h \in Headers(data) : TRUE
           length == Value(SubSeq(data, 1, header - 1))
       IN IF length > MaxLen THEN SplitError
          ELSE IF Missing(data, header + length) THEN More
          ELSE [kind |-> "token", advance |-> Advance(header, length),
                token |-> SubSeq(data, header + 1, header + length)]

Scans(kind) == reader = "reading" /\ SplitJson(buf).kind = kind

\* Scan has no token and room in its buffer: a Read of k bytes.
Fill ==
  /\ Scans("more")
  /\ \E k \in 1 .. Len(wire) :
       /\ Len(buf) + k <= MaxToken
       /\ buf' = buf \o SubSeq(wire, 1, k)
       /\ wire' = SubSeq(wire, k + 1, Len(wire))
  /\ UNCHANGED <<writerVars, end, reader, delivered, emptied>>

\* Unmarshal accepts the json of message m and nothing else.
IsMessage(token, m) ==
  /\ token # <<>> /\ Len(token) = messages[m].length
  /\ \A i \in DOMAIN token : token[i] = Byte("json", m)

ReadToken ==
  /\ Scans("token")
  /\ LET split == SplitJson(buf)
         valid == {m \in DOMAIN messages : IsMessage(split.token, m)}
     IN /\ buf' = SubSeq(buf, split.advance + 1, Len(buf))
        /\ IF valid = {}
           THEN reader' = "stopped" /\ UNCHANGED delivered
           ELSE \E m \in valid : delivered' = Append(delivered, m) /\ UNCHANGED reader
  /\ UNCHANGED <<writerVars, wire, end, emptied>>

\* Scan ends with an error: SplitJson's, ErrTooLong for a full buffer that has
\* no token, or the connection's.
ReadFails ==
  /\ \/ Scans("error")
     \/ Scans("more") /\ Len(buf) = MaxToken
     \/ Scans("more") /\ wire = <<>> /\ end = "broken"
  /\ reader' = "stopped"
  /\ UNCHANGED <<writerVars, wire, end, buf, delivered, emptied>>

\* At the end of the stream Scan is false and Err() nil, for ever: ReadCtx
\* returns nil and leaves msg as it was.
ReadAtEnd ==
  /\ Scans("more")
  /\ Len(buf) < MaxToken /\ wire = <<>> /\ end = "eof"
  /\ emptied' = TRUE
  /\ buf' = <<>>
  /\ UNCHANGED <<writerVars, wire, end, reader, delivered>>

Read == Fill \/ ReadToken \/ ReadFails \/ ReadAtEnd

Next ==
  \/ \E w \in Writers : Lock(w) \/ WriteSegment(w) \/ WriteEnds(w)
  \/ Close
  \/ Read

Spec == Init /\ [][Next]_vars

\* The reading end is read from, as Serve and the client's loop do.
FairSpec == Spec /\ WF_vars(Read)

-----------------------------------------------------------------------------
\* Types; the mutex is held while a message is being written, and by nobody
\* else, however WriteCtx returns; the buffer stays within its limit.
TypeOK ==
  /\ writing \in [Writers -> 0 .. Len(messages)]
  /\ \A w \in Writers : writing[w] # 0 <=> writeMutex = w
  /\ writeMutex \in Writers \cup {NoWriter}
  /\ messages \in Seq([length : Lengths, sent : Nat])
  /\ \A m \in DOMAIN messages : messages[m].sent <= Total(m)
  /\ wire \in Seq([type : {"digit", "comma", "json"}, value : Nat])
  /\ end \in {"open", "eof", "broken"}
  /\ buf \in Seq([type : {"digit", "comma", "json"}, value : Nat])
  /\ Len(buf) <= MaxToken
  /\ reader \in {"reading", "stopped"}
  /\ delivered \in Seq(DOMAIN messages)
  /\ emptied \in BOOLEAN

\* A message whose writing has ended and of which the stream has only a part; a
\* lone "0" is part of the next header and does no harm.
Whole(m) == messages[m].sent = Total(m) /\ messages[m].length > 0
Cut(m) ==
  /\ messages[m].sent \in 1 .. Total(m) - 1 /\ messages[m].length > 0
  /\ \A w \in Writers : writing[w] # m

\* What can be delivered: the whole messages before the first that is cut.
Deliverable == {m \in DOMAIN messages : Whole(m) /\ \A c \in 1 .. m - 1 : ~ Cut(c)}

\* ReadCtx returns the messages of WriteCtx whole, once and in the order of the
\* lock, however they are cut into segments and reads; after a message that a
\* failed write has cut none is mistaken for one.  And it returns nil without
\* one only when the stream has ended and all that came whole has been
\* returned (lines 38-65, 67-79, 84-101).
IntactInOrder ==
  /\ \E last \in 0 .. Len(messages) :
       Enumerates(delivered, {m \in Deliverable : m <= last})
  /\ emptied => end = "eof" /\ Enumerates(delivered, Deliverable)

\* The reader stops with an error only for a cause, and not before it has
\* returned all that came whole before that: the connection broke, a write
\* failed half way, a message could not be encoded, or it does not fit the
\* scanner's buffer, which is smaller than MaxLen (lines 44-64, 74-77).
Fits(m) == Total(m) <= MaxToken /\ messages[m].length <= MaxLen
Bad(m) ==
  messages[m].sent > 0 /\ (Cut(m) \/ messages[m].length = 0 \/ ~ Fits(m))
Returned == {delivered[i] : i \in DOMAIN delivered}
ErrorHasCause ==
  reader = "stopped" =>
    \/ end = "broken"
    \/ \E m \in DOMAIN messages :
         Bad(m) /\ \A c \in 1 .. m - 1 : Whole(c) => c \in Returned

\* A message that was written whole after others that were, and that fits the
\* buffer, arrives even when nothing is written after it, unless the
\* connection breaks (lines 60-64).
Sound(m) == Whole(m) /\ Fits(m)
FullMessageArrives ==
  \A n \in 1 .. MaxMessages :
    (n \in DOMAIN messages /\ \A m \in 1 .. n : Sound(m))
      ~> end = "broken" \/ n \in Returned
=============================================================================
