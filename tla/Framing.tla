------------------------------ MODULE Framing -------------------------------
(***************************************************************************)
(* Message framing of the session engine: DefaultXMLParser, which the      *)
(* session thread feeds with whatever one read of the transport returned.  *)
(* It finds messages by the delimiter ]]>]]> (base 1.0) or by chunks       *)
(* (base 1.1), however the stream was cut into reads.                      *)
(*                                                                         *)
(* Parsing one read takes several steps: after each message is dispatched  *)
(* the connecting thread may select :base:1.1 (it waits for the <hello>).  *)
(*                                                                         *)
(* A byte is a symbol: "NL", "#", "]", ">", a digit, "x" for any other     *)
(* character of one byte, "c1" and "c2" for the bytes of a two-byte        *)
(* character; "?" is U+FFFD.  A text is written as the bytes it encodes    *)
(* to, so that decoding changes nothing but the halves of characters.      *)
(* The size of a chunk is one digit.  What _parse11 has consumed is        *)
(* dropped at once here and when the loop ends there.                      *)
(***************************************************************************)
EXTENDS Integers, Sequences, SequencesExt, FiniteSetsExt

CONSTANTS
  Hello,       \* the server's <hello>, as bytes
  Payloads,    \* the replies the server can send, as bytes
  MaxSent,     \* bound: messages sent, the <hello> included
  MaxGarbage   \* bound: bytes sent that belong to no message

VARIABLES
  base,          \* Session._base
  buffer,        \* Session._buffer
  parsing_pos10, \* DefaultXMLParser._parsing_pos10
  message_list,  \* the texts in Session._message_list, joined
  remaining,     \* _parse10's local: the text that followed the delimiter
  at,            \* where the session thread is
  replaced,      \* it parses with a parser that is not Session.parser any more
  connecting,    \* what connect() waits for or does next
  negotiated,    \* the base both sides announced
  wire,          \* bytes sent and not yet read
  sent,          \* messages sent, the last one perhaps in part
  unsent,        \* what of it will be sent in the next chunks
  dispatched,    \* messages given to _dispatch_message
  garbage,       \* bytes sent that belong to no message
  damaged        \* messages in which a character was decoded in halves

parser  == <<buffer, parsing_pos10, message_list, remaining, at, replaced>>
connect == <<base, connecting, negotiated>>
server  == <<wire, sent, unsent, garbage>>
vars == <<parser, connect, server, dispatched, damaged>>

-----------------------------------------------------------------------------
MSG_DELIM == <<"]", "]", ">", "]", "]", ">">>
MSG_DELIM_LEN == Len(MSG_DELIM)
END_DELIM == <<"NL", "#", "#", "NL">>

Digits == <<"1", "2", "3", "4", "5", "6", "7", "8", "9">>
SizeOf(d) == CHOOSE n \in 1..9 : Digits[n] = d

\* The byte at i is half of a character without the other half.
IsHalf(b, i) ==
  \/ b[i] = "c1" /\ ~(i < Len(b) /\ b[i + 1] = "c2")
  \/ b[i] = "c2" /\ ~(i > 1 /\ b[i - 1] = "c1")

\* decode('UTF-8', errors='replace')
Decode(b) == [i \in 1..Len(b) |-> IF IsHalf(b, i) THEN "?" ELSE b[i]]

\* str.strip()
Strip(s) ==
  LET kept == {i \in 1..Len(s) : s[i] # "NL"}
  IN IF kept = {} THEN <<>> ELSE SubSeq(s, Min(kept), Max(kept))

DelimsFrom(b, pos) ==
  {i \in (pos + 1)..(Len(b) - MSG_DELIM_LEN + 1) :
     SubSeq(b, i, i + MSG_DELIM_LEN - 1) = MSG_DELIM}

From(b, i) == SubSeq(b, i, Len(b))

\* RE_NC11_DELIM.match at the start of the buffer
IsChunkHeader(b) ==
  Len(b) >= 4 /\ b[1] = "NL" /\ b[2] = "#" /\ b[3] \in Range(Digits) /\ b[4] = "NL"
IsEnd(b) == IsPrefix(END_DELIM, b)

\* The delimiter of 1.0 is neither in m nor partly in m and partly in the
\* delimiter before or behind it.  No XML document holds ]]>]]> outside of
\* comments and attributes, and none begins or ends with ]]>.
IsDelimited(m) ==
  DelimsFrom(MSG_DELIM \o m \o MSG_DELIM, 0) = {1, MSG_DELIM_LEN + Len(m) + 1}

Bytes == {"NL", "#", "]", ">", "x", "c1", "c2", "?"} \cup Range(Digits)

ASSUME FramingAssumption ==
  /\ \A m \in Payloads \cup {Hello} :
       m \in Seq(Bytes) /\ m # <<>> /\ \A i \in 1..Len(m) : ~IsHalf(m, i)
  /\ IsDelimited(Hello)
  /\ MaxSent \in Nat
  /\ MaxGarbage \in Nat

Init ==
  /\ base = 10
  /\ buffer = <<>>
  /\ parsing_pos10 = 0
  /\ message_list = <<>>
  /\ remaining = <<>>
  /\ at = "select"
  /\ replaced = FALSE
  /\ connecting = "hello"
  /\ negotiated \in {10, 11}
  /\ wire = <<>> /\ sent = <<>> /\ unsent = <<>>
  /\ dispatched = <<>>
  /\ garbage = 0
  /\ damaged = {}

-----------------------------------------------------------------------------
(* Faulty variants, used by mutants of PROJECT.json.                        *)

\* The search goes on behind what was read, as if no delimiter were split.
KeepPosition10AtEnd ==
  /\ at = "parse10"
  /\ DelimsFrom(buffer, parsing_pos10) = {}
  /\ parsing_pos10' = Len(buffer)
  /\ at' = "select"
  /\ UNCHANGED <<buffer, message_list, remaining, replaced, connect, server, dispatched,
                 damaged>>

\* The chunks of a message are not forgotten.
EndOfMessageKeepsChunks ==
  /\ at = "parse11"
  /\ IsEnd(buffer)
  /\ dispatched' = Append(dispatched, message_list)
  /\ buffer' = From(buffer, 5)
  /\ UNCHANGED <<parsing_pos10, message_list, remaining, at, replaced, connect, server,
                 damaged>>

\* The loop goes on without the data of the chunk.
AwaitChunkLoops ==
  /\ at = "parse11"
  /\ IsChunkHeader(buffer)
  /\ Len(buffer) < 4 + SizeOf(buffer[3])
  /\ UNCHANGED vars

-----------------------------------------------------------------------------
(* The session thread: DefaultXMLParser.parse                               *)

\* One read returns any part of what is in flight.
Read ==
  /\ at = "select"
  /\ wire # <<>>
  /\ \E n \in 1..Len(wire) :
       /\ buffer' = buffer \o SubSeq(wire, 1, n)
       /\ wire' = From(wire, n + 1)
  /\ at' = IF base = 11 THEN "parse11" ELSE "parse10"
  /\ replaced' = FALSE
  /\ UNCHANGED <<parsing_pos10, message_list, remaining, connect, sent, unsent,
                 garbage, dispatched, damaged>>

\* The number of the message in which rest ends, which follows the message
\* that is dispatched.
MessageAtEnd(rest) == Len(dispatched) + 2 + Cardinality(DelimsFrom(rest, 0))

\* _parse10 finds a delimiter; the message is stripped and dispatched, and the
\* rest is kept as a text.  A character that the read cut in halves is damaged
\* by that.
Dispatch10 ==
  /\ at = "parse10"
  /\ DelimsFrom(buffer, parsing_pos10) # {}
  /\ LET first == Min(DelimsFrom(buffer, 0))
         rest  == From(buffer, first + MSG_DELIM_LEN)
     IN /\ dispatched' = Append(dispatched, Strip(Decode(SubSeq(buffer, 1, first - 1))))
        /\ remaining' = Decode(rest)
        /\ damaged' = IF rest # <<>> /\ Last(rest) = "c1"
                      THEN damaged \cup {MessageAtEnd(rest)} ELSE damaged
  /\ at' = "rest10"
  /\ UNCHANGED <<buffer, parsing_pos10, message_list, replaced, connect, server>>

\* After the dispatch: the rest is encoded again and parsed, unless it is blank.
Rest10 ==
  /\ at = "rest10"
  /\ parsing_pos10' = 0
  /\ IF Strip(remaining) = <<>>
     THEN buffer' = <<>> /\ at' = "select"
     ELSE buffer' = remaining /\ at' = "parse10"
  /\ remaining' = <<>>
  /\ UNCHANGED <<message_list, replaced, connect, server, dispatched, damaged>>

\* _parse10 finds none: the next search begins where one may have begun.
KeepPosition10 ==
  /\ at = "parse10"
  /\ DelimsFrom(buffer, parsing_pos10) = {}
  /\ parsing_pos10' = IF replaced THEN parsing_pos10
                      ELSE Max({0, Len(buffer) - MSG_DELIM_LEN})
  /\ at' = "select"
  /\ UNCHANGED <<buffer, message_list, remaining, replaced, connect, server, dispatched,
                 damaged>>

\* _parse11 finds a chunk, and all of it.
TakeChunk ==
  /\ at = "parse11"
  /\ IsChunkHeader(buffer)
  /\ LET size == SizeOf(buffer[3]) IN
       /\ Len(buffer) >= 4 + size
       /\ message_list' = message_list \o Decode(SubSeq(buffer, 5, 4 + size))
       /\ buffer' = From(buffer, 5 + size)
  /\ UNCHANGED <<parsing_pos10, remaining, at, replaced, connect, server, dispatched,
                 damaged>>

AwaitChunk ==
  /\ at = "parse11"
  /\ IsChunkHeader(buffer)
  /\ Len(buffer) < 4 + SizeOf(buffer[3])
  /\ at' = "select"
  /\ UNCHANGED <<buffer, parsing_pos10, message_list, remaining, replaced, connect,
                 server, dispatched, damaged>>

\* _parse11 finds the end of a message.
EndOfMessage ==
  /\ at = "parse11"
  /\ IsEnd(buffer)
  /\ dispatched' = Append(dispatched, message_list)
  /\ message_list' = <<>>
  /\ buffer' = From(buffer, 5)
  /\ UNCHANGED <<parsing_pos10, remaining, at, replaced, connect, server, damaged>>

\* _parse11 finds neither: it waits for more.  The log statement there decodes
\* the buffer strictly and raises if it holds half a character.
NoDelimiter ==
  /\ at = "parse11"
  /\ ~IsChunkHeader(buffer)
  /\ ~IsEnd(buffer)
  /\ at' = IF \E i \in 1..Len(buffer) : IsHalf(buffer, i) THEN "failed" ELSE "select"
  /\ UNCHANGED <<buffer, parsing_pos10, message_list, remaining, replaced, connect,
                 server, dispatched, damaged>>

Parse ==
  \/ Dispatch10 \/ Rest10 \/ KeepPosition10
  \/ TakeChunk \/ AwaitChunk \/ EndOfMessage \/ NoDelimiter

-----------------------------------------------------------------------------
(* The connecting thread                                                    *)

\* The <hello> was dispatched: _post_connect selects the base.
SelectBase ==
  /\ connecting = "hello"
  /\ dispatched # <<>>
  /\ connecting' = "parser"
  /\ base' = negotiated
  /\ UNCHANGED <<parser, negotiated, server, dispatched, damaged>>

\* connect replaces the parser by a new one; a parse in progress goes on with
\* the old one.
ReplaceParser ==
  /\ connecting = "parser"
  /\ connecting' = "done"
  /\ parsing_pos10' = 0
  /\ replaced' = (at # "select")
  /\ UNCHANGED <<buffer, message_list, remaining, at, base, negotiated, server,
                 dispatched, damaged>>

-----------------------------------------------------------------------------
(* The server                                                               *)

Frame10(m) == m \o MSG_DELIM

ChunkHeader(n) == <<"NL", "#", Digits[n], "NL">>

ServerHello ==
  /\ sent = <<>>
  /\ sent' = <<[msg |-> Hello, framing |-> 10]>>
  /\ wire' = wire \o Frame10(Hello)
  /\ UNCHANGED <<parser, connect, unsent, garbage, dispatched, damaged>>

\* Replies, which follow requests: connect() has returned by then.
ServerSend ==
  /\ connecting = "done"
  /\ unsent = <<>> /\ Len(sent) < MaxSent
  /\ \E m \in Payloads :
       /\ sent' = Append(sent, [msg |-> m, framing |-> negotiated])
       /\ \/ /\ negotiated = 10 /\ IsDelimited(m)
             /\ wire' = wire \o Frame10(m) /\ unsent' = unsent
          \/ /\ negotiated = 11
             /\ unsent' = m /\ wire' = wire
  /\ UNCHANGED <<parser, connect, garbage, dispatched, damaged>>

\* The next chunk of the reply, cut anywhere; the end follows the last one.
ServerChunk ==
  /\ unsent # <<>>
  /\ \E n \in 1..Min({9, Len(unsent)}) :
       /\ wire' = wire \o ChunkHeader(n) \o SubSeq(unsent, 1, n)
                       \o (IF n = Len(unsent) THEN END_DELIM ELSE <<>>)
       /\ unsent' = From(unsent, n + 1)
       /\ damaged' = IF unsent[n] = "c1" THEN damaged \cup {Len(sent)} ELSE damaged
  /\ UNCHANGED <<parser, connect, sent, garbage, dispatched>>

\* A stray newline, as some servers send after a message, or half a character.
ServerGarbage ==
  /\ garbage < MaxGarbage /\ unsent = <<>>
  /\ garbage' = garbage + 1
  /\ \E g \in {"NL", "c1"} : wire' = Append(wire, g)
  /\ UNCHANGED <<parser, connect, sent, unsent, dispatched, damaged>>

-----------------------------------------------------------------------------
Next ==
  \/ Read \/ Parse \/ SelectBase \/ ReplaceParser
  \/ ServerHello \/ ServerSend \/ ServerChunk \/ ServerGarbage

Spec == Init /\ [][Next]_vars

\* The session thread does not stop while it parses.
FairSpec == Spec /\ WF_vars(Parse)

-----------------------------------------------------------------------------
TypeOK ==
  /\ base \in {10, 11}
  /\ buffer \in Seq(Bytes)
  /\ parsing_pos10 \in Nat
  /\ message_list \in Seq(Bytes)
  /\ remaining \in Seq(Bytes)
  /\ at \in {"select", "parse10", "rest10", "parse11", "failed"}
  /\ replaced \in BOOLEAN
  /\ connecting \in {"hello", "parser", "done"}
  /\ negotiated \in {10, 11}
  /\ wire \in Seq(Bytes)
  /\ sent \in Seq([msg : Payloads \cup {Hello}, framing : {10, 11}])
  /\ unsent \in Seq(Bytes)
  /\ dispatched \in Seq(Seq(Bytes))
  /\ garbage \in 0..MaxGarbage
  /\ damaged \subseteq Nat

\* The next search begins in the buffer.
PositionValid == base = 10 => parsing_pos10 <= Len(buffer)

\* The messages sent as a whole.
Complete == IF unsent = <<>> THEN Len(sent) ELSE Len(sent) - 1

Expected(i) == IF sent[i].framing = 10 THEN Strip(sent[i].msg) ELSE sent[i].msg

\* The messages dispatched are those the server sent, in order and none twice,
\* however the stream was cut into reads and chunks.  Only the characters of
\* a message that was decoded in halves may differ, never a delimiter or the
\* message next to it.
MessagesIntact ==
  /\ TypeOK /\ PositionValid
  /\ garbage = 0 =>
       /\ Len(dispatched) <= Complete
       /\ \A i \in 1..Len(dispatched) : i \notin damaged => dispatched[i] = Expected(i)

\* When all that was sent has been read, every message has been dispatched:
\* none stays in the buffer because its delimiter came in two reads.
NothingHeldBack ==
  (garbage = 0 /\ at = "select" /\ wire = <<>>) => Len(dispatched) = Complete

\* What the docstring of _parse11 says of a delimiter in the wrong place: an
\* error is raised.  The parser waits for more only if more can complete what
\* it has to a chunk or an end delimiter.
WrongDelimiterRaises ==
  [][(at = "parse11" /\ at' = "select") =>
       \/ IsChunkHeader(buffer)
       \/ IsPrefix(buffer, END_DELIM)
       \/ /\ Len(buffer) = 3
          /\ buffer[1] = "NL" /\ buffer[2] = "#" /\ buffer[3] \in Range(Digits)]_vars

\* Parsing one read comes to an end.
ParseReturns == at # "select" ~> at \in {"select", "failed"}
=============================================================================
