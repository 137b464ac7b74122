---------------------------- MODULE CameraFrames ----------------------------
(***************************************************************************)
(* From the bytes of a camera to the calls of the enqueue workflow: the    *)
(* heartbeat filter of core/camera_server.py, then the receive buffer and  *)
(* the parsers of core/enqueue_workflow.py, for one of the two channels.   *)
(*                                                                         *)
(* TCP keeps the order of the bytes and nothing else: a recv may return    *)
(* any piece of what is on the way.  The receive buffer outlives the       *)
(* connection.  A byte is a character, or a word that is only looked at as *)
(* a whole:                                                                *)
(*   "f1", "f2"   the flag of a 3D segment, 1000 and 2000                  *)
(*   "0" .. "9"   digits          "t"   a type        "READY"              *)
(*   "nl"         white space     "Z"   a zero byte   "H"   a heartbeat    *)
(***************************************************************************)
EXTENDS Integers, SequencesExt

CONSTANTS
    Messages,       \* what the cameras send: records of channel, bytes, event
    MaxMessages,    \* bound: messages and heartbeats sent
    MaxReconnects   \* bound: connections lost

ASSUME FramesAssumption == MaxMessages \in Nat /\ MaxReconnects \in Nat

VARIABLES
    channel,        \* "2d" or "3d"
    wire,           \* bytes on the way, the last of a message with its event
    received,       \* events of the messages whose last byte was received
    recv_buffer,    \* _recv_buffers[channel]
    handed,         \* events handed to the workflow
    turn,           \* what the 2D camera sends next, or that it waits
    sends,          \* messages and heartbeats sent so far
    reconnects      \* connections lost so far

frameVars == <<channel, wire, received, recv_buffer, handed, turn, sends, reconnects>>

-----------------------------------------------------------------------------
(* Strings.                                                                *)

From(s, i) == SubSeq(s, i, Len(s))
Upto(s, i) == SubSeq(s, 1, i)

(* The positions of word in s; the first one is 0 when there is none.      *)
Positions(s, word) ==
    {i \in 1 .. Len(s) - Len(word) + 1 : SubSeq(s, i, i + Len(word) - 1) = word}
Find(s, word) == IF Positions(s, word) = {} THEN 0 ELSE Min(Positions(s, word))

Solid(s, blank) == {i \in 1 .. Len(s) : s[i] \notin blank}
StripLeft(s, blank) == IF Solid(s, blank) = {} THEN <<>> ELSE From(s, Min(Solid(s, blank)))
Strip(s, blank) == IF Solid(s, blank) = {} THEN <<>>
                   ELSE SubSeq(s, Min(Solid(s, blank)), Max(Solid(s, blank)))

(* One character at either end is taken off.                               *)
Peel(s) == SubSeq(s, 2, Len(s) - 1)
Bracketed(s) == Len(s) > 1 /\ s[1] = "(" /\ s[Len(s)] = ")"
StripE(s) == IF s # <<>> /\ s[Len(s)] = "E" THEN Upto(s, Len(s) - 1) ELSE s
StripBrackets(s) == IF Bracketed(s) THEN Peel(s) ELSE s

Digits == {"0", "1", "2", "3", "4", "5", "6", "7", "8", "9"}
Number(s) == s # <<>> /\ s \in Seq(Digits)

Comma == ","

(* What is before the first comma, and what is behind it.                  *)
FirstField(s) == IF Find(s, <<Comma>>) = 0 THEN s ELSE Upto(s, Find(s, <<Comma>>) - 1)
Fields(s) == IF Find(s, <<Comma>>) = 0 THEN <<>> ELSE From(s, Find(s, <<Comma>>) + 1)

(* re.search(r"\d+", s): the first digits, as many as follow each other.   *)
FirstDigits(s) ==
    LET digits == {i \in 1 .. Len(s) : s[i] \in Digits}
        start  == Min(digits)
        end    == Max({j \in digits : \A k \in start .. j : k \in digits})
    IN IF digits = {} THEN <<>> ELSE SubSeq(s, start, end)

-----------------------------------------------------------------------------
(* _is_heartbeat.                                                          *)

(* A plausible bug: every short piece is taken for a heartbeat.            *)
IsHeartbeatShort(piece) == Len(piece) < 3

IsHeartbeat(piece) == Strip(piece, {"nl", "Z"}) \in {<<>>, <<"H">>}

-----------------------------------------------------------------------------
(* The 2D channel.                                                         *)

Invalid == [kind |-> "invalid"]
Ready == [kind |-> "ready"]
Result(count, type) == [kind |-> "result", count |-> count, type |-> type]
NoType == <<"00,00">>

ReadyTexts == {<<"READY">>, <<"(", "READY", ")">>, <<"(", "READY", ")", "E">>, <<"READY", "E">>}

(* _parse_2d_payload: a count that is no number is searched for digits.    *)
Parse2d(frame) ==
    LET text  == StripBrackets(StripE(frame))
        first == FirstField(text)
        count == IF Number(first) THEN first ELSE FirstDigits(first)
    IN IF frame \in ReadyTexts \/ text = <<"READY">> THEN Ready
       ELSE IF count = <<>> THEN Invalid
       ELSE Result(count, IF Fields(text) = <<>> THEN NoType ELSE Fields(text))

(* _looks_like_2d_line.                                                    *)
LooksLikeLine(s) == s \in ReadyTexts \/ Number(FirstField(s))

NoFrame(buf) == [found |-> FALSE, frame |-> <<>>, rest |-> buf]

(* _pop_2d_frame_locked: up to ")E", else up to the end of a line, else    *)
(* all there is if it looks like a line.                                   *)
Pop2d(b) ==
    LET buf  == StripLeft(b, {"nl"})
        ends == Find(buf, <<")", "E">>)
        line == Find(buf, <<"nl">>)
    IN IF ends > 0
       THEN [found |-> TRUE, frame |-> Upto(buf, ends + 1), rest |-> From(buf, ends + 2)]
       ELSE IF line > 0
       THEN [found |-> TRUE, frame |-> Upto(buf, line - 1), rest |-> From(buf, line + 1)]
       ELSE IF LooksLikeLine(buf) THEN [found |-> TRUE, frame |-> buf, rest |-> <<>>]
       ELSE NoFrame(buf)

-----------------------------------------------------------------------------
(* The 3D channel.                                                         *)

(* _parse_3d_segment: the arm comes from the flag.                         *)
ParseSegment(segment) ==
    LET body  == StripBrackets(StripE(segment))
        count == FirstField(Fields(body))
    IN IF FirstField(body) \in {<<"f1">>, <<"f2">>} /\ Number(count)
       THEN [arm |-> IF FirstField(body) = <<"f1">> THEN 1 ELSE 2, count |-> count]
       ELSE [arm |-> 0, count |-> <<>>]

Segments(s, t) == [kind |-> "segments", segments |-> <<s, t>>]

(* _handle_3d_frame takes the segments one by one.                         *)
Parse3d(frame) ==
    LET a == Find(frame, <<"A">>) IN
    Segments(ParseSegment(Upto(frame, a - 1)), ParseSegment(From(frame, a + 1)))

(* re.search(r"\([^()]*\)EA\([^()]*\)E", buf): at each ")EA(" the brackets *)
(* before and behind it must close on it; the first such place counts.     *)
Parens(buf) == {i \in 1 .. Len(buf) : buf[i] \in {"(", ")"}}
Opens(buf, k) == Max({i \in Parens(buf) : i < k} \cup {0})
Closes(buf, k) == Min({i \in Parens(buf) : i > k + 3} \cup {Len(buf)})
Frame3dAt(buf) ==
    {k \in Positions(buf, <<")", "E", "A", "(">>) :
        /\ Opens(buf, k) > 0 /\ buf[Opens(buf, k)] = "("
        /\ Closes(buf, k) < Len(buf)
        /\ SubSeq(buf, Closes(buf, k), Closes(buf, k) + 1) = <<")", "E">>}

Pop3d(buf) ==
    LET k == Min(Frame3dAt(buf)) IN
    IF Frame3dAt(buf) = {} THEN NoFrame(buf)
    ELSE [found |-> TRUE, frame |-> SubSeq(buf, Opens(buf, k), Closes(buf, k) + 1),
          rest |-> From(buf, Closes(buf, k) + 2)]

-----------------------------------------------------------------------------
(* on_camera_payload: the piece is appended and the buffer is drained.     *)

Pop(buf) == IF channel = "2d" THEN Pop2d(buf) ELSE Pop3d(buf)
Parse(frame) == IF channel = "2d" THEN Parse2d(frame) ELSE Parse3d(frame)

(* A round of _drain_2d_frames, _drain_3d_frames: a frame is taken out of  *)
(* the buffer and handled, if there is one.                                *)
Round(drained) ==
    LET p == Pop(drained.rest) IN
    [events |-> IF p.found THEN Append(drained.events, Parse(p.frame)) ELSE drained.events,
     rest   |-> p.rest]

Undrained(buf) == [events |-> <<>>, rest |-> buf]

(* A plausible bug: one frame is taken out for each piece.                 *)
DrainOne(buf) == Round(Undrained(buf))

(* The loop ends when there is no frame.  A frame has a byte at least: as  *)
(* many rounds as there are bytes are enough, and one more changes nothing.*)
Drain(buf) ==
    LET after[i \in 0 .. Len(buf)] == IF i = 0 THEN Undrained(buf) ELSE Round(after[i - 1])
    IN after[Len(buf)]

-----------------------------------------------------------------------------
(* What the cameras send: READY as a bare word and (count)E or             *)
(* (count,type)E on the 2D channel; (flag,count..)EA(flag,count..)E on the *)
(* 3D channel, and heartbeats there.                                       *)

Plain(s) ==
    /\ s \in Seq(STRING)
    /\ \A i \in 1 .. Len(s) : s[i] \notin {"(", ")", "E", "A", "READY", "nl", "Z", "H"}

IsHeartbeatMessage(m) ==
    m.channel = "3d" /\ m.event = <<>> /\ m.bytes \in Seq({"H", "Z", "nl"})

IsReadyMessage(m) == m.channel = "2d" /\ m.event = <<Ready>> /\ m.bytes = <<"READY">>

IsResultMessage(m) ==
    LET e == m.event[1] IN
    /\ m.channel = "2d" /\ m.event = <<Result(e.count, e.type)>>
    /\ Number(e.count) /\ Plain(e.type)
    /\ \/ e.type = NoType /\ m.bytes = <<"(">> \o e.count \o <<")", "E">>
       \/ e.type # <<>> /\ m.bytes = <<"(">> \o e.count \o <<Comma>> \o e.type \o <<")", "E">>

IsSegment(s, segment) ==
    LET head == <<"(", IF segment.arm = 1 THEN "f1" ELSE "f2", Comma>> \o segment.count
        more == SubSeq(s, Len(head) + 1, Len(s) - 2)
    IN /\ segment = [arm |-> segment.arm, count |-> segment.count]
       /\ segment.arm \in {1, 2} /\ Number(segment.count)
       /\ s = head \o more \o <<")", "E">>
       /\ Plain(more) /\ (more # <<>> => more[1] = Comma)

IsFrameMessage(m) ==
    LET segments == m.event[1].segments IN
    /\ m.channel = "3d" /\ m.event = <<Segments(segments[1], segments[2])>>
    /\ \E a \in 1 .. Len(m.bytes) :
          /\ m.bytes[a] = "A"
          /\ IsSegment(Upto(m.bytes, a - 1), segments[1])
          /\ IsSegment(From(m.bytes, a + 1), segments[2])

ASSUME MessagesAssumption ==
    \A m \in Messages :
        /\ m.bytes \in Seq(STRING)
        /\ \/ IsHeartbeatMessage(m) \/ IsReadyMessage(m)
           \/ IsResultMessage(m) \/ IsFrameMessage(m)

-----------------------------------------------------------------------------
FramesInit ==
    /\ channel \in {"2d", "3d"}
    /\ wire = <<>>
    /\ received = <<>>
    /\ recv_buffer = <<>>
    /\ handed = <<>>
    /\ turn = "ready"
    /\ sends = 0
    /\ reconnects = 0

(* A message or a heartbeat, which has no event.  The 2D camera says READY *)
(* and sends a result when it is asked for it; the 3D camera just sends.   *)
Kind(m) == IF m.event = <<>> THEN "heartbeat" ELSE m.event[1].kind

(* Its bytes; the last one carries the event.                              *)
Encoded(m) ==
    [i \in 1 .. Len(m.bytes) |->
        [byte |-> m.bytes[i], event |-> IF i = Len(m.bytes) THEN m.event ELSE <<>>]]

MessageSent(m) ==
    /\ m.channel = channel /\ sends < MaxMessages
    /\ sends' = sends + 1
    /\ channel = "2d" => Kind(m) = turn
    /\ turn' = IF Kind(m) = "ready" THEN "wait" ELSE "ready"
    /\ wire' = wire \o Encoded(m)
    /\ UNCHANGED <<channel, received, recv_buffer, handed, reconnects>>

EventsOf(bytes) ==
    LET upto[i \in 0 .. Len(bytes)] == IF i = 0 THEN <<>> ELSE upto[i - 1] \o bytes[i].event
    IN upto[Len(bytes)]

(* A recv of _recv_loop returns the next n bytes.                          *)
ReceivePiece(n) ==
    LET piece == [i \in 1 .. n |-> wire[i].byte]
        drained == Drain(recv_buffer \o piece)
    IN
    /\ wire' = From(wire, n + 1)
    /\ received' = received \o EventsOf(Upto(wire, n))
    /\ IF IsHeartbeat(piece) THEN UNCHANGED <<recv_buffer, handed>>
       ELSE recv_buffer' = drained.rest /\ handed' = handed \o drained.events
    /\ turn' = IF handed' # handed /\ Last(handed') = Ready THEN "result" ELSE turn
    /\ UNCHANGED <<channel, sends, reconnects>>

(* The connection is lost with the bytes on the way, and the camera        *)
(* connects again; what it had begun to send it does not send again.       *)
Reconnects ==
    /\ reconnects < MaxReconnects
    /\ reconnects' = reconnects + 1
    /\ wire' = <<>>
    /\ turn' = "ready"
    /\ UNCHANGED <<channel, received, recv_buffer, handed, sends>>

FramesNext ==
    \/ \E m \in Messages : MessageSent(m)
    \/ \E n \in 1 .. Len(wire) : ReceivePiece(n)
    \/ Reconnects

FramesSpec == FramesInit /\ [][FramesNext]_frameVars

-----------------------------------------------------------------------------
(* While the connection holds, the workflow is handed what the camera      *)
(* sends and nothing else, in order, all that was received of it, however  *)
(* TCP cuts and joins the bytes: no half of a message is taken for a whole *)
(* one, and none of it is left behind.                                     *)
PiecesDoNotMatter ==
    reconnects = 0 => /\ IsPrefix(received, handed)
                      /\ IsPrefix(handed, received \o EventsOf(wire))

(* A message that was cut off stays in the buffer when the camera connects *)
(* again; it spoils at most the one message that comes behind it.          *)
OneLostPerReconnect ==
    LET Times(e, s) == Cardinality({i \in 1 .. Len(s) : s[i] = e})
        missing == {i \in 1 .. Len(received) :
                      Times(received[i], SubSeq(received, 1, i)) > Times(received[i], handed)}
    IN Cardinality(missing) <= reconnects
=============================================================================
