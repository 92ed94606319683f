----------------------------- MODULE Diagnostics -----------------------------
(***************************************************************************)
(* One POST request through the ASGI middleware of                         *)
(* patches/request_diagnostics.py: receive_wrapper between the client and  *)
(* the application, send_wrapper between the application and the client.   *)
(*                                                                         *)
(* A body is a sequence of units, each unit a byte count the cap can fall  *)
(* between; the selection of the V4 reasoning template that the middleware *)
(* writes into a request without one is a unit of its own.  What the       *)
(* application streams is a sequence of symbols: the lines of events       *)
(* ("text", "finish" with a finish_reason, "done" for [DONE]) and "sep",   *)
(* the blank line behind an event.  A chunk is any run of symbols, so an   *)
(* event may arrive in pieces.                                             *)
(***************************************************************************)
EXTENDS Integers, Sequences, FiniteSets, SequencesExt

CONSTANTS
    MaxCapture,     \* _MAX_CAPTURE, in units
    Requests,       \* what clients send: sequences of messages
    Responses,      \* what the application streams: sequences of symbols
    MaxChunk        \* bound on the symbols of a chunk

VARIABLES
    sent,           \* the client's messages
    lacks,          \* their body is a deepseek-v4 request that selects no template
    inbox,          \* those receive() has not returned yet
    delivered,      \* request_body_delivered
    buffered,       \* request_buffered_messages
    captured,       \* captured, joined
    passthrough,    \* passthrough_messages
    got,            \* history: the messages the application received
    app,            \* what the application is doing
    script,         \* history: what it wants to stream, whole
    unsent,         \* what it has not streamed yet
    stream,         \* is_stream
    pending,        \* sse_pending
    finishEvent,    \* finish_event
    terminal,       \* terminal_sse
    gone,           \* the client has disconnected: send() raises
    wire            \* history: what the client received, symbol by symbol

requestVars == <<sent, lacks, inbox, delivered, buffered, captured, passthrough, got>>
streamVars == <<script, unsent, stream, pending, finishEvent, terminal>>
vars == <<requestVars, app, streamVars, gone, wire>>

Disconnect == [type |-> "disconnect", body |-> <<>>, more |-> FALSE]

Bodies(messages) == FlattenSeq([i \in DOMAIN messages |-> messages[i].body])

Init ==
    /\ sent \in Requests
    /\ lacks \in {b \in BOOLEAN : b => Bodies(sent) # <<>>}
    /\ inbox = sent
    /\ delivered = FALSE
    /\ buffered = <<>>
    /\ captured = <<>>
    /\ passthrough = <<>>
    /\ got = <<>>
    /\ app = "reading"
    /\ script = <<>>
    /\ unsent = <<>>
    /\ stream = FALSE
    /\ pending = <<>>
    /\ finishEvent = FALSE
    /\ terminal = FALSE
    /\ gone = FALSE
    /\ wire = <<>>

-------------------------------------------------------------------------------
(* receive_wrapper.  Its loop takes one message of the client per step;    *)
(* the application is suspended in it until it returns.                    *)

(* A client that has sent everything says it is gone when it is asked on.  *)
Received == IF inbox = <<>> THEN Disconnect ELSE Head(inbox)

Return(message) == got' = Append(got, message)

(* The application reads until the body is complete or the client is gone. *)
BodyComplete == got # <<>> /\ Last(got).type = "request" /\ ~Last(got).more

Reading ==
    /\ app = "reading"
    /\ ~BodyComplete
    /\ \A i \in DOMAIN got : got[i].type = "request"

ReceivePassthrough ==
    /\ Reading
    /\ passthrough # <<>>
    /\ Return(Head(passthrough))
    /\ passthrough' = Tail(passthrough)
    /\ UNCHANGED <<sent, lacks, inbox, delivered, buffered, captured, app, streamVars, gone, wire>>

ReceiveDirect ==
    /\ Reading
    /\ passthrough = <<>>
    /\ delivered
    /\ Return(Received)
    /\ inbox' = IF inbox = <<>> THEN <<>> ELSE Tail(inbox)
    /\ UNCHANGED <<sent, lacks, delivered, buffered, captured, passthrough, app, streamVars, gone, wire>>

\* A message that is no request body is returned at once.
ReceiveOther ==
    /\ Reading
    /\ passthrough = <<>>
    /\ ~delivered
    /\ Received.type # "request"
    /\ Return(Received)
    /\ inbox' = IF inbox = <<>> THEN <<>> ELSE Tail(inbox)
    /\ UNCHANGED <<sent, lacks, delivered, buffered, captured, passthrough, app, streamVars, gone, wire>>

Captured(data) == captured \o SubSeq(data, 1, Min({Len(data), MaxCapture - Len(captured)}))

\* Mutation of OverCap: the cap is checked as it is captured.
OverCapLate(messages) == Len(Bodies(messages)) > MaxCapture + 1

\* request_buffer_size > _MAX_CAPTURE
OverCap(messages) == Len(Bodies(messages)) > MaxCapture

Thinking == <<0, 0>>

\* _ensure_deepseek_v4_thinking: the client's own selection always wins.
Rewritten(raw) == IF lacks THEN Append(raw, Thinking) ELSE raw

BufferBody ==
    LET message  == Received
        messages == Append(buffered, message)
    IN
    /\ Reading
    /\ passthrough = <<>>
    /\ ~delivered
    /\ message.type = "request"
    /\ inbox' = Tail(inbox)
    /\ buffered' = messages
    /\ captured' = Captured(message.body)
    /\ IF OverCap(messages)
       THEN /\ delivered' = TRUE
            /\ passthrough' = Tail(messages)
            /\ Return(messages[1])
       ELSE IF message.more
       THEN UNCHANGED <<delivered, passthrough, got>>
       ELSE /\ delivered' = TRUE
            /\ Return([message EXCEPT !.body = Rewritten(captured'), !.more = FALSE])
            /\ UNCHANGED passthrough
    /\ UNCHANGED <<sent, lacks, app, streamVars, gone, wire>>

-------------------------------------------------------------------------------
(* The application streams one of Responses in chunks, or answers in one   *)
(* piece, and may raise at any time, also after its last chunk.            *)

(* http.response.start of a stream, forwarded at once.  The start of any   *)
(* other response is held until its body is complete.                      *)
StartStream ==
    /\ app = "reading"
    /\ BodyComplete
    /\ script' \in Responses
    /\ unsent' = script'
    /\ stream' = TRUE
    /\ app' = "streaming"
    /\ wire' = IF gone THEN wire ELSE <<"start">>
    /\ UNCHANGED <<requestVars, pending, finishEvent, terminal, gone>>

StartPlain ==
    /\ app = "reading"
    /\ BodyComplete
    /\ app' = "answering"
    /\ UNCHANGED <<requestVars, streamVars, gone, wire>>

SendPlain ==
    /\ app = "answering"
    /\ ~gone
    /\ wire' = <<"start", "text", "end">>
    /\ app' = "returned"
    /\ UNCHANGED <<requestVars, streamVars, gone>>

(* _sse_json: the first data line of an event decides.                     *)
Value(event) == IF event = <<>> THEN "none" ELSE event[1]

NoOutput == [out |-> <<>>, event |-> <<>>, finish |-> finishEvent, done |-> terminal]

\* Mutation of EventOut: no error event in front of [DONE].
EventOutUnrepaired(acc) ==
    [out |-> acc.out \o acc.event \o <<"sep">>, event |-> <<>>,
     finish |-> acc.finish \/ Value(acc.event) = "finish",
     done |-> acc.done \/ Value(acc.event) = "done"]

\* A delimited event: [DONE] without a finish event before it is repaired.
EventOut(acc) ==
    LET repair == IF Value(acc.event) = "done" /\ ~acc.finish THEN <<"error", "sep">> ELSE <<>>
    IN [out |-> acc.out \o repair \o acc.event \o <<"sep">>, event |-> <<>>,
        finish |-> acc.finish \/ Value(acc.event) = "finish",
        done |-> acc.done \/ Value(acc.event) = "done"]

\* Splitting sse_pending at its blank lines; event holds what is left.
Split(symbols) ==
    FoldLeft(LAMBDA acc, x : IF x = "sep" THEN EventOut(acc)
                             ELSE [acc EXCEPT !.event = Append(@, x)],
             NoOutput, symbols)

\* Mutation of Trailing: what is left is sent without being looked at.
TrailingUnseen(acc) ==
    IF acc.event = <<>> THEN acc
    ELSE [acc EXCEPT !.out = @ \o acc.event \o <<"sep">>, !.event = <<>>]

\* What is left at the end is an event too, but no repair is put before it.
Trailing(acc) ==
    IF acc.event = <<>> THEN acc
    ELSE [out |-> acc.out \o acc.event \o <<"sep">>, event |-> <<>>,
          finish |-> acc.finish \/ Value(acc.event) = "finish",
          done |-> acc.done \/ Value(acc.event) = "done"]

\* The end the stream lacks.
Ending(acc) ==
    IF acc.done THEN <<>>
    ELSE (IF acc.finish THEN <<>> ELSE <<"error", "sep">>) \o <<"done", "sep">>

SendChunk ==
    /\ app = "streaming"
    /\ ~gone
    /\ \E n \in 1 .. MaxChunk :
        /\ n < Len(unsent)
        /\ LET acc == Split(pending \o SubSeq(unsent, 1, n)) IN
            /\ wire' = wire \o acc.out
            /\ pending' = acc.event
            /\ finishEvent' = acc.finish
            /\ terminal' = acc.done
        /\ unsent' = SubSeq(unsent, n + 1, Len(unsent))
    /\ UNCHANGED <<requestVars, app, script, stream, gone>>

\* The last body; terminal_sse does not learn of the [DONE] appended here.
SendLast ==
    /\ app = "streaming"
    /\ ~gone
    /\ \E n \in 0 .. MaxChunk :
        /\ n = Len(unsent)
        /\ LET acc == Trailing(Split(pending \o unsent)) IN
            /\ wire' = wire \o acc.out \o Ending(acc) \o <<"end">>
            /\ finishEvent' = acc.finish
            /\ terminal' = acc.done
        /\ pending' = <<>>
        /\ unsent' = <<>>
    /\ app' = "sent"
    /\ UNCHANGED <<requestVars, script, stream, gone>>

\* It may also leave a response off, as when it has learnt of a disconnect.
AppReturns ==
    /\ app \in {"reading", "answering", "streaming", "sent"}
    /\ app' = "returned"
    /\ UNCHANGED <<requestVars, streamVars, gone, wire>>

ClientGone ==
    /\ app \in {"answering", "streaming", "sent"}
    /\ ~gone
    /\ gone' = TRUE
    /\ UNCHANGED <<requestVars, app, streamVars, wire>>

\* Mutation of Repairs: an exception repairs whatever was sent before.
RepairsAlways == stream

\* The condition under which an exception of the application ends the stream.
Repairs == stream /\ ~terminal

\* An exception of the application, its own or one of send().
AppRaises ==
    /\ app \in {"reading", "answering", "streaming", "sent"}
    /\ app' = "raised"
    /\ IF Repairs /\ ~gone
       THEN /\ wire' = wire \o <<"error", "sep", "done", "sep", "end">>
            /\ terminal' = TRUE
       ELSE UNCHANGED <<wire, terminal>>
    /\ UNCHANGED <<requestVars, script, unsent, stream, pending, finishEvent, gone>>

Next ==
    \/ ReceivePassthrough
    \/ ReceiveDirect
    \/ ReceiveOther
    \/ BufferBody
    \/ StartStream
    \/ StartPlain
    \/ SendPlain
    \/ SendChunk
    \/ SendLast
    \/ AppReturns
    \/ ClientGone
    \/ AppRaises

Spec == Init /\ [][Next]_vars

-------------------------------------------------------------------------------
(* Properties *)

(* The application reads the client's body: what it has received is in the *)
(* order sent, no unit twice or left out, and nothing is added but the     *)
(* template a complete deepseek-v4 request lacks.  A body it takes for     *)
(* complete is complete; one within the cap has its template, one over the *)
(* cap is replayed as it was sent, none the less whole (receive_wrapper,   *)
(* lines 191 to 232; docs/STREAM_DIAGNOSTICS.md, 94 to 99).                *)
BodyIntact ==
    /\ IsPrefix(Bodies(got), Rewritten(Bodies(sent)))
    /\ BodyComplete => Bodies(got) = IF Len(Bodies(sent)) > MaxCapture THEN Bodies(sent)
                                     ELSE Rewritten(Bodies(sent))

Has(x) == \E i \in DOMAIN wire : wire[i] = x
Wants(x) == \E i \in DOMAIN script : script[i] = x
Before(x, y) == \A j \in DOMAIN wire : wire[j] = y => \E i \in 1 .. j : wire[i] = x

(* A stream never looks complete unless the application finished it: in    *)
(* front of [DONE] the client has seen a finish event or the error, and a  *)
(* stream that was ended has a [DONE].  It holds however the application   *)
(* ends, by EOF, exception or [DONE], but for one way: a last [DONE] that  *)
(* lacks its blank line (line 326) is passed on with nothing before it.    *)
FailsClosed ==
    LET unrepaired == script # <<>> /\ Last(script) = "done" /\ ~Wants("finish")
    IN stream => /\ Before("finish", "done") \/ Before("error", "done") \/ unrepaired
                 /\ Has("end") => Has("done")

(* The events of the application reach the client in order and unchanged,  *)
(* all of them once its last body is sent, with nothing but errors and the *)
(* [DONE]s it lacks added; no error is added to a stream that has its      *)
(* finish event and is not cut by an exception (transform_event and lines  *)
(* 309 to 334).                                                            *)
Transparent ==
    LET lines == SelectSeq(wire, LAMBDA x : x \notin {"start", "sep", "error", "end"})
        mine  == SelectSeq(script, LAMBDA x : x # "sep")
    IN stream =>
        /\ \E n \in 0 .. Len(mine) :
            /\ n <= Len(lines)
            /\ SubSeq(lines, 1, n) = SubSeq(mine, 1, n)
            /\ \A i \in n + 1 .. Len(lines) : lines[i] = "done"
            /\ app = "sent" => n = Len(mine)
        /\ Has("error") => ~Wants("finish") \/ app = "raised"

(* The client is told the end once.  The exception: the application raises *)
(* after its last body and had sent no [DONE] of its own; terminal_sse     *)
(* does not record the [DONE] that line 333 appends, so line 340 ends the  *)
(* stream again.                                                           *)
EndsOnce ==
    Cardinality({i \in DOMAIN wire : wire[i] = "end"}) > 1 => app = "raised" /\ ~Wants("done")
==============================================================================
