------------------------------ MODULE MCFrontend ------------------------------
(***************************************************************************)
(* The two components between a client and the engine, each on its own     *)
(* inputs: a behaviour is one request through the middleware or one output *)
(* through the streaming parser.                                           *)
(***************************************************************************)
EXTENDS Integers, Sequences, FiniteSets

CONSTANTS
    Cap,            \* MaxCapture
    MaxMessages,    \* bound on the messages of a request
    Chunk           \* bound on the symbols of a chunk or a delta

VARIABLES part,
          sent, lacks, inbox, delivered, buffered, captured, passthrough, got, app, script, unsent,
          stream, pending, finishEvent, terminal, gone, wire,
          text, offered, suppressed, thinking, fed, mode, start, buffer, engine, events, over, rejected, last

middlewareVars == <<sent, lacks, inbox, delivered, buffered, captured, passthrough, got, app,
                    script, unsent, stream, pending, finishEvent, terminal, gone, wire>>
parserVars == <<text, offered, suppressed, thinking, fed, mode, start, buffer, engine, events,
                over, rejected, last>>

-------------------------------------------------------------------------------
(* What clients send: bodies of up to Cap units each, all but the last with *)
(* more_body, or a request that is cut before its last message.             *)
Sizes(n) == [1 .. n -> 0 .. Cap]
Units(s, i) == [k \in 1 .. s[i] |-> <<i, k>>]
Requests ==
    UNION {{[i \in 1 .. n |-> [type |-> "request", body |-> Units(s, i), more |-> i < n \/ cut]] :
               s \in Sizes(n), cut \in BOOLEAN} : n \in 1 .. MaxMessages}

(* What the application streams: text, a finish event and [DONE], cut      *)
(* anywhere, so that the last event may lack its blank line.               *)
Lines == {<<"text", "finish", "done">>, <<"text", "text", "finish">>, <<"text", "done">>, <<"finish", "text", "done">>}
Delimited(l) == [i \in 1 .. 2 * Len(l) |-> IF i % 2 = 1 THEN l[(i + 1) \div 2] ELSE "sep"]
Responses == UNION {{SubSeq(Delimited(l), 1, n) : n \in 0 .. 2 * Len(l)} : l \in Lines}

D == INSTANCE Diagnostics WITH MaxCapture <- Cap, MaxChunk <- Chunk

-------------------------------------------------------------------------------
(* What the model writes: wrappers opened and closed by any tags, and one  *)
(* native envelope of two calls, cut anywhere.                             *)
Pieces == {<<"t">>, <<"p">>, <<"<", "x", ">">>, <<"<", "w", ">">>,
           <<"<", "/", "x", ">">>, <<"<", "/", "v", ">">>}
WrapperTexts ==
    {a \o b \o c : a \in Pieces, b \in Pieces \cup {<<>>}, c \in Pieces \cup {<<>>}}
Native == <<"t", "[", "TOOL_START", "]", "[", "INVOKE_PREFIX", "]", "n", "[", "INVOKE_NAME_END", "]",
            "t", "[", "INVOKE_END", "]", "[", "INVOKE_PREFIX", "]", "n", "[", "INVOKE_NAME_END", "]",
            "[", "TOOL_END", "]", "t">>
Thought == <<"[", "THINK_START", "]", "t", "[", "TOOL_START", "]", "t">>
NativeTexts == {SubSeq(Native, 1, n) : n \in 1 .. Len(Native)} \cup {Thought}
Texts == WrapperTexts \cup NativeTexts
ToolSets == {{}, {"execute_code"}, {"write_file", "execute_code"}}

H == INSTANCE HermesFeed WITH MaxDelta <- Chunk

-------------------------------------------------------------------------------

NoRequest ==
    /\ sent = <<>> /\ lacks = FALSE /\ inbox = <<>> /\ delivered = FALSE /\ buffered = <<>> /\ captured = <<>>
    /\ passthrough = <<>> /\ got = <<>> /\ app = "none" /\ script = <<>> /\ unsent = <<>>
    /\ stream = FALSE /\ pending = <<>> /\ finishEvent = FALSE /\ terminal = FALSE
    /\ gone = FALSE /\ wire = <<>>

NoOutput ==
    /\ text = <<>> /\ offered = {} /\ suppressed = FALSE /\ thinking = FALSE /\ fed = 0 /\ mode = "search"
    /\ start = <<>> /\ buffer = <<>>
    /\ engine = [state |-> "CONTENT", tag |-> <<>>] /\ events = <<>> /\ over = TRUE
    /\ rejected = FALSE /\ last = 0

FrontendInit ==
    \/ part = "middleware" /\ D!Init /\ NoOutput
    \/ part = "parser" /\ H!Init /\ NoRequest

Middleware == part = "middleware" /\ D!Next /\ UNCHANGED <<part, parserVars>>
Parser == part = "parser" /\ H!Next /\ UNCHANGED <<part, middlewareVars>>

FrontendNext == Middleware \/ Parser

FrontendSpec == FrontendInit /\ [][FrontendNext]_<<part, middlewareVars, parserVars>>

-------------------------------------------------------------------------------
(* The properties of the two modules, each where its part runs.            *)

\* The application reads the client's body, with its template (receive_wrapper).
BodyIntact == part = "middleware" => D!BodyIntact

\* A client never takes a cut stream for a finished one (send_wrapper).
FailsClosed == part = "middleware" => D!FailsClosed

\* The application's own events reach the client unchanged (send_wrapper).
Transparent == part = "middleware" => D!Transparent

\* The client is told the end of a stream once (send_wrapper, exceptions).
EndsOnce == part = "middleware" => D!EndsOnce

\* The cut of the text into deltas does not matter (_preprocess_feed).
SplitIndependent == part = "parser" => H!SplitIndependent

\* The end of the output is judged rightly outside tags (parse_delta, finish_streaming).
LastDeltaJudged == part = "parser" => H!LastDeltaJudged

\* No accepted output leaves open an envelope that is the first of its kind (_incomplete_tool_markup).
FirstEnvelopesClosed == part = "parser" => H!FirstEnvelopesClosed

\* A wrapper becomes a call with its own body (_preprocess_feed).
BodiesWhole == part = "parser" => H!BodiesWhole
==============================================================================
