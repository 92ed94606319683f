------------------------------ MODULE HermesFeed ------------------------------
(***************************************************************************)
(* The streaming tool parser of patches/deepseek_v4_hermes_fallback.py:    *)
(* _preprocess_feed rewrites Hermes wrappers to native DSML as the deltas  *)
(* come in, the engine's transition table recognises the DSML, and         *)
(* parse_delta drops the last result when an envelope is incomplete.       *)
(*                                                                         *)
(* Text is a sequence of symbols, each standing for a run of characters. A *)
(* Hermes tag is three or four symbols and a native tag three, so that any *)
(* of them may be cut by the end of a delta.  The symbol "t" is ordinary   *)
(* text and "p" a <path>...</path><content>...</content> pair.             *)
(***************************************************************************)
EXTENDS Integers, Sequences, FiniteSets, SequencesExt

CONSTANTS
    Texts,          \* model outputs
    ToolSets,       \* the tools requests may offer
    MaxDelta        \* bound on the symbols of a delta

VARIABLES
    text,           \* the model's output
    offered,        \* the tools of the request
    suppressed,     \* _suppress_tool_calls
    thinking,       \* the chat template opens with reasoning
    fed,            \* symbols of it that have been fed
    mode,           \* _hermes_tag_mode: "search" or the tool of the open wrapper
    start,          \* _hermes_tag_start
    buffer,         \* _hermes_tag_buffer
    engine,         \* the engine: its state and the symbols of a tag it holds
    events,         \* the events of the results handed to the client
    over,           \* the output has ended
    rejected,       \* history: its end was rejected as incomplete
    last            \* history: the size of the newest delta

requestVars == <<text, offered, suppressed, thinking>>
vars == <<requestVars, fed, mode, start, buffer, engine, events, over, rejected, last>>

(* _HERMES_FALLBACK_OPENERS and _HERMES_FALLBACK_CLOSERS *)
OpenCode == <<"<", "x", ">">>
OpenFile == <<"<", "w", ">">>
OpenFiles == <<"<", "v", ">">>
AllOpeners == {OpenCode, OpenFile, OpenFiles}
ToolOf(opener) == IF opener = OpenCode THEN "execute_code" ELSE "write_file"
Closers(tool) ==
    IF tool = "execute_code" THEN {<<"<", "/", "x", ">">>}
    ELSE {<<"<", "/", "w", ">">>, <<"<", "/", "v", ">">>}

(* _fallback_openers: those of the tools offered *)
Openers == {o \in AllOpeners : ToolOf(o) \in offered}

(* The wrappers _preprocess_feed looks for: none, it returns at once. *)
Active == IF suppressed THEN {} ELSE Openers

(* A native tag of the text, and the calls the converters write. *)
Tag(x) == <<"[", x, "]">>

ExecuteCodeToDsml(body) ==
    Tag("TOOL_START") \o Tag("INVOKE_PREFIX") \o <<"execute_code">> \o Tag("INVOKE_NAME_END")
        \o body \o Tag("INVOKE_END") \o Tag("TOOL_END")

(* One invoke per path/content pair of the body; FALSE when there is none. *)
WriteFileToDsml(body) ==
    LET pairs == SelectSeq(body, LAMBDA x : x = "p")
        call  == Tag("INVOKE_PREFIX") \o <<"write_file">> \o Tag("INVOKE_NAME_END")
                     \o <<"p">> \o Tag("INVOKE_END")
    IN IF pairs = <<>> THEN <<>>
       ELSE Tag("TOOL_START") \o FlattenSeq([i \in DOMAIN pairs |-> call]) \o Tag("TOOL_END")

-------------------------------------------------------------------------------
(* _preprocess_feed *)

At(s, tag, i) == i + Len(tag) - 1 <= Len(s) /\ SubSeq(s, i, i + Len(tag) - 1) = tag
Matches(s, tags) == {m \in (1 .. Len(s)) \X tags : At(s, m[2], m[1])}
Earliest(matches) == CHOOSE m \in matches : \A n \in matches : m[1] <= n[1]

LongestTag(tags) == CHOOSE n \in {Len(t) : t \in tags} : \A t \in tags : Len(t) <= n

\* Mutation of Keep: one symbol short of a cut tag.
KeepShort(tags) == LongestTag(tags) - 2

\* The symbols held back because they may begin a tag.
Keep(tags) == LongestTag(tags) - 1

HoldBack(f, tags) ==
    LET n == Len(f.buffer) - Keep(tags) IN
    IF n > 0
    THEN [f EXCEPT !.out = @ \o SubSeq(f.buffer, 1, n),
                   !.buffer = SubSeq(@, n + 1, Len(@)), !.stop = TRUE]
    ELSE [f EXCEPT !.stop = TRUE]

SearchOpener(f) ==
    LET found == Matches(f.buffer, Active) IN
    IF found = {} THEN HoldBack(f, Active)
    ELSE LET m == Earliest(found) IN
         [f EXCEPT !.out = @ \o SubSeq(f.buffer, 1, m[1] - 1),
                   !.buffer = SubSeq(@, m[1] + Len(m[2]), Len(@)),
                   !.mode = ToolOf(m[2]), !.start = m[2]]

SearchCloser(f) ==
    LET found == Matches(f.buffer, Closers(f.mode)) IN
    IF found = {} THEN HoldBack(f, Closers(f.mode))
    ELSE LET m    == Earliest(found)
             body == SubSeq(f.buffer, 1, m[1] - 1)
             call == IF f.mode = "execute_code" THEN ExecuteCodeToDsml(body)
                     ELSE IF WriteFileToDsml(body) # <<>> THEN WriteFileToDsml(body)
                     ELSE f.start \o body \o m[2]
         IN [f EXCEPT !.out = @ \o call, !.mode = "search", !.start = <<>>,
                      !.buffer = SubSeq(@, m[1] + Len(m[2]), Len(@))]

RECURSIVE Scan(_)
Scan(f) ==
    IF f.stop THEN f
    ELSE Scan(IF f.mode = "search" THEN SearchOpener(f) ELSE SearchCloser(f))

Preprocess(delta, flush) ==
    LET f == Scan([out |-> <<>>, buffer |-> buffer \o delta, mode |-> mode,
                   start |-> start, stop |-> FALSE])
    IN IF Active = {} THEN [out |-> delta, buffer |-> buffer, mode |-> mode, start |-> start]
       ELSE IF flush THEN [f EXCEPT !.out = @ \o f.buffer, !.buffer = <<>>]
       ELSE f

-------------------------------------------------------------------------------
(* deepseek_v4_config: the transitions, with their events.  A tag that has *)
(* no transition in a state is content of that state.                      *)

Transitions == {
    <<"CONTENT", "THINK_START", "REASONING", <<"REASONING_START">>>>,
    <<"CONTENT", "THINK_END", "CONTENT", <<>>>>,
    <<"REASONING", "THINK_START", "REASONING", <<>>>>,
    <<"REASONING", "THINK_END", "CONTENT", <<"REASONING_END">>>>,
    <<"REASONING", "TOOL_START", "TOOL_PREAMBLE", <<"REASONING_END">>>>,
    <<"CONTENT", "TOOL_START", "TOOL_PREAMBLE", <<>>>>,
    <<"TOOL_PREAMBLE", "INVOKE_PREFIX", "TOOL_NAME", <<"CALL_START">>>>,
    <<"TOOL_NAME", "INVOKE_NAME_END", "TOOL_ARGS", <<>>>>,
    <<"TOOL_ARGS", "INVOKE_END", "TOOL_BETWEEN", <<"CALL_END">>>>,
    <<"TOOL_ARGS", "TOOL_END", "CONTENT", <<"CALL_END">>>>,
    <<"TOOL_BETWEEN", "INVOKE_PREFIX", "TOOL_NAME", <<"CALL_START">>>>,
    <<"TOOL_BETWEEN", "TOOL_END", "CONTENT", <<>>>> }

ToolStates == {"TOOL_PREAMBLE", "TOOL_NAME", "TOOL_ARGS", "TOOL_BETWEEN"}

(* The engine reads one symbol.  Content of the states without a content   *)
(* event is dropped.                                                       *)
Content(e, x) ==
    [e EXCEPT !.events = IF e.state \in {"TOOL_PREAMBLE", "TOOL_BETWEEN"} THEN @ ELSE Append(@, x)]

Read(e, x) ==
    IF e.tag = <<>> /\ x # "[" THEN Content(e, x)
    ELSE IF Len(e.tag) < 2 THEN [e EXCEPT !.tag = Append(@, x)]
    ELSE LET found == {t \in Transitions : t[1] = e.state /\ t[2] = e.tag[2]}
             t     == CHOOSE u \in found : TRUE
             read  == [e EXCEPT !.tag = <<>>]
         IN IF found = {} THEN Content(read, e.tag[2])
            ELSE [read EXCEPT !.state = t[3], !.events = @ \o t[4]]

Run(state, tag, symbols) ==
    FoldLeft(Read, [state |-> state, tag |-> tag, events |-> <<>>], symbols)

(* finish() of the engine: a call that is open is flushed to the client.   *)
Flushed(e) ==
    IF e.state \in {"TOOL_NAME", "TOOL_ARGS"} THEN Append(e.events, "FLUSH") ELSE e.events

-------------------------------------------------------------------------------

(* initial_state of deepseek_v4_config *)
Initial == IF thinking THEN "REASONING" ELSE "CONTENT"

Init ==
    /\ text \in Texts
    /\ offered \in ToolSets
    /\ suppressed \in BOOLEAN
    /\ thinking \in BOOLEAN
    /\ fed = 0
    /\ mode = "search"
    /\ start = <<>>
    /\ buffer = <<>>
    /\ engine = [state |-> Initial, tag |-> <<>>]
    /\ events = <<>>
    /\ over = FALSE
    /\ rejected = FALSE
    /\ last = 0

\* Mutation of Incomplete: only the engine is asked.
IncompleteEngine == engine.state \in ToolStates

\* parse_delta asks before the last delta is fed, finish_streaming after it.
Incomplete == engine.state \in ToolStates \/ mode # "search"

Feed(n, finished) ==
    LET f == Preprocess(SubSeq(text, fed + 1, fed + n), finished)
        e == Run(engine.state, engine.tag, f.out)
    IN
    /\ ~over
    /\ fed' = fed + n
    /\ mode' = f.mode
    /\ start' = f.start
    /\ buffer' = f.buffer
    /\ engine' = [state |-> e.state, tag |-> e.tag]
    /\ events' = IF ~finished THEN events \o e.events
                 ELSE IF Incomplete THEN events
                 ELSE events \o Flushed(e)
    /\ over' = finished
    /\ rejected' = (finished /\ Incomplete)
    /\ last' = n
    /\ UNCHANGED requestVars

ParseDelta == \E n \in 1 .. MaxDelta : fed + n <= Len(text) /\ Feed(n, FALSE)

\* The last delta carries the end of the text, or nothing.
ParseLastDelta == \E n \in 0 .. MaxDelta : fed + n = Len(text) /\ Feed(n, TRUE)

\* The end without a last delta.  What is held back is not flushed, and an
\* engine outside the tool states has nothing to finish.
FinishStreaming ==
    /\ ~over
    /\ fed = Len(text)
    /\ over' = TRUE
    /\ rejected' = Incomplete
    /\ last' = 0
    /\ UNCHANGED <<requestVars, fed, mode, start, buffer, engine, events>>

Next == ParseDelta \/ ParseLastDelta \/ FinishStreaming

Spec == Init /\ [][Next]_vars

-------------------------------------------------------------------------------
(* _incomplete_tool_markup, asked about the whole output by parse and      *)
(* extract_tool_calls_from_content.  Native parameters are not modelled.   *)

Count(s, tag) == Cardinality({i \in DOMAIN s : At(s, tag, i)})
From(s, tag) == LET i == CHOOSE i \in DOMAIN s : At(s, tag, i) /\ \A k \in 1 .. i - 1 : ~At(s, tag, k)
                IN SubSeq(s, i, Len(s))

IncompleteNativeMarkup(s) ==
    /\ Count(s, Tag("TOOL_START")) > 0
    /\ LET body == From(s, Tag("TOOL_START")) IN
        \/ Count(body, Tag("TOOL_END")) = 0
        \/ Count(body, Tag("INVOKE_PREFIX")) # Count(body, Tag("INVOKE_END"))

\* Mutation of IncompleteMarkup: a closer may come before its opener.
ClosedAnywhere(s) ==
    /\ offered # {}
    /\ \/ IncompleteNativeMarkup(s)
       \/ \E o \in Openers : Count(s, o) > 0 /\ \A c \in Closers(ToolOf(o)) : Count(s, c) = 0

\* Only the first opener of a kind is looked behind.
IncompleteMarkup(s) ==
    /\ offered # {}
    /\ \/ IncompleteNativeMarkup(s)
       \/ \E o \in Openers :
            /\ Count(s, o) > 0
            /\ \A c \in Closers(ToolOf(o)) : Count(From(s, o), c) = 0

-------------------------------------------------------------------------------
(* Properties *)

(* A text fed in one delta that is not the last, and the engine after it.  *)
Whole(s) ==
    IF Active = {} THEN [out |-> s, buffer |-> <<>>, mode |-> "search", start |-> <<>>]
    ELSE Scan([out |-> <<>>, buffer |-> s, mode |-> "search", start |-> <<>>, stop |-> FALSE])
WholeRun(s) == Run(Initial, <<>>, Whole(s).out)

Fed == SubSeq(text, 1, fed)

(* Tags are recognised however the text is cut into deltas: the same       *)
(* wrapper is open as if all the text had come at once, and while there    *)
(* was no wrapper, the same text was passed on, nothing twice, nothing     *)
(* lost and no more held back than a tag may need (lines 364 to 417).  A   *)
(* last delta leaves nothing held back.                                    *)
SplitIndependent ==
    /\ mode = Whole(Fed).mode
    /\ start = Whole(Fed).start
    /\ Matches(Fed, Active) = {} =>
        \/ buffer = Whole(Fed).buffer /\ (over \/ events = WholeRun(Fed).events)
        \/ over /\ buffer = <<>>

(* An envelope is open at the end of a text, what is held back included.   *)
Open(s) ==
    \/ Whole(s).mode # "search"
    \/ Run(Initial, <<>>, Whole(s).out \o Whole(s).buffer).state \in ToolStates

(* The end of an output is rejected if and only if an envelope, native or  *)
(* wrapped, is open there, and then and otherwise no call of an open       *)
(* envelope is flushed to the client.  It is promised when no envelope was *)
(* opened or closed in the last delta or in what was held back before it:  *)
(* line 426 looks at the state before that delta is fed, and finds an      *)
(* envelope that closes in it open and one that opens in it closed         *)
(* (parse_delta, lines 423 to 445; finish_streaming, lines 455 to 464).    *)
LastDeltaJudged ==
    LET held  == IF Active = {} THEN 0 ELSE Keep(Active)
        quiet == \A n \in Len(text) - last - held .. Len(text) :
                    n >= 0 => (Open(SubSeq(text, 1, n)) <=> Open(text))
    IN (over /\ quiet) =>
        /\ rejected <=> Open(text)
        /\ \A i \in DOMAIN events : events[i] # "FLUSH"

(* An output that the non-streaming path accepts leaves no envelope open   *)
(* when every tag that opens one comes once.  "Return true when output     *)
(* starts a tool envelope but never closes it" (line 269) promises it of   *)
(* every output, but lines 278 to 291 look behind the first opener of a    *)
(* kind only: <x></x><x> is accepted with a wrapper open (README,          *)
(* "Observations").                                                        *)
FirstEnvelopesClosed ==
    LET once == \A tag \in AllOpeners \cup {Tag("TOOL_START")} : Count(text, tag) <= 1
    IN (once /\ offered # {} /\ ~IncompleteMarkup(text)) => ~Open(text)

(* A wrapper that became a call became the call with its own body: the     *)
(* calls made so far are those of the same text fed at once.  "This        *)
(* compatibility path buffers only enough text to recognize tags split     *)
(* across streaming deltas" (line 349): the body itself is not kept.       *)
BodiesWhole ==
    ~over => \A i \in DOMAIN events : events[i] = "CALL_END" =>
        IsPrefix(SubSeq(events, 1, i), WholeRun(Fed).events)
==============================================================================
