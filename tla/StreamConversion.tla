-------------------------- MODULE StreamConversion --------------------------
(***************************************************************************)
(* The streaming half of the format converter (internal/converter): a      *)
(* provider answers in the stream format of one API, and a client of       *)
(* another API hears it through a converter that keeps a TransformState.   *)
(* ConvertingResponseWriter.writeStream hands every Write of an adapter to *)
(* the converter, wherever the write ends in the middle of an event.       *)
(*                                                                         *)
(* What an event says is left out, and who it is about is kept: a piece of *)
(* thinking, of text, or of the arguments of a call.  Names and wording of *)
(* events, usage numbers and stop reasons are left out.                    *)
(***************************************************************************)
EXTENDS Integers, Sequences, FiniteSets, SequencesExt, FiniteSetsExt, TLC

CONSTANTS
  Routes,     \* <<format of the provider, format of the client>>
  MaxPieces,  \* bound: pieces of one answer
  Freeform,   \* calls of tools the client declared as freeform (Codex)
  Copes       \* per oddity of providers: the clients whose converter copes

StreamAssumption ==
  /\ Routes \subseteq {<<"openai", "claude">>, <<"gemini", "claude">>,
                       <<"codex", "claude">>, <<"claude", "openai">>,
                       <<"gemini", "openai">>, <<"codex", "openai">>,
                       <<"openai", "codex">>, <<"openai", "gemini">>}
  /\ MaxPieces \in Nat
ASSUME StreamAssumption

VARIABLES
  route,   \* the formats of this answer
  up,      \* the provider's side of the stream
  wire,    \* what the provider sent and the adapter has not yet written
  buffer,  \* state.Buffer: the incomplete line at the end of the last write
  ts,      \* the rest of TransformState, and of the converter's own state
  got      \* what the client has heard

streamVars == <<route, up, wire, buffer, ts, got>>

ProviderFormat == route[1]
ClientFormat == route[2]
None == -1
Nothing == <<>>  \* a function with no arguments

(***************************************************************************)
(* What a provider may send.  One event is about one piece.  The oddities  *)
(* are those of providers that only claim to be compatible: an answer      *)
(* without id, a finish reason that is repeated, text that goes on after   *)
(* calls, a call whose name comes after its id, arguments of Codex that    *)
(* come whole and never in pieces.                                         *)
(***************************************************************************)
Event(type, kind, at, marks) == [type |-> type, kind |-> kind, at |-> at, marks |-> marks]
Plain(type) == Event(type, "none", None, {})
Of(type, kinds) == {Event(type, k, None, {}) : k \in kinds}

Odd(oddity) == ClientFormat \in Copes[oddity]
More == Len(up.told) < MaxPieces /\ up.items < MaxPieces
Calls == DOMAIN up.names
NewCall == Cardinality(Calls)

(* A chunk of OpenAI's: the name and the arguments of a call may come      *)
(* after its id, in any order.                                             *)
OpenAIEvents ==
  CASE up.phase \in {"new", "open"} ->
         {e \in Of("delta", {"think", "text"}) : More /\ (Calls = {} \/ Odd("resumed"))}
           \cup {Event("delta", "call", NewCall, {"id"} \cup m) :
                   m \in {n \in SUBSET {"name", "args"} :
                            More /\ ("name" \in n \/ Odd("unnamed"))}}
           \cup {Event("delta", "call", t, m) : t \in Calls,
                   m \in IF More THEN {{"args"}, {"args", "name"}} ELSE {{"name"}}}
           \cup {e \in {Plain("finish")} : \A t \in Calls : up.names[t]}
    [] up.phase = "finished" ->
         {Plain("usage"), Plain("done")} \cup {e \in {Plain("finish")} : Odd("repeated")}
    [] OTHER -> {}

(* One block after the other; a call begins with an empty delta. *)
ClaudeEvents ==
  CASE up.phase = "new" -> {Plain("message_start")}
    [] up.phase = "open" /\ up.block = "none" ->
         {e \in {Event("content_block_start", k, up.items, {}) : k \in {"think", "text", "call"}} : More}
           \cup {Plain("message_stop")}
    [] up.phase = "open" /\ up.block = "call" ->
         {Event("content_block_delta", "call", up.items - 1, {})}
    [] up.phase = "open" /\ up.block = "calling" ->
         {e \in {Event("content_block_delta", "call", up.items - 1, {"args"})} : More}
           \cup {Plain("content_block_stop")}
    [] up.phase = "open" ->
         {e \in Of("content_block_delta", {up.block}) : More} \cup {Plain("content_block_stop")}
    [] OTHER -> {}

(* A part is whole, the arguments of a call with it. *)
GeminiEvents ==
  CASE up.phase \in {"new", "open"} ->
         {e \in Of("part", {"think", "text"}) \cup {Event("part", "call", NewCall, {"args"})} : More}
           \cup {Plain("finish")}
    [] up.phase = "finished" -> {Plain("usage")}
    [] OTHER -> {}

(* Parts of thinking, parts of messages and calls, one after the other. *)
CodexEvents ==
  CASE up.phase = "new" -> {Plain("response.created")}
    [] up.phase = "open" /\ up.block = "none" ->
         {e \in Of("part.added", {"think", "text"})
                  \cup {Event("output_item.added", "call", up.items, {})} : More}
           \cup {Plain("response.completed")}
    [] up.phase = "open" /\ up.block = "call" ->
         {e \in {Event("arguments.delta", "call", up.items - 1, {"args"}),
                 Event("output_item.done", "call", up.items - 1, {"args"})} :
            More /\ (e.type = "arguments.delta" \/ Odd("whole"))}
           \cup {Event("output_item.done", "call", up.items - 1, {})}
    [] up.phase = "open" /\ up.block = "calling" ->
         {e \in {Event("arguments.delta", "call", up.items - 1, {"args"})} : More}
           \cup {Event("output_item.done", "call", up.items - 1, {"args"})}
    [] up.phase = "open" ->
         {e \in Of("delta", {up.block}) : More} \cup Of("part.done", {up.block})
    [] up.phase = "finished" -> {Plain("done")}
    [] OTHER -> {}

Events ==
  CASE ProviderFormat = "openai" -> OpenAIEvents
    [] ProviderFormat = "claude" -> ClaudeEvents
    [] ProviderFormat = "gemini" -> GeminiEvents
    [] ProviderFormat = "codex"  -> CodexEvents

(* What an event tells, when it is new. *)
Begins(e) == e.kind = "call" /\ e.at \notin Calls
Repeats(e) == e.type = "output_item.done" /\ up.block = "calling"
Speaks(e) ==
  e.type \in {"delta", "part", "content_block_delta"} /\ e.kind \in {"think", "text"}

Pieces(e) ==
  (IF Begins(e) THEN <<<<"call", e.at>>>> ELSE <<>>)
    \o (IF "args" \in e.marks /\ ~Repeats(e) THEN <<<<"args", e.at>>>> ELSE <<>>)
    \o (IF Speaks(e) THEN <<<<e.kind, None>>>> ELSE <<>>)

PhaseAfter(e) ==
  CASE e.type \in {"finish", "message_stop", "response.completed"} -> "finished"
    [] e.type = "done" -> "ended"
    [] e.type = "usage" -> up.phase
    [] OTHER -> "open"

BlockAfter(e) ==
  CASE e.type \in {"content_block_start", "part.added", "output_item.added"} -> e.kind
    [] e.type \in {"content_block_stop", "part.done", "output_item.done"} -> "none"
    [] e.kind = "call" /\ up.block = "call" -> "calling"
    [] OTHER -> up.block

NamesAfter(e) ==
  IF e.kind # "call" THEN up.names
  ELSE (e.at :> \/ ProviderFormat # "openai" \/ "name" \in e.marks
                \/ e.at \in Calls /\ up.names[e.at]) @@ up.names

UpAfter(e) ==
  [up EXCEPT !.phase = PhaseAfter(e), !.block = BlockAfter(e), !.names = NamesAfter(e),
             !.items = IF BlockAfter(e) # "none" /\ up.block = "none" THEN @ + 1 ELSE @,
             !.told = @ \o Pieces(e)]

-----------------------------------------------------------------------------
(***************************************************************************)
(* Lines.  An event is a line of data, cut in two where a write may end,   *)
(* and an empty line; Claude's and Codex's have their name on a line       *)
(* before.  The name of an event is not looked at, but for [DONE].         *)
(***************************************************************************)
NewLine == <<"newline">>
Text(e) ==
  (IF ProviderFormat \in {"claude", "codex"} THEN <<<<"name">>, NewLine>> ELSE <<>>)
    \o <<<<"head", e>>, <<"tail", e>>, NewLine, NewLine>>

(* ParseSSE: the data of a line counts when the next line is empty, or     *)
(* when the text ends there; the line that is not ended is kept for later, *)
(* and data that waits for an empty line is not.                           *)
DataLine(text, i) ==
  /\ i > 2 /\ text[i] = NewLine
  /\ text[i - 2][1] = "head" /\ text[i - 1][1] = "tail"
  /\ i < Len(text) => text[i + 1] = NewLine

ParseSSE(text) ==
  LET ends == SetToSortSeq({i \in DOMAIN text : DataLine(text, i)}, <)
      last == Max({0} \cup {i \in DOMAIN text : text[i] = NewLine})
  IN [events |-> [k \in DOMAIN ends |-> text[ends[k] - 1][2]],
      remaining |-> SubSeq(text, last + 1, Len(text))]

-----------------------------------------------------------------------------
(* What a client hears.  Claude's and Codex's open numbered items, speak   *)
(* in them and close them; OpenAI's and Gemini's only number the calls.    *)
Begin == [do |-> "begin"]
Open(at, kind, call) ==
  [do |-> "open", at |-> at, kind |-> kind, call |-> call, input |-> FALSE]
OpenWithInput(at, call) == [Open(at, "call", call) EXCEPT !.input = TRUE]
Say(at, kind) == [do |-> "say", at |-> at, kind |-> kind]
Close(at) == [do |-> "close", at |-> at]
End(n) == [do |-> "end", items |-> n]  \* n: the items the last event lists
Piece(kind) == [do |-> "piece", kind |-> kind]
CallChunk(at, call) == [do |-> "call", at |-> at, call |-> call]
Args(at) == [do |-> "args", at |-> at]
FinishChunk == [do |-> "finish"]
Mark == [do |-> "mark"]  \* data: [DONE]

(* What a client may count on, per event. *)
Fits(v, e) ==
  CASE e.do = "begin" -> v.phase = "new"
    [] e.do = "open"  -> v.phase = "open" /\ e.at = Cardinality(DOMAIN v.items)
    [] e.do = "say"   -> /\ v.phase = "open" /\ e.at \in DOMAIN v.items
                         /\ v.items[e.at].open /\ v.items[e.at].kind = e.kind
    [] e.do = "close" -> /\ v.phase = "open" /\ e.at \in DOMAIN v.items
                         /\ v.items[e.at].open
    [] e.do = "end"   -> /\ v.phase = "open"
                         /\ \A i \in DOMAIN v.items : ~v.items[i].open
                         /\ e.items \in {None, Cardinality(DOMAIN v.items)}
    [] e.do = "call"  -> /\ v.phase = "open"
                         /\ e.at \in DOMAIN v.items => v.items[e.at].call = e.call
                         /\ e.at \notin DOMAIN v.items =>
                              \A i \in DOMAIN v.items : v.items[i].call # e.call
    [] e.do = "args"  -> v.phase = "open" /\ e.at \in DOMAIN v.items
    [] e.do \in {"piece", "finish"} -> v.phase = "open"
    [] e.do = "mark"  -> v.phase = "closed"

ItemsAfter(v, e) ==
  CASE e.do = "open"  -> (e.at :> [kind |-> e.kind, call |-> e.call, open |-> TRUE]) @@ v.items
    [] e.do = "call"  -> (e.at :> [kind |-> "call", call |-> e.call, open |-> TRUE]) @@ v.items
    [] e.do = "close" -> [v.items EXCEPT ![e.at].open = FALSE]
    [] OTHER -> v.items

(* The pieces it hears: of which call, it has from the item.  Arguments in *)
(* the input of an item that opens are a piece of another kind, which one  *)
(* who collects deltas does not get.                                       *)
Heard(v, e) ==
  CASE e.do = "open" /\ e.kind = "call" ->
         <<<<"call", e.call>>>> \o IF e.input THEN <<<<"input", e.call>>>> ELSE <<>>
    [] e.do = "call" /\ e.at \notin DOMAIN v.items -> <<<<"call", e.call>>>>
    [] e.do = "say" /\ e.kind = "call" -> <<<<"args", v.items[e.at].call>>>>
    [] e.do = "args" -> <<<<"args", v.items[e.at].call>>>>
    [] e.do \in {"say", "piece"} -> <<<<e.kind, None>>>>
    [] OTHER -> <<>>

Hear(v, e) ==
  IF ~Fits(v, e) THEN [v EXCEPT !.broken = TRUE]
  ELSE [v EXCEPT !.phase = CASE e.do = "begin" -> "open"
                             [] e.do \in {"end", "finish"} -> "closed"
                             [] e.do = "mark" -> "marked"
                             [] OTHER -> @,
                 !.items = ItemsAfter(v, e),
                 !.heard = @ \o Heard(v, e)]

-----------------------------------------------------------------------------
(***************************************************************************)
(* The converters.  A step of one takes the state to [ts, out], the state  *)
(* after it and what it writes; Then puts one step behind another.         *)
(***************************************************************************)
Fresh ==
  [started |-> FALSE,    \* MessageID # "", Started, the stream's meta data
   index |-> 0,          \* CurrentIndex, BlockIndex, NextOutputIndex
   block |-> "none",     \* CurrentBlockType
   calls |-> Nothing,    \* ToolCalls, and the Func... maps
   sent |-> FALSE,       \* FinishSent, CompletedSent
   message |-> None,     \* MsgOutputIndex, once MsgItemAdded
   messageDone |-> FALSE,
   thinking |-> None,    \* ReasoningIndex, while ReasoningID # ""
   thoughts |-> 0]       \* len(Reasonings)

Quiet(s) == [ts |-> s, out |-> <<>>]
Write(s, out) == [ts |-> s, out |-> out]
Then(r, Step(_)) == LET n == Step(r.ts) IN Write(n.ts, r.out \o n.out)

(* The code ranges over its map of calls in a random order; here one order. *)
CallsOf(s) == SetToSortSeq(DOMAIN s.calls, <)
ForEachCall(s, Out(_)) == FlattenSeq([k \in DOMAIN CallsOf(s) |-> Out(CallsOf(s)[k])])
Copies(n, e) == [k \in 1 .. n |-> e]

(* Faulty form: the next block gets the index of the one that was left. *)
LeaveBlockInPlace(s, kinds) ==
  IF s.block \in kinds
  THEN Write([s EXCEPT !.block = "none"], <<Close(s.index)>>)
  ELSE Quiet(s)

(* To Claude, from OpenAI and from Gemini: thinking and text in blocks,    *)
(* one left before the next is entered.                                    *)
LeaveBlock(s, kinds) ==
  IF s.block \in kinds
  THEN Write([s EXCEPT !.index = @ + 1, !.block = "none"], <<Close(s.index)>>)
  ELSE Quiet(s)

EnterBlock(s, kind) ==
  IF s.block # kind THEN Write([s EXCEPT !.block = kind], <<Open(s.index, kind, None)>>)
  ELSE Quiet(s)

Speak(s, kind) ==
  LET Entered(x) == EnterBlock(x, kind)
      Said(x) == Write(x, <<Say(x.index, kind)>>)
  IN Then(Then(LeaveBlock(s, {"think", "text"} \ {kind}), Entered), Said)

StartOfOpenAI(s) ==
  IF s.started THEN Quiet(s) ELSE Write([s EXCEPT !.started = ~up.anonymous], <<Begin>>)

(* A call gets the next block, which stays open until the answer is done.  *)
(* Its name is that of the first chunk; without one the block is nobody's. *)
OpenAICall(s, e) ==
  LET Opened(x) == Write([x EXCEPT !.calls = (e.at :> x.index) @@ @, !.index = @ + 1],
                         <<Open(x.index, "call", IF "name" \in e.marks THEN e.at ELSE None)>>)
      Argued(x) == Write(x, IF "args" \in e.marks THEN <<Say(x.calls[e.at], "call")>> ELSE <<>>)
  IN IF e.at \in DOMAIN s.calls THEN Argued(s)
     ELSE Then(Then(LeaveBlock(s, {"think", "text"}), Opened), Argued)

HandleFinish(s) ==
  LET Ended(x) == Write([x EXCEPT !.calls = Nothing],
                        ForEachCall(x, LAMBDA t : <<Close(x.calls[t])>>) \o <<End(None)>>)
  IN Then(LeaveBlock(s, {"think", "text"}), Ended)

OpenAIToClaude(s, e) ==
  LET Part(x) == CASE e.type = "delta" /\ e.kind = "call" -> OpenAICall(x, e)
                   [] e.type = "delta" -> Speak(x, e.kind)
                   [] OTHER -> Quiet(x)  \* a finish reason is kept for later
  IN CASE e.type = "done" -> IF s.started THEN HandleFinish(s) ELSE Quiet(s)
       [] e.type = "usage" -> Quiet(s)
       [] OTHER -> Then(StartOfOpenAI(s), Part)

(* A call of Gemini's is one block with its arguments in the input of the  *)
(* start, and no delta.                                                    *)
GeminiToClaude(s, e) ==
  LET Started == IF s.started THEN Quiet(s) ELSE Write([s EXCEPT !.started = TRUE], <<Begin>>)
      Called(x) == Write([x EXCEPT !.index = @ + 1],
                         <<OpenWithInput(x.index, e.at), Close(x.index)>>)
      Part(x) ==
        CASE e.type = "part" /\ e.kind = "call" -> Then(LeaveBlock(x, {"think", "text"}), Called)
          [] e.type = "part" -> Speak(x, e.kind)
          [] e.type = "finish" ->
               Write([x EXCEPT !.block = "none"],
                     (IF x.block # "none" THEN <<Close(x.index)>> ELSE <<>>) \o <<End(None)>>)
          [] OTHER -> Quiet(x)
  IN Then(Started, Part)

CodexToClaude(s, e) ==
  LET nextBlock == [s EXCEPT !.index = @ + 1]
  IN CASE e.type = "response.created"   -> Write(s, <<Begin>>)
       [] e.type = "part.added"         -> Write(s, <<Open(s.index, e.kind, None)>>)
       [] e.type = "delta"              -> Write(s, <<Say(s.index, e.kind)>>)
       [] e.type = "output_item.added"  -> Write(s, <<Open(s.index, "call", e.at)>>)
       [] e.type = "arguments.delta"    -> Write(s, <<Say(s.index, "call")>>)
       [] e.type \in {"part.done", "output_item.done"} -> Write(nextBlock, <<Close(s.index)>>)
       [] e.type = "response.completed" -> Write(s, <<End(None)>>)
       [] OTHER -> Quiet(s)

-----------------------------------------------------------------------------
(* To OpenAI: a call keeps the number its provider gave its block or item; *)
(* Gemini's are counted.                                                   *)
ClaudeToOpenAI(s, e) ==
  CASE e.type = "message_start" -> Quiet([s EXCEPT !.started = TRUE])
    [] e.type = "content_block_start" ->
         Quiet([s EXCEPT !.index = e.at,
                         !.calls = IF e.kind = "call" THEN (e.at :> e.at) @@ @ ELSE @])
    [] e.type = "content_block_delta" /\ e.kind # "call" ->
         Write(s, IF s.started THEN <<Piece(e.kind)>> ELSE <<>>)
    [] e.type = "content_block_delta" /\ s.started /\ s.index \in DOMAIN s.calls ->
         Write(s, <<CallChunk(s.index, s.calls[s.index])>>
                    \o IF "args" \in e.marks THEN <<Args(s.index)>> ELSE <<>>)
    [] e.type = "message_stop" -> Write(s, <<FinishChunk, Mark>>)
    [] OTHER -> Quiet(s)

GeminiToOpenAI(s, e) ==
  CASE e.type = "part" /\ e.kind = "call" ->
         Write([s EXCEPT !.index = @ + 1], <<CallChunk(s.index, e.at), Args(s.index)>>)
    [] e.type = "part"   -> Write(s, <<Piece(e.kind)>>)
    [] e.type = "finish" -> Write(s, <<FinishChunk, Mark>>)
    [] OTHER -> Quiet(s)

(* The arguments that come with the end of a call are passed on only when  *)
(* none came before.  The blank line between parts of thinking is layout.  *)
CodexToOpenAI(s, e) ==
  LET Finished == IF s.sent THEN Quiet(s) ELSE Write([s EXCEPT !.sent = TRUE], <<FinishChunk>>)
      Marked(x) == Write(x, <<Mark>>)
      Whole == <<CallChunk(e.at, e.at)>> \o IF "args" \in e.marks THEN <<Args(e.at)>> ELSE <<>>
  IN CASE e.type = "delta" -> Write(s, <<Piece(e.kind)>>)
       [] e.type = "output_item.added" ->
            Write([s EXCEPT !.calls = (e.at :> FALSE) @@ @], <<CallChunk(e.at, e.at)>>)
       [] e.type = "arguments.delta" ->
            Write([s EXCEPT !.calls = (e.at :> TRUE) @@ @], <<Args(e.at)>>)
       [] e.type = "output_item.done" ->
            Write(s, IF e.at \in DOMAIN s.calls /\ s.calls[e.at] THEN <<>> ELSE Whole)
       [] e.type = "response.completed" -> Finished
       [] e.type = "done" -> Then(Finished, Marked)
       [] OTHER -> Quiet(s)

(* To Gemini: calls are kept back until the finish reason. *)
OpenAIToGemini(s, e) ==
  LET known == IF e.at \in DOMAIN s.calls THEN s.calls[e.at] ELSE 0
      more == IF "args" \in e.marks THEN 1 ELSE 0
  IN CASE e.type = "delta" /\ e.kind = "call" ->
            Quiet([s EXCEPT !.calls = (e.at :> known + more) @@ @])
       [] e.type = "delta" -> Write(s, <<Piece(e.kind)>>)
       [] e.type = "finish" ->
            Write([s EXCEPT !.calls = Nothing],
                  ForEachCall(s, LAMBDA t : <<CallChunk(t, t)>> \o Copies(s.calls[t], Args(t)))
                    \o <<FinishChunk>>)
       [] OTHER -> Quiet(s)

-----------------------------------------------------------------------------
(* From OpenAI to Codex.  Every message, reasoning and call is an item     *)
(* with an index of its own.                                               *)
StopReasoning(s) ==
  IF s.thinking = None THEN Quiet(s)
  ELSE Write([s EXCEPT !.thinking = None, !.thoughts = @ + 1], <<Close(s.thinking)>>)

AddMessage(s) ==
  IF s.message # None THEN Quiet(s)
  ELSE Write([s EXCEPT !.message = s.index, !.index = @ + 1], <<Open(s.index, "text", None)>>)

CloseMessage(s) ==
  IF s.message = None \/ s.messageDone THEN Quiet(s)
  ELSE Write([s EXCEPT !.messageDone = TRUE], <<Close(s.message)>>)

AddReasoning(s) ==
  IF s.thinking # None THEN Quiet(s)
  ELSE Write([s EXCEPT !.thinking = s.index, !.index = @ + 1], <<Open(s.index, "think", None)>>)

(* A call is added when its id and its name are known, and what has come   *)
(* of its arguments is passed on from then; a freeform one is passed on    *)
(* at its end.                                                             *)
UnknownCall == [id |-> FALSE, name |-> FALSE, at |-> None, args |-> 0, sent |-> 0, done |-> FALSE]

LearnCall(s, e) ==
  LET c == IF e.at \in DOMAIN s.calls THEN s.calls[e.at] ELSE UnknownCall
  IN [s EXCEPT !.calls = (e.at :> [c EXCEPT !.id = @ \/ "id" \in e.marks,
                                            !.name = @ \/ "name" \in e.marks,
                                            !.args = IF "args" \in e.marks THEN @ + 1 ELSE @]) @@ @]

AddCall(s, t) ==
  IF s.calls[t].at # None \/ ~s.calls[t].id \/ ~s.calls[t].name THEN Quiet(s)
  ELSE Write([s EXCEPT !.calls[t].at = s.index, !.index = @ + 1], <<Open(s.index, "call", t)>>)

(* Faulty form: what was already passed on is passed on again. *)
FlushCallAnew(s, t) ==
  LET c == s.calls[t]
  IN IF c.at = None \/ (c.name /\ t \in Freeform) THEN Quiet(s)
     ELSE Write([s EXCEPT !.calls[t].sent = c.args], Copies(c.args, Say(c.at, "call")))

FlushCall(s, t) ==
  LET c == s.calls[t]
  IN IF c.at = None \/ (c.name /\ t \in Freeform) THEN Quiet(s)
     ELSE Write([s EXCEPT !.calls[t].sent = c.args], Copies(c.args - c.sent, Say(c.at, "call")))

CodexCall(s, e) ==
  LET Added(x) == AddCall(LearnCall(x, e), e.at)
      Flushed(x) == FlushCall(x, e.at)
  IN Then(Then(Then(StopReasoning(s), CloseMessage), Added), Flushed)

CloseCalls(s) ==
  LET CloseCall(t) ==
        IF s.calls[t].done \/ ~s.calls[t].id THEN <<>>
        ELSE (IF t \in Freeform THEN Copies(s.calls[t].args, Say(s.calls[t].at, "call")) ELSE <<>>)
               \o <<Close(s.calls[t].at)>>
  IN Write([s EXCEPT !.calls = [t \in DOMAIN @ |-> [@[t] EXCEPT !.done = @ \/ s.calls[t].id]]],
           ForEachCall(s, CloseCall))

(* response.completed, once, with all items in it. *)
Complete(s) ==
  LET listed == s.thoughts + (IF s.message # None THEN 1 ELSE 0)
                  + Cardinality({t \in DOMAIN s.calls : s.calls[t].id})
  IN IF s.sent THEN Quiet(s) ELSE Write([s EXCEPT !.sent = TRUE], <<End(listed)>>)

OpenAIToCodex(s, e) ==
  LET Started == IF s.started THEN Quiet(s) ELSE Write([s EXCEPT !.started = TRUE], <<Begin>>)
      Spoke(x) == Then(Then(StopReasoning(x), AddMessage), LAMBDA y : Write(y, <<Say(y.message, "text")>>))
      Thought(x) == Then(AddReasoning(x), LAMBDA y : Write(y, <<Say(y.thinking, "think")>>))
      Part(x) ==
        CASE e.type = "delta" /\ e.kind = "text"  -> Spoke(x)
          [] e.type = "delta" /\ e.kind = "think" -> Thought(x)
          [] e.type = "delta" -> CodexCall(x, e)
          [] e.type = "finish" ->
               Then(Then(Then(CloseMessage(x), StopReasoning), CloseCalls), Complete)
          [] OTHER -> Quiet(x)
  IN IF e.type = "done" THEN Quiet(s) ELSE Then(Started, Part)

-----------------------------------------------------------------------------
(* TransformStreamChunk: the converter of the route. *)
Convert(s, e) ==
  CASE route = <<"openai", "claude">> -> OpenAIToClaude(s, e)
    [] route = <<"gemini", "claude">> -> GeminiToClaude(s, e)
    [] route = <<"codex", "claude">>  -> CodexToClaude(s, e)
    [] route = <<"claude", "openai">> -> ClaudeToOpenAI(s, e)
    [] route = <<"gemini", "openai">> -> GeminiToOpenAI(s, e)
    [] route = <<"codex", "openai">>  -> CodexToOpenAI(s, e)
    [] route = <<"openai", "gemini">> -> OpenAIToGemini(s, e)
    [] route = <<"openai", "codex">>  -> OpenAIToCodex(s, e)

StreamInit ==
  /\ route \in Routes
  /\ up \in [phase : {"new"}, block : {"none"}, names : {Nothing}, items : {0}, told : {<<>>},
             anonymous : {a \in BOOLEAN : a => ProviderFormat = "openai" /\ Odd("anonymous")}]
  /\ wire = <<>> /\ buffer = <<>>
  /\ ts = Fresh
  /\ got = [phase |-> IF ClientFormat \in {"claude", "codex"} THEN "new" ELSE "open",
            items |-> Nothing, heard |-> <<>>, broken |-> FALSE]

(* The provider sends its next event. *)
Send ==
  /\ Len(wire) <= 1  \* bound: what is on the way
  /\ \E e \in Events :
       /\ up' = UpAfter(e)
       /\ wire' = wire \o Text(e)
  /\ UNCHANGED <<route, buffer, ts, got>>

(* writeStream: the adapter writes some of it, and what the converter      *)
(* makes of it goes to the client.                                         *)
WriteStream ==
  /\ \E n \in 1 .. Len(wire) :
       LET parsed == ParseSSE(buffer \o SubSeq(wire, 1, n))
           Converted(r, e) == Then(r, LAMBDA x : Convert(x, e))
           result == FoldLeft(Converted, Quiet(ts), parsed.events)
       IN /\ wire' = SubSeq(wire, n + 1, Len(wire))
          /\ buffer' = parsed.remaining
          /\ ts' = result.ts
          /\ got' = FoldLeft(Hear, got, result.out)
  /\ UNCHANGED <<route, up>>

StreamNext == Send \/ WriteStream
StreamSpec == StreamInit /\ [][StreamNext]_streamVars

-----------------------------------------------------------------------------
Spoken(s) == SelectSeq(s, LAMBDA p : p[2] = None)
About(s, t) == SelectSeq(s, LAMBDA p : p[2] = t)
InInput(s) == [k \in DOMAIN s |-> IF s[k][1] = "args" THEN <<"input", s[k][2]>> ELSE s[k]]
Answered == up.phase = "ended" \/ (ProviderFormat # "openai" /\ up.phase = "finished")

(* Whatever a provider may send, and however its events are cut up by the  *)
(* writes, a client hears a stream of its own format: a start, items that  *)
(* are numbered one after the other, spoken in only while they are open    *)
(* and closed once, one end with nothing open, and calls that are          *)
(* introduced before their arguments.  When the answer has ended, so has   *)
(* the client's.  The TransformChunk functions with their block indexes    *)
(* and the flags of what was added, done and sent (converter).             *)
StreamsAreWellFormed ==
  /\ ~got.broken
  /\ Answered /\ wire = <<>> => got.phase \in {"closed", "marked"}

(* What is written has been heard: thinking and text at once and in the    *)
(* order they were sent, nothing lost, doubled or swapped, and in the end  *)
(* every call with each piece of its arguments, though some are kept back  *)
(* by the converter; those of Gemini's calls reach a client of Claude's in *)
(* the input of the block's start, and nowhere else.  ParseSSE,            *)
(* TransformState.Buffer, the argument buffers and ArgsDeltaSent.          *)
PiecesArrive ==
  /\ wire = <<>> => Spoken(got.heard) = Spoken(up.told)
  /\ Answered /\ wire = <<>> =>
       \A t \in Calls :
         About(got.heard, t) = IF route = <<"gemini", "claude">>
                                 THEN InInput(About(up.told, t)) ELSE About(up.told, t)
=============================================================================
