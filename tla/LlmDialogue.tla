---------------------------- MODULE LlmDialogue -----------------------------
(***************************************************************************)
(* LlmAnalyzer.analyze_batch (agent/analyzer/llm_analyzer.py): a batch is  *)
(* enriched, the model is asked, its tool calls are executed               *)
(* (agent/analyzer/tools.py, tool_cache.py) until it answers, and each     *)
(* entry of the answer becomes a finding or updates one.                   *)
(*                                                                         *)
(* The model is external: it answers with anything of its protocol, or the *)
(* call fails.  The other half of the enrichment is in the graph, where    *)
(* the writer thread merges it (agent/processor/graph_builder.py).         *)
(***************************************************************************)
EXTENDS LlmFindings

CONSTANTS
  Configured, ToolsEnabled,  \* An API key is set; tool_use_enabled.
  MaxIterations,    \* tool_use_max_iterations
  Inquiries,        \* By name, what is looked at in a behaviour: [batches, answers,
                    \* store, seen], what happens and what was there before.
  ToolCalls,        \* What the model may call: tools with their arguments.
  Unreadable,       \* Of these, the ones without a text of arguments.
  Whereabouts,      \* What a geolocation can say; None is nothing.
  QueueCapacity,    \* Of the graph's write queue.
  MaxFaults,        \* Bound on failed lookups, updates and graph queries.
  Ids               \* The ids of findings.

ASSUME DialogueAssumption ==
  /\ {Configured, ToolsEnabled} \subseteq BOOLEAN
  /\ MaxIterations \in Nat \ {0} /\ QueueCapacity \in Nat \ {0} /\ MaxFaults \in Nat
  /\ Unreadable \subseteq ToolCalls
  /\ \A x \in DOMAIN Inquiries :
       /\ Inquiries[x].batches \in Seq(ToSet(Inquiries[x].batches))
       /\ \A events \in ToSet(Inquiries[x].batches) :
            /\ events \in Seq(ToSet(events))
            /\ \A e \in ToSet(events) : e.pid \in Int /\ (e.pid > 0 => e.pid \in DOMAIN Tree)
       /\ \A content \in Inquiries[x].answers :
            /\ content \in Seq(ToSet(content))
            /\ \A raw \in ToSet(content) :
                 raw.form \in {"good", "odd"} => raw.chain \in Seq(ToSet(raw.chain))
       /\ \A f \in DOMAIN Inquiries[x].store :
            {"evidence", "severity"} \subseteq DOMAIN Inquiries[x].store[f]

VARIABLES
  inquiry,      \* The name of one of them.
  recent,       \* Batches not yet read.
  stage,        \* Of the analyzer: "idle", "ask", "tools", "parse" or "store".
  batch,        \* The events being analyzed.
  seen,         \* The graph's counts of edges.
  messages,     \* The dialogue: its first two messages, and those of this round.
  iteration,    \* Of the loop; 0 before it.
  calls,        \* Tool calls of the last message not yet executed.
  entries,      \* Entries of the answer not yet dealt with.
  answered,     \* The answer, as it came.
  found,        \* Findings to be returned.
  store,        \* The table findings.
  jobs,         \* IP_ENRICHMENT jobs in the write queue: [ip, at].
  located,      \* The IP nodes of the graph that are enriched, and with what.
  faults

loopVars == <<messages, iteration, calls>>
answerVars == <<entries, answered, found>>
graphVars == <<seen, jobs, located>>
dialogueVars == <<inquiry, recent, stage, batch, loopVars, answerVars, store, graphVars, faults>>

Fault == faults < MaxFaults /\ faults' = faults + 1

-----------------------------------------------------------------------------
DialogueInit ==
  /\ inquiry \in DOMAIN Inquiries /\ recent = Inquiries[inquiry].batches
  /\ stage = "idle" /\ batch = <<>>
  /\ messages = <<>> /\ iteration = 0 /\ calls = <<>>
  /\ entries = <<>> /\ answered = <<>> /\ found = <<>>
  /\ store = Inquiries[inquiry].store /\ seen = Inquiries[inquiry].seen
  /\ jobs = <<>> /\ located = <<>> /\ faults = 0

Ask(told) ==
  /\ messages' = <<[role |-> "system"], [role |-> "user", told |-> told]>>
  /\ iteration' = 1 /\ calls' = <<>>

\* A cycle of the analyzer.  What was processed lately is in the graph, unless
\* the writer is behind; what the graph has seen often is left out.  The rest is
\* cut to the limit, the findings of its processes are added to it, and its
\* addresses are looked up and handed to the graph's writer, if its queue has
\* room.
AnalyzeBatch ==
  /\ stage = "idle" /\ recent # <<>>
  /\ recent' = Tail(recent)
  /\ LET events == Head(recent) IN
       /\ seen' = CountsWith(seen, events)
       /\ \E now \in {seen, seen'} :
            LET novel == Novel(events, now)
                addresses == SetToSeq(IF ToolsEnabled THEN PublicAddresses(Capped(novel)) ELSE {})
            IN IF ~Configured \/ novel = <<>>
               THEN UNCHANGED <<stage, batch, loopVars, answerVars, jobs>>
               ELSE /\ stage' = "ask" /\ batch' = Capped(novel)
                    /\ Ask(Told(Capped(novel), store, ToolsEnabled))
                    /\ entries' = <<>> /\ answered' = <<>> /\ found' = <<>>
                    /\ \E at \in [DOMAIN addresses -> Whereabouts] :
                         LET new == [i \in DOMAIN addresses |-> [ip |-> addresses[i], at |-> at[i]]]
                         IN jobs' = FoldLeft(LAMBDA q, j : IF Len(q) < QueueCapacity
                                                           THEN Append(q, j) ELSE q, jobs, new)
  /\ UNCHANGED <<inquiry, store, located, faults>>

\* upsert_ip_enrichment: what is known is not replaced by a blank.
UpsertIpEnrichment ==
  /\ jobs # <<>>
  /\ jobs' = Tail(jobs)
  /\ LET j == Head(jobs)
         old == IF j.ip \in DOMAIN located THEN located[j.ip] ELSE None
     IN located' = [a \in DOMAIN located \union {j.ip} |->
                      IF a # j.ip THEN located[a] ELSE IF j.at = None THEN old ELSE j.at]
  /\ UNCHANGED <<inquiry, recent, stage, batch, seen, loopVars, answerVars, store, faults>>

-----------------------------------------------------------------------------
(* The model. *)

\* Without tools there is one call; with them the loop ends with a call that
\* offers none.
OffersTools == ToolsEnabled /\ iteration <= MaxIterations

\* An answer is parsed; one that is no list of entries has none.
Answer(content) ==
  /\ stage' = "parse" /\ entries' = content /\ answered' = content

\* finish_reason is "stop", or there is no tool call, or it is the last call.
ModelAnswers ==
  /\ stage = "ask"
  /\ \E content \in Inquiries[inquiry].answers : Answer(content)
  /\ UNCHANGED <<inquiry, recent, batch, loopVars, found, store, graphVars, faults>>

\* The call fails, or the answer has no content: no findings.
ModelFails ==
  /\ stage = "ask"
  /\ stage' = "store"
  /\ UNCHANGED <<inquiry, recent, batch, loopVars, answerVars, store, graphVars, faults>>

ModelCallsTools ==
  /\ stage = "ask" /\ OffersTools
  /\ \E wanted \in {<<c>> : c \in ToolCalls} \union {<<c, d>> : c, d \in ToolCalls} :
       /\ messages' = Append(SubSeq(messages, 1, 2), [role |-> "assistant", calls |-> wanted])
       /\ calls' = wanted
  /\ stage' = "tools"
  /\ UNCHANGED <<inquiry, recent, batch, iteration, answerVars, store, graphVars, faults>>

\* Every call gets a message: the cached result, the tool's, or its error, for
\* a tool that does not exist, arguments that are no JSON or not the tool's too.
Execute(c) == messages' = Append(messages, [role |-> "tool", call |-> c])

ExecuteTool ==
  /\ stage = "tools" /\ calls # <<>> /\ Head(calls) \notin Unreadable
  /\ Execute(Head(calls))
  /\ calls' = Tail(calls)
  /\ UNCHANGED <<inquiry, recent, stage, batch, iteration, answerVars, store, graphVars, faults>>

\* json.loads of what is no text raises a TypeError, which only analyze_batch
\* catches: the analysis ends without findings.
UnreadableCall ==
  /\ stage = "tools" /\ calls # <<>> /\ Head(calls) \in Unreadable
  /\ stage' = "store" /\ calls' = <<>>
  /\ UNCHANGED <<inquiry, recent, batch, messages, iteration, answerVars, store, graphVars, faults>>

\* Variant (a bug this code does not have): a round of two calls is free.
NextRoundUncounted ==
  /\ stage = "tools" /\ calls = <<>>
  /\ stage' = "ask"
  /\ iteration' = IF \E i \in DOMAIN messages :
                       messages[i].role = "assistant" /\ Len(messages[i].calls) > 1
                  THEN iteration ELSE iteration + 1
  /\ messages' = messages
  /\ UNCHANGED <<inquiry, recent, batch, calls, answerVars, store, graphVars, faults>>

\* The next round; after the last one the model is told to come to an end.
NextRound ==
  /\ stage = "tools" /\ calls = <<>>
  /\ iteration' = iteration + 1 /\ stage' = "ask"
  /\ messages' = IF iteration = MaxIterations THEN Append(messages, [role |-> "user"])
                 ELSE messages
  /\ UNCHANGED <<inquiry, recent, batch, calls, answerVars, store, graphVars, faults>>

-----------------------------------------------------------------------------
(* The answer, entry by entry. *)

EntryVars == <<inquiry, recent, stage, batch, loopVars, answered, graphVars>>

\* Variant (a bug this code does not have): the rest is given up with it.
SkipRest ==
  /\ stage = "parse" /\ entries # <<>> /\ Head(entries).form \in {"untitled", "alien"}
  /\ entries' = <<>>
  /\ UNCHANGED <<EntryVars, found, store, faults>>

\* No title or description, or one that cannot be read.
SkipEntry ==
  /\ stage = "parse" /\ entries # <<>> /\ Head(entries).form \in {"untitled", "alien"}
  /\ entries' = Tail(entries)
  /\ UNCHANGED <<EntryVars, found, store, faults>>

\* The id of a finding that exists: the finding is updated and not returned.
UpdateFinding ==
  /\ stage = "parse" /\ entries # <<>> /\ Head(entries).form \in {"good", "odd"}
  /\ Head(entries).id \in DOMAIN store
  /\ store' = [store EXCEPT ![Head(entries).id] = Updated(@, Head(entries))]
  /\ entries' = Tail(entries)
  /\ UNCHANGED <<EntryVars, found, faults>>

\* The update is refused (the database is locked): the entry is skipped.
UpdateRefused ==
  /\ stage = "parse" /\ entries # <<>> /\ Head(entries).form \in {"good", "odd"}
  /\ Head(entries).id \in DOMAIN store /\ Fault
  /\ entries' = Tail(entries)
  /\ UNCHANGED <<EntryVars, found, store>>

\* A finding that does not exist, or could not be looked for; a field of the
\* wrong type ends the entry.
NewFinding ==
  /\ stage = "parse" /\ entries # <<>> /\ Head(entries).form \in {"good", "odd"}
  /\ entries' = Tail(entries)
  /\ \E lookupFails, graphFails \in BOOLEAN :
       /\ Head(entries).id \in DOMAIN store => lookupFails
       /\ IF lookupFails \/ graphFails THEN Fault ELSE UNCHANGED faults
       /\ found' = IF Head(entries).form = "odd" THEN found
                   ELSE Append(found, FindingOf(Head(entries), batch, graphFails))
  /\ UNCHANGED <<EntryVars, store>>

EndParse ==
  /\ stage = "parse" /\ entries = <<>>
  /\ stage' = "store"
  /\ UNCHANGED <<inquiry, recent, batch, loopVars, answerVars, store, graphVars, faults>>

\* The analyzer's cycle stores what is returned, under new ids.
StoreFindings ==
  /\ stage = "store"
  /\ LET new == CHOOSE n \in [DOMAIN found -> Ids \ DOMAIN store] : IsInjective(n) IN
       store' = [x \in DOMAIN store \union Range(new) |->
                   IF x \in DOMAIN store THEN store[x]
                   ELSE LET f == found[CHOOSE i \in DOMAIN new : new[i] = x]
                        IN [evidence |-> f.evidence, severity |-> f.severity, pids |-> f.pids]]
  /\ stage' = "idle"
  /\ UNCHANGED <<inquiry, recent, batch, loopVars, answerVars, graphVars, faults>>

-----------------------------------------------------------------------------
AnalyzerTurn ==
  \/ AnalyzeBatch \/ ModelAnswers \/ ModelFails \/ ModelCallsTools \/ ExecuteTool
  \/ UnreadableCall \/ NextRound \/ SkipEntry \/ UpdateFinding \/ UpdateRefused \/ NewFinding \/ EndParse \/ StoreFindings

DialogueNext == AnalyzerTurn \/ UpsertIpEnrichment

DialogueSpec == DialogueInit /\ [][DialogueNext]_dialogueVars

\* The analyzer's thread goes on; a call of the model returns or fails.
DialogueFairness == WF_dialogueVars(AnalyzerTurn)
-----------------------------------------------------------------------------
\* An analysis comes to an end, however long the model would go on calling tools
\* (tool_use_max_iterations).
DialogueEnds == stage # "idle" ~> stage = "idle"

\* What a well-formed entry of an answer says is stored or returned whatever the
\* other entries are like, but for one refused by a fault ("Failed to parse
\* individual finding").
Heard(raw) ==
  IF raw.id \in DOMAIN store
  THEN raw.evidence \subseteq store[raw.id].evidence
  ELSE \E i \in DOMAIN found : found[i].evidence = raw.evidence

GoodIsHeard ==
  stage = "store" =>
    Cardinality({i \in DOMAIN answered : answered[i].form = "good" /\ ~Heard(answered[i])}) <= faults

\* The chain of a finding is the lineage of its trigger: the trigger is in it,
\* and no process outside of the lineage ("anything from a disjoint process is a
\* false causal link"), unless the graph could not be asked.
Anchored(f) ==
  f.trigger # NoPid /\ Tree[f.trigger] # <<>> =>
    /\ f.trigger \in StepPids(f.chain)
    /\ {p \in StepPids(f.chain) : p > 0} \subseteq ToSet(Tree[f.trigger])

AnchoredInTree ==
  Cardinality({i \in DOMAIN found : ~Anchored(found[i])}) <= faults
=============================================================================
