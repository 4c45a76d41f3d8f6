----------------------------- MODULE ChatMemory -----------------------------
(***************************************************************************)
(* One conversation of the chat route: POST /chat (shelfwise_backend/       *)
(* app.py) over the transcript (chat_store.py) and the conversation's       *)
(* durable memory (conversation_memory.py).                                 *)
(*                                                                          *)
(* A request holds the conversation's advisory lock from its first read to  *)
(* its answer. A message id that was answered is answered again from the    *)
(* transcript. Otherwise the turns older than the recent window are rolled  *)
(* into one active summary, the objective and the corrections among them    *)
(* are stored as items of their own, each in a transaction, the model is    *)
(* asked, and the exchange is appended and the transcript trimmed.          *)
(*                                                                          *)
(* A question is the set of term classes retrieval_planning.py finds in it. *)
(* A reply is the serial number of the request that made it. A line of the  *)
(* summary is one unit of length, the _MAX_DIGEST_CHARS = 160 characters a  *)
(* turn has in it: MAX_SUMMARY_LINES stands for _MAX_SUMMARY_CHARS = 2400   *)
(* (conversation_memory.py), MAX_FIELD_LINES for _MAX_FIELD = 500, what     *)
(* fence_context leaves of any string of the prompt (security/gateway.py).  *)
(* How long a turn's own text is, and how it is cut, is left out.           *)
(***************************************************************************)
EXTENDS Naturals, Sequences, FiniteSets, SequencesExt

CONSTANTS
    Messages,          \* message ids
    TermsOf,           \* [Messages -> SUBSET Terms]: what each question asks about
    Corrections,       \* the messages that open with a correction prefix
    Requests,          \* request threads of the backend
    HISTORY_LIMIT,     \* messages a transcript keeps
    RECENT_WINDOW,     \* messages quoted to the model as they are
    MAX_SUMMARY_LINES, \* lines a summary's text has room for
    MAX_FIELD_LINES,   \* lines a string of the prompt has room for
    MaxSent,           \* bound on the requests sent
    None

Terms == {"support", "operational", "decision", "learning", "trace", "scenario"}
Domains == {"operational_twin", "world_simulation"}
Replies == 1 .. MaxSent
MAX_LIST_ITEMS == 32   \* items of a list of the prompt

Entry == [of : Messages, role : {"user", "assistant"}, domain : Domains, reply : Replies \cup {None}]
Conversation == [domain : Domains, messages : Seq(Entry)]

ChatAssumption ==
    /\ TermsOf \in [Messages -> SUBSET Terms]
    /\ Corrections \subseteq Messages
    /\ {HISTORY_LIMIT, RECENT_WINDOW, MAX_SUMMARY_LINES, MAX_FIELD_LINES, MaxSent} \subseteq Nat \ {0}
    /\ RECENT_WINDOW <= MAX_LIST_ITEMS
    /\ None \notin Requests \cup Domains \cup Conversation

VARIABLES
    conversation,  \* None or [domain, messages]: the row of the chat store
    summaries,     \* the source ids of the active summaries
    items,         \* the objective and correction items, all active
    holder,        \* the request with the advisory lock, or None
    request,       \* [Requests -> record]: where each thread is
    sent,          \* number of requests sent
    heard,         \* the answers given: [of, reply, replayed]
    trimmed,       \* the messages that fell off the transcript
    cut            \* the summaries whose extraction a request did not survive

vars == <<conversation, summaries, items, holder, request, sent, heard, trimmed, cut>>

----------------------------------------------------------------------------
Idle == [pc |-> "idle", serial |-> 0, of |-> None, domain |-> None, tries |-> 0,
         todo |-> {}, text |-> <<>>, history |-> <<>>, shown |-> None, answer |-> None]

Init ==
    /\ conversation = None /\ summaries = {} /\ items = {} /\ holder = None
    /\ request = [r \in Requests |-> Idle]
    /\ sent = 0 /\ heard = {} /\ trimmed = {} /\ cut = {}

At(r, pc) == request[r].pc = pc
Move(r, pc) == request' = [request EXCEPT ![r].pc = pc]

Id(entry) == <<entry.of, entry.role>>
Ids(entries) == [i \in DOMAIN entries |-> Id(entries[i])]
Transcript == IF conversation = None THEN <<>> ELSE conversation.messages
Asked(m) == <<m, "user">>

\* The partitions a question needs, from the classes of its terms.
plan_retrieval(terms, has_conversation) ==
    LET asks(classes) == terms \cap classes # {}
        selected ==
            UNION {IF asks({"operational", "decision", "scenario"}) THEN {"live_facts", "skills"} ELSE {},
                   IF asks({"decision", "scenario"}) THEN {"decisions"} ELSE {},
                   IF asks({"learning", "scenario"}) THEN {"learning"} ELSE {},
                   IF asks({"trace"}) THEN {"traces"} ELSE {},
                   IF has_conversation THEN {"conversation_memory"} ELSE {}}
        support_only == asks({"support"}) /\ ~asks({"operational", "decision", "scenario"})
    IN  IF selected = {} /\ ~support_only THEN {"live_facts", "skills"} ELSE selected

----------------------------------------------------------------------------
\* A client sends a message, or sends it again while the first is still answered.
Send(r, m, domain) ==
    /\ At(r, "idle") /\ sent < MaxSent
    /\ sent' = sent + 1
    /\ request' = [request EXCEPT ![r] = [Idle EXCEPT !.pc = "lock", !.serial = sent + 1, !.of = m,
                                                      !.domain = domain]]
    /\ UNCHANGED <<conversation, summaries, items, holder, heard, trimmed, cut>>

Locked(r) ==
    /\ At(r, "lock") /\ holder = None
    /\ holder' = r
    /\ Move(r, "check")
    /\ UNCHANGED <<conversation, summaries, items, sent, heard, trimmed, cut>>

\* The answer leaves, and the lock with it.
Respond(r, reply, replayed) ==
    /\ heard' = heard \cup {[of |-> request[r].of, reply |-> reply, replayed |-> replayed]}
    /\ holder' = None
    /\ request' = [request EXCEPT ![r] = Idle]

\* A refusal (409, 503) and an exception leave nothing but the lock behind.
Refuse(r) ==
    /\ holder' = None
    /\ request' = [request EXCEPT ![r] = Idle]
    /\ UNCHANGED <<conversation, summaries, items, sent, heard, trimmed, cut>>

\* Mistake: a retry is taken for a new message.
AnswerForgotten(m) == {}

answer_for_message(m) ==
    {Transcript[i] : i \in {j \in DOMAIN Transcript :
                               Transcript[j].role = "assistant" /\ Transcript[j].of = m}}

existing_domains ==
    IF conversation = None THEN {}
    ELSE {conversation.domain} \cup {Transcript[i].domain : i \in DOMAIN Transcript}

\* A message already answered gets the stored answer, whatever it asks now.
Replay(r) ==
    /\ At(r, "check")
    /\ existing_domains # {} => request[r].domain \in existing_domains
    /\ \E prior \in answer_for_message(request[r].of) :
          /\ prior.domain = request[r].domain
          /\ Respond(r, prior.reply, TRUE)
    /\ UNCHANGED <<conversation, summaries, items, sent, trimmed, cut>>

\* Another data source needs another conversation.
ChangesDomain(r) ==
    /\ At(r, "check")
    /\ \/ existing_domains # {} /\ request[r].domain \notin existing_domains
       \/ \E prior \in answer_for_message(request[r].of) : prior.domain # request[r].domain
    /\ Refuse(r)

\* Everything before the recent window.
Older == IF Len(Transcript) > RECENT_WINDOW
         THEN SubSeq(Transcript, 1, Len(Transcript) - RECENT_WINDOW) ELSE <<>>
Recent == SubSeq(Transcript, IF Len(Transcript) > RECENT_WINDOW
                             THEN Len(Transcript) - RECENT_WINDOW + 1 ELSE 1, Len(Transcript))

\* Mistake: an active summary is good enough.
SummaryOutdatedNever(covers) == summaries = {}

\* The id of a summary is the hash of the ids it covers.
SummaryOutdated(covers) == covers \notin summaries

\* What is left of a summary in this room: the objective's line and one per message.
FirstLines(text, room) == SubSeq(text, 1, IF Len(text) < room THEN Len(text) ELSE room - 1)

\* The summary's text, cut at its length.
SummaryText(covers) == FirstLines(covers, MAX_SUMMARY_LINES)

\* A new message: the history is compacted when there is one to compact.
Accept(r) ==
    LET m == request[r].of
        domain == request[r].domain
        plan == plan_retrieval(TermsOf[m], conversation # None)
        remembers == conversation # None /\ "conversation_memory" \in plan
        pc == IF remembers /\ Older # <<>> THEN "compact" ELSE "reply"
    IN  /\ At(r, "check")
        /\ existing_domains # {} => domain \in existing_domains
        /\ answer_for_message(m) = {}
        /\ request' = [request EXCEPT ![r].pc = pc,
                                      ![r].history = IF remembers THEN Ids(Recent) ELSE <<>>]
        /\ UNCHANGED <<conversation, summaries, items, holder, sent, heard, trimmed, cut>>

\* What _extract_first_class_items stores, in the order of at: the first user turn,
\* then the corrections.
FirstClassItems(entries) ==
    LET turns == {i \in DOMAIN entries : entries[i].role = "user"}
    IN  {[at |-> 0, kind |-> "objective", of |-> entries[i].of] :
            i \in {j \in turns : \A k \in turns : j <= k}}
        \cup {[at |-> i, kind |-> "correction", of |-> entries[i].of] :
                 i \in {j \in turns : entries[j].of \in Corrections}}

\* The older turns become the one active summary, in one transaction.
Compact(r) ==
    LET covers == Ids(Older)
    IN  /\ At(r, "compact")
        /\ IF SummaryOutdated(covers)
           THEN /\ summaries' = {covers}
                /\ request' = [request EXCEPT ![r].pc = "extract", ![r].todo = FirstClassItems(Older),
                                              ![r].text = SummaryText(covers)]
           ELSE /\ UNCHANGED summaries
                /\ \E active \in summaries :
                      request' = [request EXCEPT ![r].pc = "reply", ![r].text = SummaryText(active)]
        /\ UNCHANGED <<conversation, items, holder, sent, heard, trimmed, cut>>

\* One item is stored, in a transaction of its own.
ExtractItem(r) ==
    /\ At(r, "extract")
    /\ \E next \in request[r].todo :
          /\ \A other \in request[r].todo : next.at <= other.at
          /\ items' = items \cup {[kind |-> next.kind, of |-> next.of]}
          /\ request' = [request EXCEPT ![r].todo = @ \ {next}]
    /\ UNCHANGED <<conversation, summaries, holder, sent, heard, trimmed, cut>>

Extracted(r) ==
    /\ At(r, "extract") /\ request[r].todo = {}
    /\ Move(r, "reply")
    /\ UNCHANGED <<conversation, summaries, items, holder, sent, heard, trimmed, cut>>

----------------------------------------------------------------------------
Plan(r) == plan_retrieval(TermsOf[request[r].of], conversation # None)
NeedsTools(plan) == plan \cap {"live_facts", "decisions", "learning", "traces", "skills"} # {}

\* Whose facts an answer's tools read: the twin's, the simulated world's, or none.
Grounding(r) ==
    IF request[r].domain = "operational_twin" /\ "live_facts" \in Plan(r) THEN "twin"
    ELSE IF NeedsTools(Plan(r)) THEN "world"
    ELSE "none"

\* The first items of a list.
FirstItems(list, n) == SubSeq(list, 1, IF Len(list) < n THEN Len(list) ELSE n)

\* How far assemble_context cuts the state until it fits its 12 000 characters: not, or
\* by the sizes of _fit_context, or down to "[truncated]"; every string is fenced after.
Cuts ==
    {[items |-> MAX_LIST_ITEMS, lines |-> MAX_FIELD_LINES], [items |-> 16, lines |-> MAX_FIELD_LINES],
     [items |-> 8, lines |-> MAX_FIELD_LINES \div 2], [items |-> 4, lines |-> MAX_FIELD_LINES \div 6],
     [items |-> 1, lines |-> MAX_FIELD_LINES \div 25], [items |-> 0, lines |-> 0]}

\* Mistake: the manifest tells what was pruned for its priority, not what was cut.
CutsUnreported(turns, text) ==
    {[turns |-> FirstItems(turns, cuts.items), lines |-> FirstLines(text, cuts.lines),
      truncated |-> pruned] : cuts \in Cuts, pruned \in BOOLEAN}

\* What the prompt shows of the turns and of the summary, and whether its manifest says
\* that something was cut. Which cut is needed depends on the rest of the state, and
\* dropping what has no priority may be enough; what fence_context takes is not reported.
assemble_context(turns, text) ==
    {[turns |-> FirstItems(turns, cuts.items), lines |-> FirstLines(text, cuts.lines),
      truncated |-> cuts.items # MAX_LIST_ITEMS \/ pruned] : cuts \in Cuts, pruned \in BOOLEAN}

\* An answer is where its facts are from; whose words it is, nothing here asks.
Reply(r, facts) ==
    /\ At(r, "reply")
    /\ \E shown \in assemble_context(request[r].history, request[r].text) :
          request' = [request EXCEPT ![r].pc = "append", ![r].shown = shown, ![r].answer = facts]
    /\ UNCHANGED <<conversation, summaries, items, holder, sent, heard, trimmed, cut>>

\* The model answers, from tools when the question needs some, and its answer is
\* in English, cites what the tools returned and keeps to the subject.
ModelAnswers(r) == Reply(r, Grounding(r))

\* An agentic run fails, or its answer is not grounded: there are two attempts.
AttemptFails(r) ==
    /\ At(r, "reply") /\ NeedsTools(Plan(r)) /\ request[r].tries < 2
    /\ request' = [request EXCEPT ![r].tries = @ + 1]
    /\ UNCHANGED <<conversation, summaries, items, holder, sent, heard, trimmed, cut>>

\* Mistake: the fallback answers from whatever it has.
FallsBackAnyway(r) == Reply(r, IF NeedsTools(Plan(r)) THEN "world" ELSE "none")

\* There are no credentials, both attempts or the one completion failed, and the
\* client did not ask for a live answer. Where the live store was to be read,
\* the fallback says that it will not answer.
FallsBack(r) == Reply(r, IF Grounding(r) = "twin" THEN "none" ELSE Grounding(r))

\* The same with a client that wants a live answer; or the answer is not English.
InferenceFails(r) == At(r, "reply") /\ Refuse(r)

\* append_exchange: the row is read, two messages are added, the oldest dropped.
AppendExchange(r) ==
    LET m == request[r].of
        domain == request[r].domain
        extended == Transcript \o
            <<[of |-> m, role |-> "user", domain |-> domain, reply |-> None],
              [of |-> m, role |-> "assistant", domain |-> domain, reply |-> request[r].serial]>>
        surplus == IF Len(extended) > HISTORY_LIMIT THEN Len(extended) - HISTORY_LIMIT ELSE 0
    IN  /\ At(r, "append")
        /\ conversation' = [domain |-> IF conversation = None THEN domain ELSE conversation.domain,
                            messages |-> SubSeq(extended, surplus + 1, Len(extended))]
        /\ trimmed' = trimmed \cup {extended[i].of : i \in 1 .. surplus}
        /\ request' = [request EXCEPT ![r].pc = "respond", ![r].shown = None]
        /\ UNCHANGED <<summaries, items, holder, sent, heard, cut>>

Answer(r) ==
    /\ At(r, "respond")
    /\ Respond(r, request[r].serial, FALSE)
    /\ UNCHANGED <<conversation, summaries, items, sent, trimmed, cut>>

\* The process dies, or a call raises: the connection closes and frees the lock.
Die(r) ==
    /\ holder = r
    /\ cut' = IF At(r, "extract") THEN cut \cup summaries ELSE cut
    /\ holder' = None
    /\ request' = [request EXCEPT ![r] = Idle]
    /\ UNCHANGED <<conversation, summaries, items, sent, heard, trimmed>>

Next ==
    \E r \in Requests :
       \/ \E m \in Messages, domain \in Domains : Send(r, m, domain)
       \/ Locked(r) \/ ChangesDomain(r) \/ Replay(r) \/ Accept(r)
       \/ Compact(r) \/ ExtractItem(r) \/ Extracted(r)
       \/ ModelAnswers(r) \/ AttemptFails(r) \/ FallsBack(r) \/ InferenceFails(r)
       \/ AppendExchange(r) \/ Answer(r) \/ Die(r)

Spec == Init /\ [][Next]_vars

----------------------------------------------------------------------------
TypeOK ==
    /\ conversation \in Conversation \cup {None} /\ Len(Transcript) <= HISTORY_LIMIT
    /\ items \subseteq [kind : {"objective", "correction"}, of : Messages]
    /\ holder \in Requests \cup {None}
    /\ sent \in 0 .. MaxSent

\* A message is answered once: retries, resends during the answer and
\* requests that died leave one exchange, every client that was answered was
\* given its reply (chat's answer_for_message under the lock), and all of the
\* conversation is about one data source. A message that fell off the
\* transcript is new again.
OneAnswerPerMessage ==
    /\ \A i \in DOMAIN Transcript, j \in DOMAIN Transcript :
          Id(Transcript[i]) = Id(Transcript[j]) => i = j
    /\ \A h \in heard, k \in heard : (h.of = k.of /\ h.of \notin trimmed) => h.reply = k.reply
    /\ \A h \in heard : h.of \notin trimmed =>
          \E prior \in answer_for_message(h.of) : prior.reply = h.reply
    /\ Cardinality(existing_domains) <= 1

\* There is one active summary (upsert supersedes in one transaction), and what the
\* prompt quotes is never out of date: the first of the turns the transcript ends
\* with, and the first lines of the summary of all turns before those. Unless the
\* manifest of assemble_context says that something was cut, no recent turn is
\* missing, and of the summary only what does not fit into one fenced string. By
\* then every correction among the older turns is an item of its own, unless a
\* request died while it extracted the very same turns (compact_conversation,
\* _extract_first_class_items). A question about the live store is never answered
\* from the simulated world.
MemoryIsCurrent ==
    /\ Cardinality(summaries) <= 1
    /\ \A r \in Requests : At(r, "append") =>
          LET shown == request[r].shown
              summary == SummaryText(Ids(Older))
          IN  /\ \E n \in 0 .. MAX_LIST_ITEMS : shown.turns = FirstItems(Ids(Recent), n)
              /\ Older # <<>> => \E n \in 0 .. MAX_FIELD_LINES : shown.lines = FirstLines(summary, n)
              /\ ~ shown.truncated =>
                    /\ shown.turns = Ids(Recent)
                    /\ Older # <<>> => shown.lines = FirstLines(summary, MAX_FIELD_LINES)
              /\ Ids(Older) \notin cut => \A m \in Corrections :
                    Asked(m) \in ToSet(Ids(Older)) => [kind |-> "correction", of |-> m] \in items
              /\ request[r].domain = "operational_twin" /\ "live_facts" \in Plan(r)
                    => request[r].answer # "world"
============================================================================
