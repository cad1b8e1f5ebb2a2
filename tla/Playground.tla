----------------------------- MODULE Playground -----------------------------
(***************************************************************************)
(* The chat playground of the web client (features/playground): messages   *)
(* in React state and in localStorage, requests answered by a stream of    *)
(* server-sent events or at once, and the user, who may send, regenerate,  *)
(* edit, delete, stop and leave at any time the page lets him.             *)
(*                                                                         *)
(* The answers are not addressed: every callback updates the last message  *)
(* of the conversation, whichever request it belongs to.  The page draws   *)
(* after the fact: what a click acts on is the conversation and the        *)
(* isGenerating flag as last rendered.                                     *)
(***************************************************************************)
EXTENDS Naturals, Sequences, SequencesExt, FiniteSets

CONSTANTS
    MaxRequests   \* bound: requests sent

ASSUME PlaygroundAssumption == MaxRequests \in Nat

Requests == 1..MaxRequests
None == 0
User == 0         \* the author of what the user has typed

VARIABLES
    stream,       \* config.stream
    messages,     \* [from, req, status, by]; by: who has written its content
    rendered,     \* [messages, isGenerating] as last drawn
    dirty,        \* is a re-render due?
    storage,      \* the messages in localStorage
    requests,     \* per request: "new", "open", "cut" (ended without [DONE]), "closed", or
                  \* "orphan": still running for a page that has been left
    left,         \* per orphan: the messages of the page it belongs to
    sseSource,    \* sseSourceRef
    isComplete,   \* isStreamCompleteRef
    editing,      \* key of the message being edited
    open,         \* is the page there?
    meddled       \* history: was the conversation changed under an answer on its way?

chatVars == <<stream, messages, rendered, dirty, storage, requests, left, sseSource, isComplete,
              editing, open, meddled>>

Unsettled(m) == m.from = "assistant" /\ m.status \in {"loading", "streaming"}
Key(m) == <<m.from, m.req>>
NoKey == <<"none", None>>

Messages == [from : {"user", "assistant"}, req : Requests,
             status : {"loading", "streaming", "complete", "error"},
             by : SUBSET (Requests \cup {User})]

ChatTypeOK ==
    /\ stream \in BOOLEAN /\ dirty \in BOOLEAN /\ isComplete \in BOOLEAN
    /\ open \in BOOLEAN /\ meddled \in BOOLEAN
    /\ \A m \in {messages, rendered.messages, storage} :
        Len(m) <= 2 * MaxRequests /\ Range(m) \subseteq Messages
    /\ rendered.isGenerating \in BOOLEAN
    /\ requests \in [Requests -> {"new", "open", "cut", "closed", "orphan"}]
    /\ \A r \in Requests : Len(left[r]) <= 2 * MaxRequests /\ Range(left[r]) \subseteq Messages
    /\ sseSource \in Requests \cup {None}
    /\ editing \in ({"user", "assistant"} \X Requests) \cup {NoKey}

ChatInit ==
    /\ stream \in BOOLEAN
    /\ messages = <<>> /\ storage = <<>>
    /\ rendered = [messages |-> <<>>, isGenerating |-> FALSE]
    /\ dirty = FALSE
    /\ requests = [r \in Requests |-> "new"]
    /\ left = [r \in Requests |-> <<>>]
    /\ sseSource = None /\ isComplete = FALSE
    /\ editing = NoKey
    /\ open = TRUE /\ meddled = FALSE

----------------------------------------------------------------------------
(* lib/message-utils.ts                                                    *)
(***************************************************************************)
createUserMessage(r) == [from |-> "user", req |-> r, status |-> "complete", by |-> {User}]
createLoadingAssistantMessage(r) ==
    [from |-> "assistant", req |-> r, status |-> "loading", by |-> {}]

updateLastAssistantMessage(ms, updater) ==
    IF ms # <<>> /\ Last(ms).from = "assistant"
    THEN [ms EXCEPT ![Len(ms)] = updater[@]]
    ELSE ms

\* The updaters.
WithChunk(r) ==
    [m \in Messages |-> IF m.status = "error" THEN m
                        ELSE [m EXCEPT !.by = @ \cup {r}, !.status = "streaming"]]
Completed ==
    [m \in Messages |-> IF m.status = "error" THEN m ELSE [m EXCEPT !.status = "complete"]]
WithError == [m \in Messages |-> [m EXCEPT !.by = {}, !.status = "error"]]
WithAnswer(r) == [m \in Messages |-> [m EXCEPT !.by = {r}, !.status = "complete"]]

\* Mutated sanitizeMessagesOnLoad: only a message that has content is repaired.
sanitizeMessagesWithContent(ms) ==
    LET stuck == {i \in DOMAIN ms : Unsettled(ms[i]) /\ ms[i].by # {}} IN
    IF stuck = {} THEN ms
    ELSE LET i == CHOOSE j \in stuck : \A k \in stuck : k <= j IN
         [ms EXCEPT ![i].status = "complete"]

\* The last message that was still being answered is completed or, if it has
\* no content, made an error.
sanitizeMessagesOnLoad(ms) ==
    LET stuck == {i \in DOMAIN ms : Unsettled(ms[i])} IN
    IF stuck = {} THEN ms
    ELSE LET i == CHOOSE j \in stuck : \A k \in stuck : k <= j IN
         [ms EXCEPT ![i].status = IF ms[i].by = {} THEN "error" ELSE "complete"]

----------------------------------------------------------------------------
(* React.                                                                  *)
(***************************************************************************)
\* updateMessages from a click: the page is drawn at once, and the updater
\* that is run for it saves the conversation.
Draw(ms) ==
    /\ messages' = ms /\ storage' = ms
    /\ rendered' = [messages |-> ms, isGenerating |-> sseSource' # None]
    /\ dirty' = FALSE

\* From a network callback: the page is drawn some time later, if the updater
\* has returned another array; the updater may be run before.
Update(updater) ==
    LET ms == updateLastAssistantMessage(messages, updater) IN
    /\ messages' = ms
    /\ storage' \in {storage, ms}
    /\ dirty' = (dirty \/ (messages # <<>> /\ Last(messages).from = "assistant"))
    /\ UNCHANGED rendered

Render ==
    /\ open /\ dirty
    /\ UNCHANGED <<stream, left, requests, sseSource, isComplete, editing, open, meddled>>
    /\ Draw(messages)

\* An answer is on its way, not yet drawn, or still waited for by a message.
Busy ==
    \/ dirty
    \/ \E r \in Requests : requests[r] = "open"
    \/ \E i \in DOMAIN messages : Unsettled(messages[i])

----------------------------------------------------------------------------
(* hooks/use-stream-request.ts and use-chat-handler.ts: sending.           *)
(***************************************************************************)
\* sendChat, after the conversation that ends in r's loading message is set.
SendChat(r, ms) ==
    /\ requests[r] = "new"
    /\ \A q \in Requests : q < r => requests[q] # "new"
    /\ requests' = [requests EXCEPT ![r] = "open"]
    /\ IF stream THEN sseSource' = r /\ isComplete' = FALSE
                 ELSE UNCHANGED <<sseSource, isComplete>>
    /\ Draw(ms)
    /\ meddled' = (meddled \/ Busy)

\* source.stream() throws.
SendFails(r, ms) ==
    /\ stream
    /\ requests[r] = "new"
    /\ \A q \in Requests : q < r => requests[q] # "new"
    /\ requests' = [requests EXCEPT ![r] = "closed"]
    /\ sseSource' = None /\ isComplete' = FALSE
    /\ Draw(updateLastAssistantMessage(ms, WithError))
    /\ meddled' = (meddled \/ Busy)

Send(r, ms) ==
    /\ SendChat(r, ms) \/ SendFails(r, ms)
    /\ UNCHANGED <<stream, left, open>>

Change(ms) ==
    /\ UNCHANGED <<stream, left, requests, sseSource, isComplete, open>>
    /\ Draw(ms)
    /\ meddled' = (meddled \/ Busy)

----------------------------------------------------------------------------
(* index.tsx and the components: what the user does.  The input box and    *)
(* the buttons of a message are guarded by isGenerating; a suggestion and  *)
(* the editor's buttons are not.                                           *)
(***************************************************************************)
Idle == open /\ ~rendered.isGenerating

handleSendMessage(r) ==
    /\ open
    /\ Send(r, rendered.messages \o <<createUserMessage(r), createLoadingAssistantMessage(r)>>)
    /\ UNCHANGED editing

\* Mutated handleRegenerateMessage: the old message is used again, as it is.
handleRegenerateInPlace(r) ==
    /\ Idle
    /\ \E i \in DOMAIN rendered.messages :
        /\ rendered.messages[i].from = "assistant" /\ ~Unsettled(rendered.messages[i])
        /\ Key(rendered.messages[i]) # editing
        /\ Send(r, Append(SubSeq(rendered.messages, 1, i - 1),
                          [rendered.messages[i] EXCEPT !.status = "loading", !.req = r]))
    /\ UNCHANGED editing

handleRegenerateMessage(r) ==
    /\ Idle
    /\ \E i \in DOMAIN rendered.messages :
        /\ rendered.messages[i].from = "assistant" /\ ~Unsettled(rendered.messages[i])
        /\ Key(rendered.messages[i]) # editing
        /\ Send(r, Append(SubSeq(rendered.messages, 1, i - 1), createLoadingAssistantMessage(r)))
    /\ UNCHANGED editing

\* The editor opens on a message with content, or is cancelled.
handleEditMessage ==
    /\ \/ /\ Idle
          /\ \E i \in DOMAIN rendered.messages :
                /\ rendered.messages[i].by # {} \/ rendered.messages[i].status = "error"
                /\ editing' = Key(rendered.messages[i])
       \/ open /\ editing' = NoKey
    /\ UNCHANGED <<stream, left, messages, rendered, dirty, storage, requests, sseSource, isComplete,
                   open, meddled>>

\* Save, and Save & Submit of a user message.
applyEdit(i, submit, r) ==
    LET updated == [rendered.messages EXCEPT ![i].by = {User}] IN
    /\ open /\ editing = Key(rendered.messages[i])
    /\ editing' = NoKey
    /\ IF submit /\ updated[i].from = "user"
       THEN Send(r, Append(SubSeq(updated, 1, i), createLoadingAssistantMessage(r)))
       ELSE Change(updated)

\* The messages with another key: keys are unique, so all but this one.
handleDeleteMessage(i) ==
    /\ Idle /\ Key(rendered.messages[i]) # editing
    /\ Change(RemoveAt(rendered.messages, i))
    /\ UNCHANGED editing

\* Mutated stopGeneration: the reference is dropped and the source left open.
stopGenerationDetaches ==
    /\ open /\ rendered.isGenerating
    /\ sseSource' = None
    /\ UNCHANGED requests
    /\ Draw(updateLastAssistantMessage(messages, Completed))
    /\ UNCHANGED <<stream, left, isComplete, editing, open, meddled>>

stopGeneration ==
    /\ open /\ rendered.isGenerating
    /\ requests' = [r \in Requests |-> IF r = sseSource THEN "closed" ELSE requests[r]]
    /\ sseSource' = None
    /\ Draw(updateLastAssistantMessage(messages, Completed))
    /\ UNCHANGED <<stream, left, isComplete, editing, open, meddled>>

----------------------------------------------------------------------------
(* The answers.                                                            *)
(***************************************************************************)
Chunk(r) ==
    /\ open /\ stream /\ requests[r] = "open"
    /\ Update(WithChunk(r))
    /\ UNCHANGED <<stream, left, requests, sseSource, isComplete, editing, open, meddled>>

\* Mutated Done: the source is closed, and the reference to it kept.
DoneKeepsReference(r) ==
    /\ open /\ stream /\ requests[r] = "open"
    /\ isComplete' = TRUE
    /\ requests' = [requests EXCEPT ![r] = "closed"]
    /\ Update(Completed)
    /\ UNCHANGED <<stream, left, sseSource, editing, open, meddled>>

\* [DONE]
Done(r) ==
    /\ open /\ stream /\ requests[r] = "open"
    /\ isComplete' = TRUE
    /\ requests' = [requests EXCEPT ![r] = "closed"]
    /\ sseSource' = None
    /\ Update(Completed)
    /\ UNCHANGED <<stream, left, editing, open, meddled>>

\* The connection fails, the status is not 200, or a chunk cannot be parsed.
\* After a [DONE], even one of another source, handleError does nothing: a
\* failed connection has ended all the same, a bad chunk is skipped and its
\* source stays open.
StreamError(r) ==
    LET closed == [requests EXCEPT ![r] = "closed"] IN
    /\ open /\ stream /\ requests[r] = "open"
    /\ \/ /\ ~isComplete
          /\ requests' = closed /\ sseSource' = None
          /\ Update(WithError)
       \/ /\ isComplete
          /\ requests' \in {closed, requests}
          /\ UNCHANGED <<sseSource, messages, rendered, storage, dirty>>
    /\ UNCHANGED <<stream, left, isComplete, editing, open, meddled>>

\* The server ends a good response without [DONE]: no callback is run.
StreamCut(r) ==
    /\ open /\ stream /\ requests[r] = "open"
    /\ requests' = [requests EXCEPT ![r] = "cut"]
    /\ UNCHANGED <<stream, left, messages, rendered, dirty, storage, sseSource, isComplete, editing,
                   open, meddled>>

\* sendNonStreamingChat after the await: an answer, none in it, or an error.
PlainAnswer(r) ==
    /\ open /\ ~stream /\ requests[r] = "open"
    /\ requests' = [requests EXCEPT ![r] = "closed"]
    /\ \/ Update(WithAnswer(r))
       \/ Update(WithError)
       \/ UNCHANGED <<messages, rendered, storage, dirty>>
    /\ UNCHANGED <<stream, left, sseSource, isComplete, editing, open, meddled>>

Network(r) == Chunk(r) \/ Done(r) \/ StreamError(r) \/ StreamCut(r) \/ PlainAnswer(r)

----------------------------------------------------------------------------
\* The page is closed or reloaded, and its requests end with it; or the user
\* goes to another page of the client, and they run on: nothing stops them.
Leave ==
    /\ open
    /\ open' = FALSE
    /\ \E after \in {"closed", "orphan"} :
        LET running == {r \in Requests : requests[r] = "open"} IN
        /\ requests' = [r \in Requests |-> IF r \in running THEN after
                                           ELSE IF requests[r] = "cut" THEN "closed"
                                           ELSE requests[r]]
        /\ left' = IF after = "orphan"
                   THEN [r \in Requests |-> IF r \in running THEN messages ELSE left[r]]
                   ELSE left
    /\ dirty' = FALSE
    /\ UNCHANGED <<stream, messages, rendered, storage, sseSource, isComplete, editing, meddled>>

\* Something arrives for a page that has been left.  React draws nothing any
\* more, but it may run the updater once, which saves the old conversation.
LateUpdate(r) ==
    /\ requests[r] = "orphan"
    /\ requests' = [requests EXCEPT ![r] = "closed"]
    /\ left' = [left EXCEPT ![r] = <<>>]
    /\ storage' \in {storage, updateLastAssistantMessage(left[r], Completed),
                    updateLastAssistantMessage(left[r], WithError),
                    updateLastAssistantMessage(left[r],
                        IF stream THEN WithChunk(r) ELSE WithAnswer(r))}
    /\ UNCHANGED <<stream, messages, rendered, dirty, sseSource, isComplete, editing, open, meddled>>

\* loadMessages, in a fresh component.
Load ==
    /\ ~open
    /\ open' = TRUE
    /\ sseSource' = None /\ isComplete' = FALSE
    /\ editing' = NoKey
    /\ Draw(sanitizeMessagesOnLoad(storage))
    /\ UNCHANGED <<stream, left, requests, meddled>>

ChatNext ==
    \/ \E r \in Requests :
        \/ handleSendMessage(r)
        \/ handleRegenerateMessage(r)
        \/ Network(r)
    \/ handleEditMessage
    \/ \E i \in DOMAIN rendered.messages :
        \/ handleDeleteMessage(i)
        \/ \E submit \in BOOLEAN, r \in Requests : applyEdit(i, submit, r)
    \/ stopGeneration
    \/ Render
    \/ Leave
    \/ \E r \in Requests : LateUpdate(r)
    \/ Load

ChatSpec == ChatInit /\ [][ChatNext]_chatVars

\* A page that has to be drawn is drawn.  That a response ends somehow is
\* assumed of the server and the network: the client sets no timeout.  The user
\* need not do anything.
FairChatSpec ==
    /\ ChatSpec
    /\ WF_chatVars(Render)
    /\ \A r \in Requests : WF_chatVars(Done(r) \/ StreamError(r) \/ StreamCut(r) \/ PlainAnswer(r))

----------------------------------------------------------------------------
(* As long as the conversation is left alone while an answer is on its     *)
(* way, no message holds text of another message's request, through stops, *)
(* errors, reloads, edits and regenerations.                               *)
AnswersAreOwn ==
    ~meddled => \A i \in DOMAIN messages :
                    messages[i].from = "assistant" => messages[i].by \subseteq {messages[i].req, User}

(* ... and an answer that is complete, stopped or failed is not changed by *)
(* the network any more.                                                   *)
SettledStaysSettled ==
    [][(\E r \in Requests : Network(r)) /\ ~meddled
        => \A i \in DOMAIN messages : ~Unsettled(messages[i]) => messages'[i] = messages[i]]_chatVars

(* ... and a streamed message that is still waiting shows the Stop button, *)
(* so that one whose stream was cut off without [DONE] can be ended.       *)
StopIsOffered ==
    open /\ stream /\ ~meddled /\ ~dirty =>
        \A i \in DOMAIN messages : Unsettled(messages[i]) => rendered.isGenerating

(* The three together: what is on the page belongs there and can be ended. *)
ConversationSound == ChatTypeOK /\ AnswersAreOwn /\ StopIsOffered

(* ... and loading the saved conversation leaves no message waiting.       *)
LoadSettles ==
    [][Load /\ ~meddled => \A i \in DOMAIN messages' : ~Unsettled(messages'[i])]_chatVars

(* The page is not blocked for ever by a stream that ends, however many    *)
(* the user has started on top of each other, except by one that is cut    *)
(* off without [DONE]: that one keeps it until the user presses Stop, as   *)
(* does a connection that stays silent, which the fairness assumes away.   *)
GeneratingEnds ==
    open /\ rendered.isGenerating ~> ~open \/ ~rendered.isGenerating \/ \E r \in Requests : requests[r] = "cut"
=============================================================================
