-------------------------- MODULE ChatOrchestrator --------------------------
(***************************************************************************)
(* One chat of the SDK through the aggregator: the client prepares the     *)
(* request, the orchestrator queries the data sources in parallel, ranks   *)
(* what they return, asks the model and answers, as one response ("chat",  *)
(* "retrieve") or as a stream of events ("stream"; "tokens" when the model *)
(* streams too).  Every call over HTTP may be answered 402, paid from the  *)
(* user's wallet at the hub and repeated with the credential, and a 5xx    *)
(* is retried; a call through the tunnel is one request and one reply.     *)
(* What documents and prompts contain is left out; of a reply only what    *)
(* the code branches on is kept, and whether its policy metadata reports a *)
(* charge.                                                                 *)
(***************************************************************************)
EXTENDS Naturals, Sequences, FiniteSets

CONSTANTS Sources,     \* data sources a request may name
          Model,       \* the model endpoint
          Requests,    \* the requests callers make
          Replies,     \* what an endpoint or the network answers to a POST
          MaxRetries,  \* MAX_RETRIES of the two clients
          MaxBeats     \* bound: heartbeats, and chunks of a streamed answer

\* Assumed by the modules that take an instance of this one.
Bounds ==
  /\ IsFiniteSet(Sources) /\ Model \notin Sources
  /\ MaxRetries \in Nat /\ MaxBeats \in Nat
  /\ Replies \subseteq {"ok", "empty", "misshapen", "garbage", "payment",
        "denied", "limited", "busy", "failed", "timeout", "unreachable"}

Endpoints == Sources \cup {Model}
Modes     == {"chat", "retrieve", "stream", "tokens"}

AnyRequest == [mode : Modes, sources : SUBSET Sources,
               tunnelled : SUBSET Endpoints, user : BOOLEAN]

RequestsTyped == Requests \subseteq AnyRequest

TunnelReplies == Replies \cap {"ok", "empty", "misshapen", "failed", "timeout"}
NoAnswer      == Replies \cap {"timeout", "unreachable"}
CanCharge     == {"ok", "empty", "denied", "limited", "busy", "failed"}

Statuses   == {"success", "error", "timeout", "payment_failed", "access_denied"}
Places     == {"idle", "asked", "wallet", "reposted", "backoff", "probing",
               "chunks", "over", "cancelled"}
Quiet      == {"idle", "over", "cancelled"}

VARIABLES
  req,       \* the request: mode, data sources, tunnelled endpoints, wallet user?
  client,    \* "preparing", "waiting", "gone", "answered" or "raised"
  pc,        \* where the orchestrator is
  call,      \* per endpoint: where its call is, and its attempt
  result,    \* per endpoint: what the call returned to the orchestrator
  payments,  \* per endpoint: credentials the wallet has signed for it
  unsettled, \* endpoints with a payment request at the hub that no call waits for
  events,    \* the events of the stream
  answer     \* how the orchestrator ended, and the billing it reported

vars == <<req, client, pc, call, result, payments, unsettled, events, answer>>

Streaming  == req.mode \in {"stream", "tokens"}
Tunnelled(e) == e \in req.tunnelled

Idle     == [at |-> "idle", try |-> 0]
NoResult == [status |-> "none", docs |-> FALSE, bill |-> FALSE]
NoneYet  == [kind |-> "none", billing |-> {}]

-----------------------------------------------------------------------------
\* An event of the stream: its kind, and the source that is complete.
Event == {<<"retrieval_start">>, <<"reranking_start">>, <<"reranking_complete">>,
          <<"retrieval_complete">>, <<"generation_start">>, <<"generation_heartbeat">>,
          <<"token">>, <<"done">>, <<"error">>}
         \cup {<<"source_complete", s>> : s \in Sources}

TypeOK ==
  /\ req \in AnyRequest
  /\ client \in {"preparing", "waiting", "gone", "answered", "raised"}
  /\ pc \in {"idle", "retrieving", "ranking", "generating", "over"}
  /\ call \in [Endpoints -> [at : Places, try : 0..MaxRetries]]
  /\ result \in [Endpoints -> [status : Statuses \cup {"none", "crashed"},
                               docs : BOOLEAN, bill : BOOLEAN]]
  /\ payments \in [Endpoints -> Nat] /\ unsettled \subseteq Endpoints
  /\ events \in Seq(Event)
  /\ answer \in [kind : {"none", "done", "failed", "denied", "crashed"},
                 billing : SUBSET Endpoints]

Init ==
  /\ req \in Requests
  /\ client = "preparing" /\ pc = "idle"
  /\ call = [e \in Endpoints |-> Idle]
  /\ result = [e \in Endpoints |-> NoResult]
  /\ payments = [e \in Endpoints |-> 0] /\ unsettled = {}
  /\ events = <<>> /\ answer = NoneYet

-----------------------------------------------------------------------------
\* The client: references, tokens and the peer channel are fetched before
\* anything is sent, and any of these calls may fail and raise.
PrepareFails ==
  /\ client = "preparing"
  /\ client' = "raised" /\ pc' = "over"
  /\ UNCHANGED <<req, call, result, payments, unsettled, events, answer>>

Emit(new) == events' = IF Streaming THEN events \o new ELSE events

\* The POST to the aggregator: every source's query is started at once.
StartChat ==
  /\ client = "preparing"
  /\ client' = "waiting" /\ pc' = "retrieving"
  /\ call' = [e \in Endpoints |->
                IF e \in req.sources THEN [Idle EXCEPT !.at = "asked"] ELSE Idle]
  /\ Emit(<< <<"retrieval_start">> >>)
  /\ UNCHANGED <<req, result, payments, unsettled, answer>>

\* What the caller gets: an answer, or an exception.  complete and retrieve
\* raise on a 4xx and a 5xx; stream hands an error event on, and raises when
\* the stream breaks off.
Receive(kinds) ==
  /\ client = "waiting" /\ answer.kind # "none"
  /\ client' = IF answer.kind \in kinds THEN "answered" ELSE "raised"
  /\ UNCHANGED <<req, pc, call, result, payments, unsettled, events, answer>>

Complete == req.mode = "chat"     /\ Receive({"done"})
Retrieve == req.mode = "retrieve" /\ Receive({"done"})
Stream   == Streaming             /\ Receive({"done", "failed", "denied"})

\* The caller drops the stream, or its own timeout ends the wait.
ClientLeaves ==
  /\ client = "waiting"
  /\ client' = "gone"
  /\ UNCHANGED <<req, pc, call, result, payments, unsettled, events, answer>>

\* Faulty: the generation task is left running.
GenerationRunsOn(c) == c

\* The response task of a stream is cancelled: generate is cancelled with it,
\* the queries of the data sources run on.  A payment request that generate
\* has sent stays with the hub.
CancelGeneration(c) ==
  [c EXCEPT ![Model].at = IF @ \in Quiet THEN @ ELSE "cancelled"]

TearDown ==
  /\ client = "gone" /\ Streaming /\ pc # "over"
  /\ pc' = "over" /\ call' = CancelGeneration(call)
  /\ unsettled' = IF call[Model].at = "wallet" THEN unsettled \cup {Model} ELSE unsettled
  /\ UNCHANGED <<req, client, result, payments, events, answer>>

-----------------------------------------------------------------------------
\* One call of an endpoint.
Settle(e, status, r, bill) ==
  /\ call' = [call EXCEPT ![e].at = "over"]
  /\ result' = [result EXCEPT ![e] = [status |-> status, docs |-> r = "ok",
                                       bill |-> bill]]
  /\ UNCHANGED <<payments, unsettled>>

\* DataSourceClient.query: a status of a rejection that the result's type
\* does not know ends in the catch-all, which reports a plain error.
SourceStatus(r, paid) ==
  CASE r \in {"ok", "empty"}     -> "success"
    [] r = "denied"              -> "access_denied"
    [] r \in NoAnswer /\ paid    -> "payment_failed"
    [] r = "timeout"             -> "timeout"
    [] OTHER                     -> "error"

\* ModelClient.chat: JSON of another shape escapes as a plain exception.
ModelStatus(e, r, paid) ==
  CASE r \in {"ok", "empty"}                  -> "success"
    [] r = "misshapen" /\ ~Tunnelled(e)       -> "crashed"
    [] OTHER                                  -> "error"

StatusOf(e, r, paid) ==
  IF e = Model THEN ModelStatus(e, r, paid) ELSE SourceStatus(r, paid)

KeepsBill(e, r) == r \in CanCharge /\ (e = Model \/ r # "limited")

Retries(e, r) ==
  r = "busy" /\ ~Tunnelled(e) /\ call[e].try < MaxRetries

\* Faulty: a 402 to the repeated request is paid again.
AlwaysToWallet(e, r) ==
  r = "payment" /\ req.user /\ call[e].at \in {"asked", "reposted"}

\* A 402 to the first POST of an attempt goes to the wallet.
GoesToWallet(e, r) == r = "payment" /\ req.user /\ call[e].at = "asked"

Plain(e) == ~(e = Model /\ req.mode = "tokens")

HttpAnswered(e) ==
  /\ Plain(e) /\ ~Tunnelled(e) /\ call[e].at \in {"asked", "reposted"}
  /\ \E r \in Replies, bill \in BOOLEAN :
       /\ bill => r \in CanCharge
       /\ ~GoesToWallet(e, r) /\ ~Retries(e, r)
       /\ Settle(e, StatusOf(e, r, call[e].at = "reposted"), r,
                 bill /\ KeepsBill(e, r))
  /\ UNCHANGED <<req, client, pc, events, answer>>

TunnelAnswered(e) ==
  /\ Plain(e) /\ Tunnelled(e) /\ call[e].at = "asked"
  /\ \E r \in TunnelReplies, bill \in BOOLEAN :
       /\ bill => r \in CanCharge
       /\ Settle(e, StatusOf(e, r, FALSE), r, bill)
  /\ UNCHANGED <<req, client, pc, events, answer>>

Challenged(e) ==
  /\ Plain(e) /\ ~Tunnelled(e)
  /\ "payment" \in Replies /\ GoesToWallet(e, "payment")
  /\ call' = [call EXCEPT ![e].at = "wallet"]
  /\ UNCHANGED <<req, client, pc, result, payments, unsettled, events, answer>>

Backoff(e) ==
  /\ Plain(e) /\ call[e].at \in {"asked", "reposted"}
  /\ "busy" \in Replies /\ Retries(e, "busy")
  /\ call' = [call EXCEPT ![e].at = "backoff"]
  /\ UNCHANGED <<req, client, pc, result, payments, unsettled, events, answer>>

\* The next attempt starts from the plain headers: without the credential.
AskAgain(e) ==
  /\ call[e].at = "backoff"
  /\ call' = [call EXCEPT ![e] = [at |-> "asked", try |-> @.try + 1]]
  /\ UNCHANGED <<req, client, pc, result, payments, unsettled, events, answer>>

\* handle_mpp_payment: POST /wallet/pay at the hub.
WalletSigns(e) ==
  /\ call[e].at = "wallet"
  /\ payments' = [payments EXCEPT ![e] = @ + 1]
  /\ call' = [call EXCEPT ![e].at = IF Plain(e) THEN "reposted" ELSE "asked"]
  /\ UNCHANGED <<req, client, pc, result, unsettled, events, answer>>

\* It refuses, it is not reached, or its answer does not come in time.
WalletFails(e) ==
  /\ call[e].at = "wallet"
  /\ unsettled' \in {unsettled, unsettled \cup {e}}
  /\ call' = [call EXCEPT ![e].at = "over"]
  /\ result' = [result EXCEPT ![e] =
       [status |-> IF e = Model THEN "error" ELSE "payment_failed",
        docs |-> FALSE, bill |-> FALSE]]
  /\ UNCHANGED <<req, client, pc, payments, events, answer>>

\* The hub comes to a payment request that no call waits for any more, and
\* signs it or not.
WalletSignsLate(e) ==
  /\ e \in unsettled /\ unsettled' = unsettled \ {e}
  /\ \E signed \in {0, 1} : payments' = [payments EXCEPT ![e] = @ + signed]
  /\ UNCHANGED <<req, client, pc, call, result, events, answer>>

\* A challenge without a header is not paid: the 402 is the result.
NoChallenge(e) ==
  /\ call[e].at = "wallet"
  /\ IF Plain(e)
       THEN Settle(e, "error", "payment", FALSE)
       ELSE /\ call' = [call EXCEPT ![e].at = "asked"]
            /\ UNCHANGED <<result, payments, unsettled>>
  /\ UNCHANGED <<req, client, pc, events, answer>>

-----------------------------------------------------------------------------
\* The streamed answer of the model ("tokens"): chat_stream.  With a wallet
\* user a complete, unstreamed request is sent first to see whether it is
\* answered 402; any other answer to it is thrown away, and an error of the
\* connection escapes as it is.
ModelReplies == IF Tunnelled(Model) THEN NoAnswer ELSE Replies

Probed ==
  /\ call[Model].at = "probing"
  /\ \E r \in ModelReplies :
       IF r \in NoAnswer
         THEN Settle(Model, "crashed", r, FALSE)
         ELSE /\ call' = [call EXCEPT ![Model].at =
                            IF r = "payment" THEN "wallet" ELSE "asked"]
              /\ UNCHANGED <<result, payments, unsettled>>
  /\ UNCHANGED <<req, client, pc, events, answer>>

StreamAnswered ==
  /\ ~Plain(Model) /\ call[Model].at = "asked"
  /\ \E r \in ModelReplies :
       IF r = "ok"
         THEN /\ call' = [call EXCEPT ![Model].at = "chunks"]
              /\ UNCHANGED <<result, payments, unsettled>>
         ELSE Settle(Model, IF r \in {"empty", "garbage"} THEN "success"
                            ELSE IF r = "misshapen" THEN "crashed" ELSE "error",
                     r, FALSE)
  /\ UNCHANGED <<req, client, pc, events, answer>>

Count(kind) == Cardinality({i \in DOMAIN events : events[i] = <<kind>>})

Chunk ==
  /\ call[Model].at = "chunks" /\ pc = "generating"
  /\ Count("token") < MaxBeats
  /\ Emit(<< <<"token">> >>)
  /\ UNCHANGED <<req, client, pc, call, result, payments, unsettled, answer>>

ChunksEnd ==
  /\ call[Model].at = "chunks"
  /\ \E r \in {"ok"} \cup NoAnswer :
       Settle(Model, IF r = "ok" THEN "success" ELSE "error", r, FALSE)
  /\ UNCHANGED <<req, client, pc, events, answer>>

-----------------------------------------------------------------------------
\* The orchestrator.
Completed == {s \in req.sources : \E i \in DOMAIN events :
                                     events[i] = <<"source_complete", s>>}

SourceComplete(s) ==
  /\ pc = "retrieving" /\ Streaming
  /\ s \in req.sources \ Completed /\ call[s].at = "over"
  /\ Emit(<< <<"source_complete", s>> >>)
  /\ UNCHANGED <<req, client, pc, call, result, payments, unsettled, answer>>

\* Faulty: the loop ends with the queries, reported or not.
AllOver == \A s \in req.sources : call[s].at = "over"

AllAnswered ==
  /\ \A s \in req.sources : call[s].at = "over"
  /\ Streaming => Completed = req.sources

Refused    == {s \in req.sources : result[s].status = "access_denied"}
HaveDocs   == \E s \in req.sources : result[s].status = "success" /\ result[s].docs
Charged(E) == {e \in E : result[e].bill}

End(kind, billing, new) ==
  /\ pc' = "over" /\ answer' = [kind |-> kind, billing |-> billing]
  /\ Emit(new)

\* A stream is ended when a selected source refused access, without billing.
Aborts == Streaming /\ Refused # {}

AbortOnRefusal ==
  /\ pc = "retrieving" /\ AllAnswered /\ Aborts
  /\ End("denied", {}, << <<"error">> >>)
  /\ UNCHANGED <<req, client, call, result, payments, unsettled>>

RetrievalOnly ==
  /\ pc = "retrieving" /\ AllAnswered /\ req.mode = "retrieve"
  /\ End("done", Charged(req.sources), <<>>)
  /\ UNCHANGED <<req, client, call, result, payments, unsettled>>

StartRanking ==
  /\ pc = "retrieving" /\ AllAnswered /\ ~Aborts /\ req.mode # "retrieve"
  /\ HaveDocs
  /\ pc' = "ranking" /\ Emit(<< <<"reranking_start">> >>)
  /\ UNCHANGED <<req, client, call, result, payments, unsettled, answer>>

\* A tunnelled model without a satellite token of its owner is not asked.
StartGeneration ==
  /\ \/ pc = "retrieving" /\ AllAnswered /\ ~Aborts /\ ~HaveDocs
        /\ req.mode # "retrieve"
     \/ pc = "ranking"
  /\ pc' = "generating"
  /\ \/ /\ call' = [call EXCEPT ![Model].at =
                      IF ~Plain(Model) /\ req.user THEN "probing" ELSE "asked"]
        /\ UNCHANGED <<result, payments, unsettled>>
     \/ /\ Tunnelled(Model) /\ Plain(Model)
        /\ Settle(Model, "error", "none", FALSE)
  /\ Emit((IF pc = "ranking" THEN << <<"reranking_complete">> >> ELSE <<>>)
            \o << <<"retrieval_complete">>, <<"generation_start">> >>)
  /\ UNCHANGED <<req, client, answer>>

Heartbeat ==
  /\ pc = "generating" /\ req.mode = "stream" /\ call[Model].at # "over"
  /\ Count("generation_heartbeat") < MaxBeats
  /\ Emit(<< <<"generation_heartbeat">> >>)
  /\ UNCHANGED <<req, client, pc, call, result, payments, unsettled, answer>>

\* Only a GenerationError is caught; another exception breaks the stream off,
\* and answers a plain chat with 500.
Generated == pc = "generating" /\ call[Model].at = "over"
Billing   == Charged(req.sources \cup {Model})

FinishChat ==
  /\ Generated /\ ~Streaming
  /\ CASE result[Model].status = "success" -> End("done", Billing, <<>>)
       [] result[Model].status = "crashed" -> End("crashed", {}, <<>>)
       [] OTHER                            -> End("failed", Billing, <<>>)
  /\ UNCHANGED <<req, client, call, result, payments, unsettled>>

LastToken == IF req.mode = "stream" THEN << <<"token">> >> ELSE <<>>

\* Faulty: an unexpected exception of the model's task is not noticed.
FinishStreamUnlessCrashed ==
  /\ Generated /\ Streaming
  /\ CASE result[Model].status = "success" ->
            End("done", Billing, LastToken \o << <<"done">> >>)
       [] result[Model].status = "error" ->
            End("failed", Billing, << <<"error">> >>)
       [] OTHER -> FALSE
  /\ UNCHANGED <<req, client, call, result, payments, unsettled>>

FinishStream ==
  /\ Generated /\ Streaming
  /\ CASE result[Model].status = "success" ->
            End("done", Billing, LastToken \o << <<"done">> >>)
       [] result[Model].status = "crashed" -> End("crashed", {}, <<>>)
       [] OTHER -> End("failed", Billing, << <<"error">> >>)
  /\ UNCHANGED <<req, client, call, result, payments, unsettled>>

-----------------------------------------------------------------------------
CallStep(e) ==
  \/ HttpAnswered(e) \/ TunnelAnswered(e) \/ Challenged(e) \/ Backoff(e) \/ AskAgain(e)
  \/ WalletSigns(e) \/ WalletFails(e) \/ NoChallenge(e)

ModelStep == Probed \/ StreamAnswered \/ ChunksEnd

OrchestratorStep ==
  \/ \E s \in Sources : SourceComplete(s)
  \/ AbortOnRefusal \/ RetrievalOnly \/ StartRanking \/ StartGeneration
  \/ FinishChat \/ FinishStream

Ended == client \in {"gone", "answered", "raised"} /\ pc = "over"
         /\ \A e \in Endpoints : call[e].at \in Quiet

Next ==
  \/ PrepareFails \/ StartChat \/ Complete \/ Retrieve \/ Stream \/ ClientLeaves \/ TearDown
  \/ \E e \in Endpoints : CallStep(e) \/ WalletSignsLate(e)
  \/ ModelStep \/ Chunk \/ Heartbeat
  \/ OrchestratorStep
  \/ Ended /\ UNCHANGED vars

\* Every POST ends, by an answer or by the timeout of the HTTP client or of
\* the tunnel; the event loop runs every task that is ready.  A caller need
\* not leave, and nothing makes the model send one more chunk.
Fairness ==
  /\ WF_vars(StartChat \/ PrepareFails)
  /\ WF_vars(Complete \/ Retrieve \/ Stream) /\ WF_vars(TearDown)
  /\ \A e \in Endpoints : WF_vars(CallStep(e))
  /\ WF_vars(ModelStep)
  /\ WF_vars(OrchestratorStep)

Spec == Init /\ [][Next]_vars /\ Fairness

-----------------------------------------------------------------------------
\* Properties.

\* The wallet signs at most one credential per attempt of a call, none for a
\* call through the tunnel and none for a guest: mpp_payment.py under the
\* retries of data_source.py and model.py.  (It may be one for every attempt:
\* the retry of a paid request that was answered 5xx is challenged anew.)
PaymentsBounded ==
  \A e \in Endpoints :
    /\ payments[e] <= call[e].try + 1
    /\ payments[e] > 0 => req.user /\ ~Tunnelled(e)

\* The stream the frontend and the SDK parse: phases in order, each source
\* reported once and before the retrieval is complete, text only after the
\* generation has started, and nothing after "done" or "error", of which
\* there is at most one: process_chat_stream.
Rank(event) ==
  CASE event[1] = "retrieval_start"      -> 1
    [] event[1] = "source_complete"      -> 2
    [] event[1] = "reranking_start"      -> 3
    [] event[1] = "reranking_complete"   -> 4
    [] event[1] = "retrieval_complete"   -> 5
    [] event[1] = "generation_start"     -> 6
    [] event[1] = "generation_heartbeat" -> 7
    [] event[1] = "token"                -> 8
    [] event[1] \in {"done", "error"}    -> 9

StreamOrdered ==
  /\ \A i, j \in DOMAIN events : i < j =>
       /\ Rank(events[i]) <= Rank(events[j])
       /\ Rank(events[i]) \in {2, 7, 8} \/ Rank(events[i]) # Rank(events[j])
       /\ Rank(events[i]) = 2 => events[i] # events[j]
  /\ \A i \in DOMAIN events : Rank(events[i]) = 5 => Completed = req.sources

\* A stream whose user selected a source that refused access asks the model
\* nothing, whatever order the sources answer in ("degrading silently ...
\* would answer with the wrong context and (worse) charge them for it").
RefusedNeverGenerates ==
  (Streaming /\ Refused # {}) =>
    /\ call[Model].at = "idle" /\ payments[Model] = 0
    /\ answer.kind \in {"none", "denied"}

\* What the reader of a stream relies on: the order, and the early end.
StreamWellFormed == StreamOrdered /\ RefusedNeverGenerates

\* What an endpoint has been paid, and may be for a request at the hub.
Due(e) == payments[e] + (IF e \in unsettled THEN 1 ELSE 0)

\* Once the response task of a stream whose reader left is gone, the model is
\* not asked again, nor paid except for a request that was at the hub by then:
\* the finally of process_chat_stream (orchestrator.py:741-743) stops the call,
\* and the hub may still sign what mpp_payment.py:56-64 has sent it.
ModelLeftAlone ==
  [][(client = "gone" /\ Streaming /\ pc = "over") =>
       UNCHANGED call[Model] /\ Due(Model)' <= Due(Model)]_vars

\* Every chat that was sent comes to an end: the caller has an answer or an
\* exception, or left, and no call of the aggregator is still open.
ChatEnds ==
  (client = "waiting") ~>
    (client \in {"answered", "raised", "gone"}
      /\ \A e \in Endpoints : call[e].at \in Quiet)
=============================================================================
