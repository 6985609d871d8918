------------------------------- MODULE Ingest -------------------------------
(***************************************************************************)
(* The HTTP ingest proxy (deblob-http): a listener that checks, tags and   *)
(* forwards what producers post, while it feeds unknown shapes to the      *)
(* discovery topic.  Each request is a task of its own that may be cut     *)
(* short at any await - by a timeout, a lost connection or a crash - when  *)
(* its forward and its discovery message are already on their way.         *)
(* Producers post again what was not acknowledged.                         *)
(*                                                                         *)
(* A header map is a function from names to the sequence of their values.  *)
(* The classification of a body is the hot matcher's (Tagging); here it is *)
(* any answer the registry may give meanwhile.                            *)
(***************************************************************************)
EXTENDS Naturals, FiniteSets, Sequences, SequencesExt, FiniteSetsExt

CONSTANTS
    Producers,      \* each posts one request until it is answered
    Postings,       \* what each may post: [headers, weight, size, shape] by producer
    Route,          \* the upstream, and
    Allowlist,      \* the upstreams allowed: [scheme, host, port]
    IngestToken,    \* the bearer token asked for, or NoToken
    NoToken,
    Sink,           \* is a discovery sink configured?
    MaxBodyBytes, MaxHeaderBytes, MaxHeaderCount,
    MaxPosts, MaxLives    \* bounds of the model: posts in all, and processes

ASSUME BoundsAssumption ==
    /\ {MaxBodyBytes, MaxHeaderBytes, MaxHeaderCount, MaxPosts, MaxLives} \subseteq Nat
    /\ Sink \in BOOLEAN

VARIABLES
    request,     \* what each producer posts
    attempt,     \* how often each has posted it
    conn,        \* the task that serves each producer's connection
    answers,     \* the status each attempt was answered with
    listener,    \* starting, serving, draining, stopped or refused
    life,        \* which process this is
    offset,      \* discovery_offset
    outbox,      \* discovery messages in the producer's queue
    topic,       \* ... and on the discovery topic
    wire,        \* forwards under way to the upstream
    received,    \* ... and received by it
    applied      \* the writes it performed, one per idempotency key

taskVars == <<attempt, conn, answers>>
processVars == <<listener, life, offset>>
upstreamVars == <<received, applied>>
vars == <<request, taskVars, processVars, outbox, topic, wire, upstreamVars>>

-----------------------------------------------------------------------------
(* What is refused before the body is read.                                *)

Accepted == 0
Lost == 1        \* the connection ended without an answer

Has(headers, name) == name \in DOMAIN headers
Values(headers, name) == IF Has(headers, name) THEN headers[name] ELSE <<>>

\* NoToken is no credential that a producer presents.
ASSUME TokenAssumption ==
    \A posting \in Postings : \A p \in Producers :
        NoToken \notin Range(Values(posting[p].headers, "authorization"))

check_framing(headers) ==
    /\ Len(Values(headers, "content-length")) <= 1
    /\ ~(Has(headers, "content-length") /\ Has(headers, "transfer-encoding"))

HeaderCount(headers) == FoldSet(LAMBDA name, n : n + Len(headers[name]), 0, DOMAIN headers)

check_header_limits(r) == HeaderCount(r.headers) <= MaxHeaderCount /\ r.weight <= MaxHeaderBytes

\* A length that is absent, or is no number, is left to the cap on the body.
check_content_length(headers) ==
    \A n \in Range(Values(headers, "content-length")) : n.parses => n.value <= MaxBodyBytes

check_ingest_bearer(headers) ==
    Has(headers, "authorization") /\ Head(headers["authorization"]) = IngestToken

\* The first check that fails decides the status.
Refusal(r) ==
    IF ~check_framing(r.headers) THEN 400
    ELSE IF ~check_header_limits(r) THEN 431
    ELSE IF ~check_content_length(r.headers) THEN 413
    ELSE IF IngestToken # NoToken /\ ~check_ingest_bearer(r.headers) THEN 401
    ELSE Accepted

-----------------------------------------------------------------------------
(* What is forwarded.                                                      *)

Reserved == {"deblob-schema-id", "deblob-origin", "deblob-semantic-hint"}
HopByHop == {"connection", "transfer-encoding"}

strip_reserved_and_hop_by_hop(headers) ==
    Restrict(headers, DOMAIN headers \ (Reserved \cup HopByHop))

\* HeaderMap::insert: one value, whatever was there.
Inserted(headers, name, value) ==
    [n \in DOMAIN headers \cup {name} |-> IF n = name THEN <<value>> ELSE headers[n]]

with_tag(headers, ref, origin) ==
    Inserted(Inserted(headers, "deblob-schema-id", ref), "deblob-origin", origin)

\* Mutant: a key is generated for every request, the producer's own or not.
Bug_ensure_idempotency_key(headers, fresh) == Inserted(headers, "idempotency-key", fresh)

ensure_idempotency_key(headers, fresh) ==
    IF Has(headers, "idempotency-key") THEN headers ELSE Inserted(headers, "idempotency-key", fresh)

\* Authorization is the producer's credential for this proxy when one is asked for. The
\* origin ends in a fresh id, which stands for itself here.
ForwardHeaders(headers, ref, fresh) ==
    LET stripped == strip_reserved_and_hop_by_hop(headers)
        kept == IF IngestToken # NoToken
                THEN Restrict(stripped, DOMAIN stripped \ {"authorization"}) ELSE stripped
    IN ensure_idempotency_key(with_tag(kept, ref, fresh), fresh)

KeyOf(forward) == Head(forward.headers["idempotency-key"])

-----------------------------------------------------------------------------
(* The listener.                                                           *)

Idle == [pc |-> "closed", enqueue |-> "done", forward |-> Accepted]

Init ==
    /\ request \in Postings
    /\ attempt = [p \in Producers |-> 0]
    /\ conn = [p \in Producers |-> Idle]
    /\ answers = [p \in Producers |-> <<>>]
    /\ listener = "starting"
    /\ life = 1
    /\ offset = 0
    /\ outbox = {} /\ topic = {}
    /\ wire = {} /\ received = {} /\ applied = {}

is_allowlisted(route) ==
    \E allowed \in Allowlist :
        /\ allowed.scheme = route.scheme
        /\ allowed.host = route.host
        /\ allowed.port = route.port

\* build_http_proxy_wiring: serve() starts no proxy at all on a route that is not allowlisted;
\* a token is asked for only if the configuration requires one.
Wired == is_allowlisted(Route)

\* HttpProxy::run looks again, and binds nothing unless the route is allowlisted.
Start ==
    /\ listener = "starting"
    /\ listener' = IF Wired /\ is_allowlisted(Route) THEN "serving" ELSE "refused"
    /\ UNCHANGED <<request, taskVars, life, offset, outbox, topic, wire, upstreamVars>>

Shutdown ==
    /\ listener = "serving"
    /\ listener' = "draining"
    /\ UNCHANGED <<request, taskVars, life, offset, outbox, topic, wire, upstreamVars>>

\* The process ends when the last connection has: what its Kafka client still holds is lost.
Drain ==
    /\ listener = "draining"
    /\ \A p \in Producers : conn[p].pc = "closed"
    /\ listener' = "stopped"
    /\ outbox' = {}
    /\ UNCHANGED <<request, taskVars, life, offset, topic, wire, upstreamVars>>

Crash ==
    /\ listener \in {"serving", "draining"}
    /\ listener' = "stopped"
    /\ conn' = [p \in Producers |-> Idle]
    /\ answers' = [p \in Producers |->
                     IF conn[p].pc = "closed" THEN answers[p] ELSE Append(answers[p], Lost)]
    /\ outbox' = {}
    /\ UNCHANGED <<request, attempt, life, offset, topic, wire, upstreamVars>>

\* The counter of the synthetic cursors starts over with the process.
Restart ==
    /\ listener = "stopped" /\ life < MaxLives
    /\ listener' = "starting"
    /\ life' = life + 1
    /\ offset' = 0
    /\ UNCHANGED <<request, taskVars, outbox, topic, wire, upstreamVars>>

-----------------------------------------------------------------------------
(* One request.                                                            *)

Answer(p, status) ==
    /\ conn' = [conn EXCEPT ![p] = Idle]
    /\ answers' = [answers EXCEPT ![p] = Append(@, status)]

\* A producer gives up on what was refused and repeats what was not answered for good.
Repeats == {Lost, 408, 502, 504}

Post(p) ==
    /\ listener = "serving"
    /\ conn[p].pc = "closed" /\ MapThenSumSet(LAMBDA q : attempt[q], Producers) < MaxPosts
    /\ answers[p] # <<>> => Last(answers[p]) \in Repeats
    /\ attempt' = [attempt EXCEPT ![p] = @ + 1]
    /\ conn' = [conn EXCEPT ![p].pc = "head"]
    /\ UNCHANGED <<request, answers, processVars, outbox, topic, wire, upstreamVars>>

\* ingest_handler up to the read of the body.
HeadArrives(p) ==
    /\ conn[p].pc = "head"
    /\ LET status == Refusal(request[p])
       IN IF status = Accepted
          THEN conn' = [conn EXCEPT ![p].pc = "body"] /\ UNCHANGED answers
          ELSE Answer(p, status)
    /\ UNCHANGED <<request, attempt, processVars, outbox, topic, wire, upstreamVars>>

\* Mutant: a producer that dribbles its headers is waited for.
Bug_HeaderReadTimeout(p) == FALSE /\ UNCHANGED vars

HeaderReadTimeout(p) ==
    /\ conn[p].pc = "head"
    /\ Answer(p, Lost)
    /\ UNCHANGED <<request, attempt, processVars, outbox, topic, wire, upstreamVars>>

MalformedBody == "malformed"
UnresolvedTag == "unresolved"
Ref(kind, shape) == [kind |-> kind, shape |-> shape]

\* HotMatcher::classify, whatever the registry holds by now and whether or not it answers.
Classifications(shape) ==
    {Ref(kind, shape) : kind \in IF shape = MalformedBody THEN {MalformedBody}
                                 ELSE {"known", "provisional", UnresolvedTag}}

\* enqueue_discovery: the message of an unknown shape, with the next synthetic cursor.
Enqueued(p, ref) ==
    IF ref.kind = "provisional" /\ Sink
    THEN {[producer |-> p, attempt |-> attempt[p], ref |-> ref, life |-> life, offset |-> offset]}
    ELSE {}

\* The synchronous part of ingest_handler after classify, up to the first await of the two
\* futures that are polled together.
Forward(p, ref) ==
    LET fresh == <<"generated", p, attempt[p]>>
        messages == Enqueued(p, ref)
    IN /\ wire' = wire \cup {[producer |-> p, attempt |-> attempt[p],
                              headers |-> ForwardHeaders(request[p].headers, ref, fresh)]}
       /\ outbox' = outbox \cup messages
       /\ offset' = offset + Cardinality(messages)
       /\ conn' = [conn EXCEPT ![p] =
                     [pc |-> "join", forward |-> Accepted,
                      enqueue |-> IF messages = {} THEN "done" ELSE "pending"]]
       /\ UNCHANGED answers

\* Mutant: what cannot be parsed is forwarded before it is refused.
Bug_BodyArrives(p) ==
    /\ conn[p].pc = "body"
    /\ IF request[p].size > MaxBodyBytes
       THEN Answer(p, 413) /\ UNCHANGED <<wire, outbox, offset>>
       ELSE \E ref \in Classifications(request[p].shape) :
              IF ref.kind = MalformedBody
              THEN /\ Answer(p, 422)
                   /\ wire' = wire \cup {[producer |-> p, attempt |-> attempt[p],
                                          headers |-> request[p].headers]}
                   /\ UNCHANGED <<outbox, offset>>
              ELSE Forward(p, ref)
    /\ UNCHANGED <<request, attempt, listener, life, topic, upstreamVars>>

BodyArrives(p) ==
    /\ conn[p].pc = "body"
    /\ IF request[p].size > MaxBodyBytes
       THEN Answer(p, 413) /\ UNCHANGED <<wire, outbox, offset>>
       ELSE \E ref \in Classifications(request[p].shape) :
              IF ref.kind = MalformedBody
              THEN Answer(p, 422) /\ UNCHANGED <<wire, outbox, offset>>
              ELSE IF ~is_allowlisted(Route)
              THEN Answer(p, 502) /\ UNCHANGED <<wire, outbox, offset>>
              ELSE Forward(p, ref)
    /\ UNCHANGED <<request, attempt, listener, life, topic, upstreamVars>>

\* discovery_enqueue_timeout: the request no longer waits; the message stays in the queue.
EnqueueTimeout(p) ==
    /\ conn[p].pc = "join" /\ conn[p].enqueue = "pending"
    /\ conn' = [conn EXCEPT ![p].enqueue = "done"]
    /\ UNCHANGED <<request, attempt, answers, processVars, outbox, topic, wire, upstreamVars>>

\* The upstream's answer, an error of the transport, or upstream_timeout.
ForwardEnds(p, status) ==
    /\ conn[p].pc = "join" /\ conn[p].forward = Accepted
    /\ status = 200 => \E f \in received : f.producer = p /\ f.attempt = attempt[p]
    /\ conn' = [conn EXCEPT ![p].forward = status]
    /\ UNCHANGED <<request, attempt, answers, processVars, outbox, topic, wire, upstreamVars>>

\* tokio::join! has both results.
Respond(p) ==
    /\ conn[p].pc = "join" /\ conn[p].enqueue = "done" /\ conn[p].forward # Accepted
    /\ Answer(p, conn[p].forward)
    /\ UNCHANGED <<request, attempt, processVars, outbox, topic, wire, upstreamVars>>

\* TimeoutLayer drops the handler wherever it is.
RequestTimeout(p) ==
    /\ conn[p].pc \in {"body", "join"}
    /\ Answer(p, 408)
    /\ UNCHANGED <<request, attempt, processVars, outbox, topic, wire, upstreamVars>>

\* ... and so does hyper when the producer hangs up.
Disconnect(p) ==
    /\ conn[p].pc \in {"body", "join"}
    /\ Answer(p, Lost)
    /\ UNCHANGED <<request, attempt, processVars, outbox, topic, wire, upstreamVars>>

-----------------------------------------------------------------------------
(* The discovery topic and the upstream (external).                        *)

\* The broker takes a message, or the Kafka client gives up on it; the request it belongs
\* to hears of it if it still waits.
Delivery(m) ==
    /\ outbox' = outbox \ {m}
    /\ topic' \in {topic, topic \cup {m}}
    /\ conn' = IF conn[m.producer].pc = "join" /\ attempt[m.producer] = m.attempt
               THEN [conn EXCEPT ![m.producer].enqueue = "done"] ELSE conn
    /\ UNCHANGED <<request, attempt, answers, processVars, wire, upstreamVars>>

\* The upstream performs one write per idempotency key, whenever the request gets there.
UpstreamReceives(f) ==
    /\ wire' = wire \ {f}
    /\ received' = received \cup {f}
    /\ applied' = IF \E a \in applied : a.key = KeyOf(f) THEN applied
                  ELSE applied \cup {[producer |-> f.producer, key |-> KeyOf(f)]}
    /\ UNCHANGED <<request, taskVars, processVars, outbox, topic>>

Next ==
    \/ Start \/ Shutdown \/ Drain \/ Crash \/ Restart
    \/ \E p \in Producers :
         \/ Post(p) \/ HeadArrives(p) \/ HeaderReadTimeout(p)
         \/ BodyArrives(p) \/ EnqueueTimeout(p) \/ Respond(p)
         \/ RequestTimeout(p) \/ Disconnect(p)
         \/ \E status \in {200, 502, 504} : ForwardEnds(p, status)
    \/ \E m \in outbox : Delivery(m)
    \/ \E f \in wire : UpstreamReceives(f)

\* The timers fire and the drain ends when it can. Nothing is owed by the producers, the
\* upstream or the broker.
Fairness ==
    /\ WF_vars(Drain)
    /\ \A p \in Producers : WF_vars(HeaderReadTimeout(p)) /\ WF_vars(RequestTimeout(p))

Spec == Init /\ [][Next]_vars /\ Fairness

-----------------------------------------------------------------------------
(* Properties.                                                             *)

StatusOf(x) == IF x.attempt \in DOMAIN answers[x.producer] THEN answers[x.producer][x.attempt] ELSE Accepted

Refusals == {400, 401, 413, 422, 431}

\* An attempt the proxy refused has reached neither the upstream nor the discovery topic,
\* and never will: what is sent on before a check would.
RefusedLeavesNoTrace ==
    \A x \in wire \cup received \cup outbox \cup topic : StatusOf(x) \notin Refusals

\* A producer that repeats its own idempotency key has its write performed at most once,
\* however many of its attempts were cut short after they had been sent on.
KeyedWritesApplyOnce ==
    \A p \in Producers : Has(request[p].headers, "idempotency-key") =>
        Cardinality({a \in applied : a.producer = p}) <= 1

\* The upstream sees one tag and it is the proxy's, nothing else of the reserved names, and
\* no credential for the proxy.
UpstreamSeesOurTag ==
    \A f \in wire \cup received :
        /\ Len(f.headers["deblob-schema-id"]) = 1
        /\ Head(f.headers["deblob-schema-id"]) \in [kind : {"known", "provisional", UnresolvedTag},
                                                     shape : {request[f.producer].shape}]
        /\ DOMAIN f.headers \cap Reserved = {"deblob-schema-id", "deblob-origin"}
        /\ IngestToken \notin Range(Values(f.headers, "authorization"))

\* Evidence is the forwarded body of an unknown shape, at most once for each attempt, and
\* no two messages of one process share a cursor, although requests overlap and a message
\* may arrive long after its request was answered.
EvidenceIsOfARequest ==
    LET messages == outbox \cup topic
    IN /\ \A m \in messages :
            /\ m.ref.kind = "provisional"
            /\ \E f \in wire \cup received : f.producer = m.producer /\ f.attempt = m.attempt
       /\ \A m, n \in messages : m # n =>
            /\ <<m.producer, m.attempt>> # <<n.producer, n.attempt>>
            /\ <<m.life, m.offset>> # <<n.life, n.offset>>

\* Whatever reached the upstream or the discovery topic is of a request the proxy
\* admitted, as the proxy rewrote it.
TracesAreOfARequest == RefusedLeavesNoTrace /\ UpstreamSeesOurTag /\ EvidenceIsOfARequest

\* A shutdown ends: no producer, upstream or broker holds the drain up.
ShutdownEnds == listener = "draining" ~> listener = "stopped"
=============================================================================
