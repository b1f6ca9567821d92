------------------------- MODULE UpstreamHandshake -------------------------
(***************************************************************************)
(* One request sent through the upstream proxy, until the gateway grants   *)
(* it or it fails: an authenticated CONNECT (upstream/connect.rs, with a   *)
(* pooled socket if there is one) or a forwarded plain-HTTP request        *)
(* (forward_via_upstream, upstream.rs).  The gateway is the environment:   *)
(* it answers any status and any offer, closes whenever it likes, or       *)
(* stays silent.                                                           *)
(***************************************************************************)
EXTENDS UpstreamAuth

CONSTANT MaxLegs   \* MAX_LEGS of upstream.rs: requests on one socket

\* MAX_LEGS = 12 leaves room for DEFAULT_MAX_LEGS = 10 tokens and the request
\* without one that comes first.
ASSUME MaxLegsAssumption == MaxLegs \in Nat /\ MaxLegs > MaxTokens + 1

VARIABLES
    kind,      \* "connect" or "forward"
    mode,      \* UpstreamAuth: how this upstream authenticates
    pc,        \* where the request is
    reused,    \* the socket in use came from the pool
    leg,       \* the handshake loop's counter, from 0
    auth,      \* the AuthState of the socket in use
    header,    \* the Proxy-Authorization of the leg
    status,    \* the status of the response being read
    offer,     \* what its Proxy-Authenticate headers offer
    sockets,   \* history: sockets used so far
    answered,  \* history: sockets on which a response byte arrived
    keywords,  \* history: keywords sent with a token on the socket in use
    refused    \* history: the gateway refused credentials this request sent

vars == <<kind, mode, pc, reused, leg, auth, header, status, offer,
          sockets, answered, keywords, refused>>
socketVars == <<kind, mode, reused, sockets>>
history == <<answered, keywords, refused>>

Status == {"200", "407", "other"}
Done == {"granted", "failed", "exhausted"}
State == {"begin", "dial", "send", "peek", "head", "drain", "answer"} \cup Done

NoOffer == [scheme |-> NoScheme, token |-> FALSE, others |-> FALSE]

-----------------------------------------------------------------------------
\* Start a handshake on a socket, pooled or not: a new AuthState and its
\* initial header.
Start(pooled) ==
    /\ pc' = "send"
    /\ reused' = pooled
    /\ leg' = 0
    /\ auth' = AfterInitial(mode)
    /\ header' = InitialHeader(mode)
    /\ sockets' = sockets + 1
    /\ keywords' = {}
    /\ UNCHANGED <<kind, mode, status, offer, answered, refused>>

\* `connect`: the pool had a usable socket.
TakePooled ==
    /\ pc = "begin" /\ kind = "connect"
    /\ Start(TRUE)

\* No pool, or nothing usable in it; a forwarded request never uses one.
TakeNothing ==
    /\ pc = "begin"
    /\ pc' = "dial"
    /\ UNCHANGED <<socketVars, leg, auth, header, status, offer, history>>

\* TcpStream::connect succeeds.
DialOk ==
    /\ pc = "dial"
    /\ Start(FALSE)

\* The request is over without a grant.
Fail ==
    /\ pc' = "failed"
    /\ UNCHANGED <<socketVars, leg, auth, header, status, offer, history>>

DialErr ==
    /\ pc = "dial"
    /\ Fail

\* Mutant: any leg of a reused socket may fall back to a fresh dial.
AnyLegReused == reused

\* first_reused of `handshake`: the only leg whose transport failure is Stale.
FirstReused == reused /\ leg = 0

\* `transport`: a failed write, or a close before any response byte.
TransportFailure ==
    /\ pc' = IF FirstReused THEN "dial" ELSE "failed"
    /\ UNCHANGED <<socketVars, leg, auth, header, status, offer, history>>

\* send_leg writes the request with the leg's Proxy-Authorization.
Send ==
    /\ pc = "send"
    /\ pc' = IF FirstReused THEN "peek" ELSE "head"
    /\ keywords' = IF header.token > 0 THEN keywords \cup {header.scheme} ELSE keywords
    /\ UNCHANGED <<socketVars, leg, auth, header, status, offer, answered, refused>>

SendErr ==
    /\ pc = "send"
    /\ TransportFailure

\* await_response: the first byte is there, or the gateway closed first.
Peek ==
    /\ pc = "peek"
    /\ pc' = "head"
    /\ answered' = answered \cup {sockets}
    /\ UNCHANGED <<socketVars, leg, auth, header, status, offer, keywords, refused>>

PeekErr ==
    /\ pc = "peek"
    /\ TransportFailure

\* The gateway refuses what the leg carried: a 407 in answer to the Basic
\* credential, or one with no token to go on with in answer to a token.
Refuses(s, o) ==
    s = "407" /\ (header = BasicHeader \/ (header.token > 0 /\ ~o.token))

\* read_head: a complete response head.  A CONNECT is granted by a 200, a
\* forwarded request by anything but a 407.
ReadHead ==
    /\ pc = "head"
    /\ \E s \in Status, o \in Offer :
         /\ IsOffer(o)
         /\ s # "407" => o = NoOffer
         /\ status' = s
         /\ offer' = o
         /\ pc' = IF s = "200" \/ (kind = "forward" /\ s # "407") THEN "granted" ELSE "drain"
         /\ refused' = (refused \/ Refuses(s, o))
    /\ answered' = answered \cup {sockets}
    /\ UNCHANGED <<socketVars, leg, auth, header, keywords>>

\* The head is cut short, or longer than MAX_HEAD_BYTES.
ReadHeadErr ==
    /\ pc = "head"
    /\ Fail

\* drain_body / drain_challenge, and the end of a CONNECT that was refused.
Drain ==
    /\ pc = "drain"
    /\ pc' = IF status = "407" THEN "answer" ELSE "failed"
    /\ UNCHANGED <<socketVars, leg, auth, header, status, offer, history>>

\* The body is cut short, malformed, or longer than MAX_DRAIN_BYTES.
DrainErr ==
    /\ pc = "drain"
    /\ Fail

\* on_challenge gives the next leg's header; the loop ends after MAX_LEGS.
Answer ==
    /\ pc = "answer"
    /\ \E a \in OnChallenge(auth, offer) :
         /\ auth' = a.auth
         /\ header' = a.header
    /\ leg' = leg + 1
    /\ pc' = IF leg + 1 < MaxLegs THEN "send" ELSE "exhausted"
    /\ UNCHANGED <<socketVars, status, offer, history>>

\* on_challenge fails: it has no answer, or SSPI does.
AnswerErr ==
    /\ pc = "answer"
    /\ OnChallenge(auth, offer) = {} \/ mode = "negotiate"
    /\ Fail

\* Mutant: the timeout starts once a socket is there.
TimeoutAfterDial ==
    /\ kind = "connect" /\ pc \notin Done \cup {"dial"}
    /\ Fail

\* HANDSHAKE_TIMEOUT covers a whole CONNECT, the dial and the retry included;
\* a forwarded request has no time limit.
Timeout ==
    /\ kind = "connect" /\ pc \notin Done
    /\ Fail

-----------------------------------------------------------------------------
Init ==
    /\ kind \in {"connect", "forward"}
    /\ mode \in AuthMode
    /\ pc = "begin"
    /\ reused = FALSE
    /\ leg = 0
    /\ auth = NewAuth(mode)
    /\ header = NoHeader
    /\ status = "other"
    /\ offer = NoOffer
    /\ sockets = 0
    /\ answered = {}
    /\ keywords = {}
    /\ refused = FALSE

Next ==
    \/ TakePooled \/ TakeNothing \/ DialOk \/ DialErr
    \/ Send \/ SendErr \/ Peek \/ PeekErr
    \/ ReadHead \/ ReadHeadErr \/ Drain \/ DrainErr
    \/ Answer \/ AnswerErr \/ Timeout

Spec == Init /\ [][Next]_vars

\* Only the timer is certain to fire: the gateway may stay silent for ever.
FairSpec == Spec /\ WF_vars(Timeout)

-----------------------------------------------------------------------------
\* Every variable keeps its type, and a request uses at most two sockets.
TypeOK ==
    /\ kind \in {"connect", "forward"}
    /\ mode \in AuthMode
    /\ pc \in State
    /\ reused \in BOOLEAN
    /\ leg \in 0..MaxLegs
    /\ auth \in AuthStates
    /\ header \in Header
    /\ status \in Status
    /\ offer \in Offer
    /\ sockets \in 0..2
    /\ answered \subseteq 1..2
    /\ keywords \subseteq Keyword \cup {"Basic", NoScheme}
    /\ refused \in BOOLEAN

\* A second socket is dialed only if the first gave no answer at all: a request
\* is never repeated after the upstream has refused, granted or even begun to
\* answer it (Failure::Stale's comment, connect.rs 54-59).
NoRetryAfterAnswer == sockets = 2 => 1 \notin answered

\* Refused credentials are not sent again: once the gateway has answered the
\* Basic credential with a 407, or a token with a 407 that has none, nothing
\* more is sent (on_challenge's comment, auth.rs 72-75).
NothingSentAfterRefusal == refused => pc \in {"drain", "answer", "failed"}

\* A socket carries one handshake: all tokens sent on it have the same keyword,
\* learned once (AuthState::Negotiate's comment, auth.rs 36-39), its first
\* request has no token, and the n-th one after it has the n-th token of a
\* security context that was made for this socket.
OneHandshakePerSocket ==
    /\ \A k, l \in keywords : k = l
    /\ pc \in {"send", "peek", "head", "drain", "answer"} /\ mode = "negotiate"
         => header.token = leg /\ auth.legs = leg

\* The handshake loop never runs out of legs: the driver gives up first, so the
\* error it would return ("upstream handshake exhausted legs") cannot happen.
NeverExhausted == pc # "exhausted"

\* Every CONNECT is granted or refused in the end, however the gateway behaves.
ConnectEnds == kind = "connect" ~> pc \in Done
=============================================================================
