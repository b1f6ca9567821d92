---------------------------- MODULE UpstreamAuth ----------------------------
(***************************************************************************)
(* The per-connection upstream authentication driver: AuthState of         *)
(* zicade-proxy/src/upstream/auth.rs over the NegotiateHandshake of        *)
(* zicade-auth/src/handshake.rs.  Pure operators; UpstreamHandshake runs   *)
(* them against a gateway.                                                 *)
(*                                                                         *)
(* A token is the number of the SSPI step that produced it.  `done` of     *)
(* NegotiateHandshake is left out: it is set by a response other than 407, *)
(* after which neither handshake loop calls the driver again.              *)
(***************************************************************************)
EXTENDS Naturals

CONSTANT MaxTokens   \* NegotiateHandshake's DEFAULT_MAX_LEGS

ASSUME MaxTokensAssumption == MaxTokens \in Nat

AuthMode == {"none", "basic", "negotiate"}
Keyword == {"Negotiate", "NTLM"}
NoScheme == "-"

\* A Proxy-Authorization value: a keyword with a token, or the Basic credential.
Header == [scheme : Keyword \cup {"Basic", NoScheme}, token : Nat]
NoHeader == [scheme |-> NoScheme, token |-> 0]
BasicHeader == [scheme |-> "Basic", token |-> 0]

\* What a 407 offers: the first Negotiate/NTLM challenge and whether it carries
\* a token, and whether other schemes are offered.
Offer == [scheme : Keyword \cup {NoScheme}, token : BOOLEAN, others : BOOLEAN]

\* An offer as negotiate_offer and parse_proxy_authenticate deliver it: only a
\* Negotiate/NTLM challenge has a token (a malformed one counts as none).
IsOffer(offer) == offer \in Offer /\ (offer.token => offer.scheme # NoScheme)

AuthStates == [mode : AuthMode, sent : BOOLEAN, scheme : Keyword \cup {NoScheme},
               legs : Nat, started : BOOLEAN]

\* AuthState::new, for one connection to the upstream.
NewAuth(mode) ==
    [mode |-> mode, sent |-> FALSE, scheme |-> NoScheme, legs |-> 0, started |-> FALSE]

\* initial_header: only Basic speaks first, and remembers that it did.
InitialHeader(mode) == IF mode = "basic" THEN BasicHeader ELSE NoHeader
AfterInitial(mode) == [NewAuth(mode) EXCEPT !.sent = (mode = "basic")]

\* first_leg_scheme: the keyword offered; Negotiate if nothing at all is
\* offered; no answer if only other schemes are.
FirstLegScheme(offer) ==
    IF offer.scheme # NoScheme THEN {offer.scheme}
    ELSE IF offer.others THEN {} ELSE {"Negotiate"}

\* Mutant: the keyword of the latest 407 is used.
LatestScheme(auth, offer) == FirstLegScheme(offer)

\* The keyword of a leg: the learned one, or the first leg's.
LegScheme(auth, offer) ==
    IF auth.scheme # NoScheme THEN {auth.scheme} ELSE FirstLegScheme(offer)

\* Mutant: a 407 without a token restarts the handshake.
AdvanceAfterRefusal(auth, offer) == auth.legs < MaxTokens

\* Mutant: no limit on the tokens of one handshake.
AdvanceForEver(auth, offer) == auth.started => offer.token

\* NegotiateHandshake::advance: a 407 without a token after one was sent is a
\* refusal, and the number of tokens is limited.
CanAdvance(auth, offer) ==
    /\ auth.started => offer.token
    /\ auth.legs < MaxTokens

\* negotiate_leg, as the set of its answers; the SSPI step may still fail.
NegotiateLeg(auth, offer) ==
    IF CanAdvance(auth, offer)
    THEN {[auth |-> [auth EXCEPT !.scheme = k, !.legs = @ + 1, !.started = TRUE],
           header |-> [scheme |-> k, token |-> auth.legs + 1]] : k \in LegScheme(auth, offer)}
    ELSE {}

\* Mutant: Basic answers every 407.
BasicAlways(auth) == {[auth |-> [auth EXCEPT !.sent = TRUE], header |-> BasicHeader]}

\* Basic answers a 407 only if the credential was not sent yet.
BasicLeg(auth) ==
    IF auth.sent THEN {}
    ELSE {[auth |-> [auth EXCEPT !.sent = TRUE], header |-> BasicHeader]}

\* on_challenge: the answers to a 407; none is an error.
OnChallenge(auth, offer) ==
    CASE auth.mode = "none" -> {}
      [] auth.mode = "basic" -> BasicLeg(auth)
      [] auth.mode = "negotiate" -> NegotiateLeg(auth, offer)
=============================================================================
