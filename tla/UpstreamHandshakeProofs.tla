---------------------- MODULE UpstreamHandshakeProofs ----------------------
(***************************************************************************)
(* The safety properties of UpstreamHandshake for every limit on tokens    *)
(* and legs that MaxLegsAssumption allows, hence for 10 and 12.            *)
(***************************************************************************)
EXTENDS UpstreamHandshake, TLAPS

\* A socket is in use.
Active == pc \in {"send", "peek", "head", "drain", "answer"}

\* The types, but for the counters.
Shape ==
    /\ kind \in {"connect", "forward"}
    /\ mode \in AuthMode
    /\ pc \in State
    /\ reused \in BOOLEAN
    /\ auth \in AuthStates
    /\ header \in Header
    /\ status \in Status
    /\ offer \in Offer
    /\ keywords \subseteq Keyword \cup {"Basic", NoScheme}
    /\ refused \in BOOLEAN
    /\ leg \in Nat

\* Which sockets were used and answered: a second one only follows a pooled one
\* that never answered.
Sockets ==
    /\ sockets \in 0..2
    /\ answered \subseteq 1..sockets
    /\ pc = "begin" => sockets = 0
    /\ pc = "dial" => sockets <= 1 /\ answered = {}
    /\ Active => sockets >= 1 /\ (reused => sockets = 1)
    /\ pc \in {"send", "peek"} /\ reused /\ leg = 0 => answered = {}
    /\ 1 \in answered => sockets = 1

\* The driver of the socket in use, by mode.  Negotiate counts its tokens along
\* with the loop's legs; the other modes never get past their first request.
Driver ==
    Active =>
        /\ auth.mode = mode
        /\ mode = "negotiate" =>
              /\ header.token = leg /\ auth.legs = leg /\ leg <= MaxTokens
              /\ auth.started <=> leg > 0
              /\ leg = 0 => header = NoHeader
              /\ leg > 0 => auth.scheme # NoScheme /\ header.scheme = auth.scheme
              /\ leg = 0 => auth.scheme = NoScheme
        /\ mode = "basic" => auth.sent /\ leg = 0 /\ header = BasicHeader
        /\ mode = "none" => leg = 0 /\ header = NoHeader

\* The keywords sent so far are the learned one.
Learned ==
    /\ \A k, l \in keywords : k = l
    /\ Active => \A k \in keywords : k = auth.scheme /\ k # NoScheme

\* After a refusal the driver has no answer.
RefusalIsFinal ==
    refused =>
        /\ pc \in {"drain", "answer", "failed"}
        /\ pc # "failed" => /\ status = "407"
                            /\ \/ mode = "basic"
                               \/ mode = "negotiate" /\ leg > 0 /\ ~offer.token

IInv ==
    /\ Shape /\ Sockets /\ Driver /\ Learned /\ RefusalIsFinal
    /\ leg <= MaxTokens /\ NeverExhausted

-----------------------------------------------------------------------------
\* Every answer of the driver, where the invariant says it is called.
LEMMA AnswerForm ==
    ASSUME IInv, pc = "answer", NEW a \in OnChallenge(auth, offer)
    PROVE  /\ mode = "negotiate"
           /\ leg < MaxTokens
           /\ ~refused
           /\ \E k \in Keyword :
                 /\ leg > 0 => k = auth.scheme
                 /\ a = [auth |-> [auth EXCEPT !.scheme = k, !.legs = leg + 1, !.started = TRUE],
                         header |-> [scheme |-> k, token |-> leg + 1]]
<1> USE DEF IInv, Driver, Active
<1>1. mode \in AuthMode /\ auth.mode = mode
  BY DEF Shape
<1>2. mode = "negotiate"
  BY <1>1 DEF OnChallenge, BasicLeg, AuthMode
<1>3. a \in NegotiateLeg(auth, offer)
  BY <1>1, <1>2 DEF OnChallenge
<1>4. CanAdvance(auth, offer)
  BY <1>3 DEF NegotiateLeg
<1>5. leg < MaxTokens /\ ~refused
  BY <1>2, <1>4 DEF CanAdvance, RefusalIsFinal
<1>6. PICK k \in LegScheme(auth, offer) :
         a = [auth |-> [auth EXCEPT !.scheme = k, !.legs = @ + 1, !.started = TRUE],
              header |-> [scheme |-> k, token |-> auth.legs + 1]]
  BY <1>3, <1>4 DEF NegotiateLeg
<1>7. k \in Keyword /\ (leg > 0 => k = auth.scheme)
  BY <1>2, <1>6 DEF LegScheme, FirstLegScheme, Shape, Offer, AuthStates, Keyword, NoScheme
<1>8. QED
  BY <1>2, <1>5, <1>6, <1>7

LEMMA InitInv == Init => IInv
<1> SUFFICES ASSUME Init PROVE IInv
  OBVIOUS
<1> USE DEF Init
<1>1. Shape
  BY DEF Shape, State, Status, AuthStates, NewAuth, AuthMode, Header, NoHeader, Offer, NoOffer,
         NoScheme
<1>2. Sockets /\ Driver /\ Learned /\ RefusalIsFinal
  BY DEF Sockets, Driver, Learned, RefusalIsFinal, Active
<1>3. leg <= MaxTokens /\ NeverExhausted
  BY MaxTokensAssumption DEF NeverExhausted
<1>4. QED
  BY <1>1, <1>2, <1>3 DEF IInv

\* Starting on a socket establishes what the invariant says of it.
LEMMA StartInv ==
    ASSUME IInv, NEW pooled \in BOOLEAN, Start(pooled), pc \in {"begin", "dial"},
           sockets <= 1, answered = {}, pooled => sockets = 0
    PROVE  IInv'
<1> USE DEF IInv
<1>0. ~refused
  BY DEF RefusalIsFinal
<1>1. Shape'
  BY DEF Start, Shape, State, AuthStates, AfterInitial, NewAuth, InitialHeader, Header, NoHeader,
         BasicHeader, NoScheme, AuthMode
<1>2. Sockets'
  BY DEF Start, Sockets, Active
<1>3. Driver'
  <2>1. leg' = 0 /\ mode' = mode /\ auth'.mode = mode
    BY DEF Start, AfterInitial, NewAuth
  <2>2. CASE mode = "negotiate"
    <3>1. header' = NoHeader /\ auth'.legs = 0 /\ ~auth'.started /\ auth'.scheme = NoScheme
      BY <2>2 DEF Start, InitialHeader, AfterInitial, NewAuth
    <3>2. QED
      BY <2>1, <2>2, <3>1, MaxTokensAssumption DEF Driver, NoHeader
  <2>3. CASE mode = "basic"
    <3>1. header' = BasicHeader /\ auth'.sent
      BY <2>3 DEF Start, InitialHeader, AfterInitial, NewAuth
    <3>2. QED
      BY <2>1, <2>3, <3>1 DEF Driver
  <2>4. CASE mode = "none"
    <3>1. header' = NoHeader
      BY <2>4 DEF Start, InitialHeader
    <3>2. QED
      BY <2>1, <2>4, <3>1 DEF Driver
  <2>5. QED
    BY <2>2, <2>3, <2>4 DEF Shape, AuthMode
<1>4. Learned' /\ RefusalIsFinal' /\ NeverExhausted' /\ leg' <= MaxTokens
  BY <1>0, MaxTokensAssumption DEF Start, Learned, RefusalIsFinal, NeverExhausted
<1>5. QED
  BY <1>1, <1>2, <1>3, <1>4

\* A step that only moves on, to the dial (of a socket that never answered), to
\* the next stage on the same socket, or to the end.
LEMMA MoveInv ==
    ASSUME IInv, UNCHANGED <<socketVars, leg, auth, header, status, offer, history>>,
           \/ pc' = "failed"
           \/ pc' = "dial" /\ (pc = "begin" \/ (pc \in {"send", "peek"} /\ FirstReused))
           \/ pc = "drain" /\ pc' = "answer" /\ status = "407"
    PROVE  IInv'
<1> USE DEF IInv, socketVars, history
<1>1. Shape'
  BY DEF Shape, State, Done
<1>2. Sockets'
  BY DEF Sockets, Active, FirstReused
<1>3. Driver' /\ Learned' /\ RefusalIsFinal' /\ NeverExhausted'
  BY DEF Driver, Learned, RefusalIsFinal, NeverExhausted, Active
<1>4. QED
  BY <1>1, <1>2, <1>3

LEMMA NextInv == IInv /\ [Next]_vars => IInv'
<1> SUFFICES ASSUME IInv, [Next]_vars PROVE IInv'
  OBVIOUS
<1>1. CASE TakePooled
  <2>1. sockets = 0 /\ sockets <= 1 /\ answered = {} /\ pc \in {"begin", "dial"}
    BY <1>1 DEF TakePooled, IInv, Sockets
  <2>2. QED
    BY <1>1, <2>1, StartInv, Zenon DEF TakePooled
<1>2. CASE DialOk
  BY <1>2, StartInv DEF DialOk, IInv, Sockets
<1>3. CASE \/ TakeNothing \/ DialErr \/ SendErr \/ PeekErr \/ ReadHeadErr \/ Drain \/ DrainErr
           \/ AnswerErr \/ Timeout
  BY <1>3, MoveInv
     DEF TakeNothing, DialErr, SendErr, PeekErr, ReadHeadErr, Drain, DrainErr, AnswerErr, Timeout,
         Fail, TransportFailure
<1>4. CASE Send
  <2> USE DEF Send, IInv, socketVars
  <2>1. Shape'
    BY <1>4 DEF Shape, State, Header
  <2>2. Sockets' /\ Driver'
    BY <1>4 DEF Sockets, Driver, Active, FirstReused
  <2>3. Learned'
    BY <1>4 DEF Learned, Driver, Active, Shape, AuthMode, NoHeader, BasicHeader
  <2>4. RefusalIsFinal' /\ NeverExhausted'
    BY <1>4 DEF RefusalIsFinal, NeverExhausted
  <2>5. QED
    BY <1>4, <2>1, <2>2, <2>3, <2>4
<1>5. CASE Peek
  <2> USE DEF Peek, IInv, socketVars
  <2>1. Shape' /\ Driver' /\ Learned' /\ RefusalIsFinal' /\ NeverExhausted'
    BY <1>5 DEF Shape, State, Driver, Learned, RefusalIsFinal, NeverExhausted, Active
  <2>2. Sockets'
    BY <1>5 DEF Sockets, Active
  <2>3. QED
    BY <1>5, <2>1, <2>2
<1>6. CASE ReadHead
  <2> USE DEF IInv, socketVars
  <2>1. PICK s \in Status, o \in Offer :
           /\ IsOffer(o)
           /\ status' = s /\ offer' = o
           /\ pc' = IF s = "200" \/ (kind = "forward" /\ s # "407") THEN "granted" ELSE "drain"
           /\ refused' = (refused \/ Refuses(s, o))
    BY <1>6 DEF ReadHead
  <2>2. ~refused /\ pc = "head"
    BY <1>6 DEF ReadHead, RefusalIsFinal
  <2>3. refused' \in BOOLEAN
    BY <2>1, <2>2, Zenon DEF Refuses
  <2>4. Shape'
    BY <1>6, <2>1, <2>3 DEF ReadHead, Shape, State, Done
  <2>5. Sockets'
    BY <1>6, <2>1 DEF ReadHead, Sockets, Active
  <2>6. Driver' /\ Learned' /\ NeverExhausted'
    BY <1>6, <2>1 DEF ReadHead, Driver, Learned, NeverExhausted, Active
  <2>7. RefusalIsFinal'
    <3>1. SUFFICES ASSUME Refuses(s, o) PROVE RefusalIsFinal'
      BY <2>1, <2>2 DEF RefusalIsFinal
    <3>2. pc' = "drain" /\ status' = "407" /\ offer' = o /\ mode' = mode /\ leg' = leg
      BY <1>6, <2>1, <3>1 DEF ReadHead, Refuses
    <3>3. CASE mode = "basic"
      BY <3>2, <3>3 DEF RefusalIsFinal
    <3>4. CASE mode = "negotiate"
      <4>1. header.token = leg /\ leg \in Nat /\ header.scheme \in Keyword \cup {NoScheme}
        BY <2>2, <3>4 DEF Driver, Active, Shape, AuthStates, NoHeader
      <4>2. leg > 0 /\ ~o.token
        BY <3>1, <4>1 DEF Refuses, BasicHeader, Keyword, NoScheme
      <4>3. QED
        BY <3>2, <3>4, <4>2 DEF RefusalIsFinal
    <3>5. CASE mode = "none"
      <4>1. header = NoHeader
        BY <2>2, <3>5 DEF Driver, Active
      <4>2. QED
        BY <3>1, <4>1 DEF Refuses, NoHeader, BasicHeader, NoScheme
    <3>6. QED
      BY <3>3, <3>4, <3>5 DEF Shape, AuthMode
  <2>8. QED
    BY <1>6, <2>4, <2>5, <2>6, <2>7 DEF ReadHead
<1>7. CASE Answer
  <2> USE DEF IInv, socketVars, history
  <2>1. PICK a \in OnChallenge(auth, offer) : auth' = a.auth /\ header' = a.header
    BY <1>7 DEF Answer
  <2>2. PICK k \in Keyword :
           /\ leg > 0 => k = auth.scheme
           /\ a = [auth |-> [auth EXCEPT !.scheme = k, !.legs = leg + 1, !.started = TRUE],
                   header |-> [scheme |-> k, token |-> leg + 1]]
    BY <1>7, AnswerForm DEF Answer
  <2>3. mode = "negotiate" /\ leg < MaxTokens /\ ~refused
    BY <1>7, <2>1, AnswerForm DEF Answer
  <2>4. leg' = leg + 1 /\ pc' = "send" /\ leg' <= MaxTokens
    BY <1>7, <2>3, MaxLegsAssumption, MaxTokensAssumption DEF Answer, Shape
  <2>5. /\ auth' = [mode |-> auth.mode, sent |-> auth.sent, scheme |-> k,
                   legs |-> leg + 1, started |-> TRUE]
        /\ header' = [scheme |-> k, token |-> leg + 1]
    BY <2>1, <2>2 DEF Shape, AuthStates
  <2>6. Shape'
    <3>1. auth' \in AuthStates /\ header' \in Header
      BY <2>5 DEF Shape, AuthStates, Header
    <3>2. QED
      BY <1>7, <2>4, <3>1 DEF Answer, Shape, State
  <2>7. Sockets' /\ RefusalIsFinal' /\ NeverExhausted'
    BY <1>7, <2>3, <2>4 DEF Answer, Sockets, Active, RefusalIsFinal, NeverExhausted, Shape
  <2>8. Driver'
    <3>1. auth.mode = mode /\ mode' = mode /\ leg \in Nat
      BY <1>7 DEF Answer, Driver, Active, Shape
    <3>2. k # NoScheme
      BY DEF Keyword, NoScheme
    <3>3. QED
      BY <2>3, <2>4, <2>5, <3>1, <3>2 DEF Driver
  <2>9. Learned'
    <3>1. keywords' = keywords /\ auth'.scheme = k /\ k # NoScheme
      BY <1>7, <2>5 DEF Answer, Keyword, NoScheme
    <3>2. \A l \in keywords : l = k
      <4>1. CASE leg > 0
        BY <1>7, <2>2, <4>1 DEF Answer, Learned, Active
      <4>2. CASE leg = 0
        BY <1>7, <2>3, <4>2 DEF Answer, Learned, Driver, Active
      <4>3. QED
        BY <4>1, <4>2 DEF Shape
    <3>3. QED
      BY <3>1, <3>2 DEF Learned
  <2>10. QED
    BY <2>4, <2>6, <2>7, <2>8, <2>9
<1>8. CASE UNCHANGED vars
  BY <1>8 DEF vars, IInv, Shape, Sockets, Driver, Learned, RefusalIsFinal, NeverExhausted, Active
<1>9. QED
  BY <1>1, <1>2, <1>3, <1>4, <1>5, <1>6, <1>7, <1>8 DEF Next

LEMMA SpecInv == Spec => []IInv
<1>1. QED
  BY InitInv, NextInv, PTL DEF Spec

-----------------------------------------------------------------------------
\* The types; in particular a request uses at most two sockets.
THEOREM TypeCorrect == Spec => []TypeOK
<1>1. IInv => TypeOK
  BY MaxTokensAssumption, MaxLegsAssumption DEF IInv, Shape, Sockets, TypeOK
<1>2. QED
  BY <1>1, SpecInv, PTL

\* A request is never repeated on a second socket after an answer.
THEOREM NoRetryAfterAnswerHolds == Spec => []NoRetryAfterAnswer
<1>1. IInv => NoRetryAfterAnswer
  BY DEF IInv, Sockets, NoRetryAfterAnswer
<1>2. QED
  BY <1>1, SpecInv, PTL

\* Refused credentials are never sent again, whatever the limits.
THEOREM NothingSentAfterRefusalHolds == Spec => []NothingSentAfterRefusal
<1>1. IInv => NothingSentAfterRefusal
  BY DEF IInv, RefusalIsFinal, NothingSentAfterRefusal
<1>2. QED
  BY <1>1, SpecInv, PTL

\* All tokens on one socket carry the keyword learned first, and the n-th one is
\* the socket's n-th.
THEOREM OneHandshakePerSocketHolds == Spec => []OneHandshakePerSocket
<1>1. IInv => OneHandshakePerSocket
  <2>1. IInv => \A k, l \in keywords : k = l
    BY DEF IInv, Learned
  <2>2. IInv /\ Active /\ mode = "negotiate" => header.token = leg /\ auth.legs = leg
    BY DEF IInv, Driver
  <2>3. QED
    BY <2>1, <2>2 DEF OneHandshakePerSocket, Active
<1>2. QED
  BY <1>1, SpecInv, PTL

\* The driver's limit is always met before the loop's.
THEOREM NeverExhaustedHolds == Spec => []NeverExhausted
<1>1. IInv => NeverExhausted
  BY DEF IInv
<1>2. QED
  BY <1>1, SpecInv, PTL

-----------------------------------------------------------------------------
\* How many steps a request may still take: a conversation of at most MaxLegs
\* legs, and before it a dial, a pooled socket that may be stale, or both.
PerLeg == 7
Whole == PerLeg * MaxLegs + PerLeg
InLeg == [send |-> 6, peek |-> 5, head |-> 4, drain |-> 3, answer |-> 2]
Conversation == PerLeg * (MaxLegs - leg) + InLeg[pc]
StepsLeft ==
    IF pc = "begin" THEN 2 * Whole + 2
    ELSE IF pc = "dial" THEN Whole + 1
    ELSE IF pc \in Done THEN 0
    ELSE Conversation + (IF reused THEN Whole + 1 ELSE 0)

\* A conversation has no more steps than the whole of one.
LEMMA ConversationBound ==
    ASSUME NEW n \in Nat, n < MaxLegs, NEW k \in 2..6
    PROVE  /\ PerLeg * (MaxLegs - n) + k \in Nat
           /\ PerLeg * (MaxLegs - n) + k > 1
           /\ PerLeg * (MaxLegs - n) + k < Whole
BY MaxLegsAssumption DEF PerLeg, Whole

\* Every step uses up one at least, whatever the gateway answers.
LEMMA StepsLeftFall ==
    ASSUME IInv, IInv', Next
    PROVE  StepsLeft \in Nat /\ StepsLeft' \in Nat /\ StepsLeft' < StepsLeft
<1> USE MaxLegsAssumption, MaxTokensAssumption DEF PerLeg, Whole
<1>1. /\ leg \in Nat /\ leg < MaxLegs /\ pc \in State /\ reused \in BOOLEAN
      /\ leg' \in Nat /\ leg' < MaxLegs /\ pc' \in State /\ reused' \in BOOLEAN
      /\ Whole \in Nat /\ MaxLegs \in Nat
  BY DEF IInv, Shape
<1>2. ASSUME Active
      PROVE  /\ Conversation \in Nat /\ Conversation > 1 /\ Conversation < Whole
             /\ StepsLeft = Conversation + (IF reused THEN Whole + 1 ELSE 0)
  <2>1. PICK k \in 2..6 : Conversation = PerLeg * (MaxLegs - leg) + k
    BY <1>1, <1>2 DEF Active, Conversation, InLeg
  <2>2. Conversation \in Nat /\ Conversation > 1 /\ Conversation < Whole
    BY <1>1, <2>1, ConversationBound
  <2>3. pc \notin Done \cup {"begin", "dial"}
    BY <1>2 DEF Active, Done
  <2>4. QED
    BY <1>1, <1>2, <2>2, <2>3 DEF StepsLeft
<1>3. ASSUME Active'
      PROVE  /\ Conversation' \in Nat /\ Conversation' > 1 /\ Conversation' < Whole
             /\ StepsLeft' = Conversation' + (IF reused' THEN Whole + 1 ELSE 0)
  <2>1. PICK k \in 2..6 : Conversation' = PerLeg * (MaxLegs - leg') + k
    BY <1>1, <1>3 DEF Active, Conversation, InLeg
  <2>2. Conversation' \in Nat /\ Conversation' > 1 /\ Conversation' < Whole
    BY <1>1, <2>1, ConversationBound
  <2>3. pc' \notin Done \cup {"begin", "dial"}
    BY <1>3 DEF Active, Done
  <2>4. QED
    BY <1>1, <1>3, <2>2, <2>3 DEF StepsLeft
<1>4. /\ pc = "begin" => StepsLeft = 2 * Whole + 2
      /\ pc = "dial" => StepsLeft = Whole + 1
      /\ pc \in Done => StepsLeft = 0
      /\ pc' = "dial" => StepsLeft' = Whole + 1
      /\ pc' \in Done => StepsLeft' = 0
  BY <1>1 DEF StepsLeft, Done
<1>5. CASE TakePooled \/ DialOk
  <2>1. Active' /\ (pc = "begin" \/ (pc = "dial" /\ ~reused'))
    BY <1>5 DEF TakePooled, DialOk, Start, Active
  <2>2. QED
    BY <1>1, <1>3, <1>4, <2>1
<1>6. CASE TakeNothing
  BY <1>1, <1>4, <1>6 DEF TakeNothing
<1>7. CASE DialErr \/ ReadHeadErr \/ DrainErr \/ AnswerErr \/ Timeout
  <2>1. pc' \in Done /\ pc \notin Done
    BY <1>7 DEF DialErr, ReadHeadErr, DrainErr, AnswerErr, Timeout, Fail, Done
  <2>2. QED
    BY <1>1, <1>2, <1>4, <2>1 DEF State, Active
<1>8. CASE SendErr \/ PeekErr
  <2>1. Active /\ (pc' = "failed" \/ (pc' = "dial" /\ reused))
    BY <1>8 DEF SendErr, PeekErr, TransportFailure, FirstReused, Active
  <2>2. QED
    BY <1>1, <1>2, <1>4, <2>1 DEF Done
<1>9. CASE Send \/ Peek \/ ReadHead \/ Drain
  <2>1. Active /\ (pc' \in Done \/ (Active' /\ leg' = leg /\ reused' = reused))
    BY <1>9 DEF Send, Peek, ReadHead, Drain, Active, Done, socketVars
  <2>2. Active' => Conversation' < Conversation
    BY <1>1, <1>9, <2>1
       DEF Send, Peek, ReadHead, Drain, Active, Conversation, InLeg, Done, socketVars
  <2>3. QED
    BY <1>1, <1>2, <1>3, <1>4, <2>1, <2>2
<1>10. CASE Answer
  <2>1. Active /\ leg' = leg + 1 /\ reused' = reused /\ pc = "answer" /\ pc' = "send"
    BY <1>1, <1>10 DEF Answer, Active, socketVars
  <2>2. Active' /\ Conversation' < Conversation
    BY <1>1, <2>1 DEF Active, Conversation, InLeg
  <2>3. QED
    BY <1>1, <1>2, <1>3, <2>1, <2>2
<1>11. QED
  BY <1>5, <1>6, <1>7, <1>8, <1>9, <1>10 DEF Next

\* No gateway can keep a request busy for ever, a forwarded one without a time
\* limit included: whatever it answers, every step brings the request closer to
\* its end, so it takes at most 2 * Whole + 2 of them (MAX_LEGS of upstream.rs,
\* first_reused of connect.rs).
THEOREM RequestsAreFinite ==
    Spec => /\ [](StepsLeft \in 0..(2 * Whole + 2))
            /\ [][StepsLeft' < StepsLeft]_vars
<1>1. IInv => StepsLeft \in 0..(2 * Whole + 2)
  <2> SUFFICES ASSUME IInv PROVE StepsLeft \in 0..(2 * Whole + 2)
    OBVIOUS
  <2>1. leg \in Nat /\ leg < MaxLegs /\ MaxLegs \in Nat /\ pc \in State /\ reused \in BOOLEAN
    BY MaxLegsAssumption, MaxTokensAssumption DEF IInv, Shape
  <2>2. Active => Conversation \in 0..Whole
    BY <2>1 DEF Active, Conversation, InLeg, PerLeg, Whole
  <2>3. QED
    BY <2>1, <2>2 DEF StepsLeft, Active, State, Done, PerLeg, Whole
<1>2. IInv /\ IInv' /\ [Next]_vars => [StepsLeft' < StepsLeft]_vars
  BY StepsLeftFall
<1>3. QED
  BY <1>1, <1>2, SpecInv, PTL DEF Spec

-----------------------------------------------------------------------------
\* Where the timer of a CONNECT is running.
TimerRuns == kind = "connect" /\ pc \notin Done

\* The fairness of the timer, with its guard written out: it fires, unless the
\* CONNECT is over by then.
TimerFires == []<>~TimerRuns \/ []<><<Timeout>>_vars

\* ConnectEnds, whatever the limits and however the gateway behaves: no step takes a
\* CONNECT out of its timer's reach but by ending it (HANDSHAKE_TIMEOUT covers
\* the dial, the legs and the retry alike).
THEOREM ConnectEndsHolds == Spec /\ TimerFires => ConnectEnds
<1>1. TimerRuns /\ [Next]_vars => TimerRuns' \/ (pc \in Done)'
  BY DEF TimerRuns, Next, TakePooled, TakeNothing, DialOk, DialErr, Send, SendErr, Peek, PeekErr,
         ReadHead, ReadHeadErr, Drain, DrainErr, Answer, AnswerErr, Timeout, vars, Start,
         socketVars, Fail, TransportFailure, history
<1>2. <<Timeout>>_vars => (pc \in Done)'
  BY DEF Timeout, Fail, Done
<1>3. (kind = "connect" => TimerRuns \/ pc \in Done) /\ (TimerRuns => ~(pc \in Done))
  BY DEF TimerRuns
<1>4. QED
  BY <1>1, <1>2, <1>3, PTL DEF Spec, TimerFires, ConnectEnds
=============================================================================
