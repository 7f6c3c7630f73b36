-------------------------- MODULE GatewayProofs --------------------------
(***************************************************************************)
(* Proofs about the gateway, for any number of terminals, requests and     *)
(* places in its queues: a request of the app-server is sent one answer,   *)
(* and Lark is asked only in a thread the manager knows.                   *)
(***************************************************************************)
EXTENDS Gateway, TLAPS

-----------------------------------------------------------------------------
(* The attempts to answer *)

\* One attempt moves on.
LEMMA OutcomeFacts ==
    ASSUME TypeOK, NEW a \in Asks, NEW p \in Parties, NEW state \in AttemptStates,
           Outcome(a, p, state)
    PROVE  /\ attempt' \in [Asks -> [Parties -> AttemptStates]]
           /\ attempt'[a][p] = state
           /\ \A b \in Asks, q \in Parties : ~(b = a /\ q = p) => attempt'[b][q] = attempt[b][q]
BY DEF TypeOK, Outcome

\* One begins.
LEMMA TryFacts ==
    ASSUME TypeOK, NEW a \in Asks, NEW p \in Parties, Try(a, p)
    PROVE  /\ attempt' \in [Asks -> [Parties -> AttemptStates]]
           /\ attempt'[a][p] = "waiting"
           /\ \A b \in Asks, q \in Parties : ~(b = a /\ q = p) => attempt'[b][q] = attempt[b][q]
<1>1. Outcome(a, p, "waiting") /\ "waiting" \in AttemptStates
  BY DEF Try, Outcome, AttemptStates, InProgress
<1> QED BY <1>1, OutcomeFacts

\* Cancelling callbacks ends their attempts, and no other.
LEMMA CancelFacts ==
    ASSUME TypeOK, NEW A \in SUBSET Asks, CancelCallbacks(A)
    PROVE  /\ callback' \in [Asks -> CallbackStates]
           /\ attempt' \in [Asks -> [Parties -> AttemptStates]]
           /\ \A a \in Asks : callback[a] = "none" => callback'[a] = "none"
           /\ \A a \in Asks, p \in Parties :
                /\ attempt'[a][p] \in {attempt[a][p], "failed"}
                /\ a \in A /\ p = "callback" => attempt'[a][p] \notin InProgress
<1>1. /\ "over" \in CallbackStates /\ "failed" \in AttemptStates /\ "failed" \notin InProgress
      /\ "callback" \in Parties
  BY DEF CallbackStates, AttemptStates, InProgress, Sending, Parties
<1>2. callback' \in [Asks -> CallbackStates] /\ \A a \in Asks : callback[a] = "none" => callback'[a] = "none"
  BY <1>1 DEF TypeOK, CancelCallbacks
<1>3. \A a \in Asks :
         attempt'[a] = IF a \in A /\ InCallback(a) \in InProgress
                       THEN [attempt[a] EXCEPT !["callback"] = "failed"] ELSE attempt[a]
  BY DEF CancelCallbacks
<1>4. \A a \in Asks : attempt[a] \in [Parties -> AttemptStates]
  BY DEF TypeOK
<1>5. \A a \in Asks :
         /\ attempt'[a] \in [Parties -> AttemptStates]
         /\ \A p \in Parties :
              /\ attempt'[a][p] \in {attempt[a][p], "failed"}
              /\ a \in A /\ p = "callback" => attempt'[a][p] \notin InProgress
  BY <1>1, <1>3, <1>4, ZenonT(60) DEF InCallback
<1>6. attempt' \in [Asks -> [Parties -> AttemptStates]]
  BY <1>5, SMTT(30) DEF CancelCallbacks
<1> QED BY <1>2, <1>5, <1>6

\* What a message is.
LEMMA MessageFacts ==
    ASSUME NEW m \in Message
    PROVE  /\ m.kind \in {"ask", "resolved", "reply"}
           /\ m.kind \in {"ask", "resolved"} => m.id \in Asks
           /\ m.kind = "reply" => m.id \in Terminals
BY DEF Message

-----------------------------------------------------------------------------
(* Types *)

\* What the reader notes.
LEMMA NoteFacts ==
    ASSUME TypeOK, NEW m \in Message, Note(m),
           m.kind # "resolved" => callback' \in [Asks -> CallbackStates]
    PROVE  /\ intercepted' \subseteq Asks /\ responded' \subseteq Asks
           /\ terminalRequests' \in [Ids -> Terminals \cup {Nobody}] /\ observed' \subseteq Terminals
           /\ attempt' \in [Asks -> [Parties -> AttemptStates]]
           /\ callback' \in [Asks -> CallbackStates]
<1>1. CASE m.kind = "ask"
  BY <1>1, MessageFacts DEF Note, TypeOK
<1>2. CASE m.kind = "resolved"
  <2>1. /\ CancelCallbacks({m.id}) /\ responded' = (responded \cup {m.id}) \ Freed({m.id})
        /\ UNCHANGED <<intercepted, terminalRequests, observed>>
    BY <1>2 DEF Note
  <2>2. m.id \in Asks
    BY <1>2, MessageFacts
  <2> QED BY <2>1, <2>2, CancelFacts DEF TypeOK
<1>3. CASE m.kind = "reply"
  <2> DEFINE e == terminalRequests[IdOf[m.id]]
  <2>1. m.id \in Terminals /\ IdOf[m.id] \in Ids
    BY <1>3, MessageFacts, GatewayAssumption
  <2>2. e \in Terminals \cup {Nobody}
    BY <2>1 DEF TypeOK
  <2>3. Known(e, m.id) \subseteq Terminals
    BY <2>1, <2>2 DEF Known
  <2>4. Forget(m.id) /\ observed' = observed \cup Known(e, m.id)
        /\ UNCHANGED <<intercepted, responded, attempt>>
    BY <1>3 DEF Note
  <2>5. terminalRequests' \in [Ids -> Terminals \cup {Nobody}]
    BY <2>4 DEF Forget, TypeOK
  <2> QED BY <1>3, <2>3, <2>4, <2>5 DEF TypeOK
<1> QED BY <1>1, <1>2, <1>3, MessageFacts

\* The first of some messages.
LEMMA FirstOf ==
    ASSUME NEW q \in Seq(Message), q # <<>>
    PROVE  /\ Head(q) \in Message /\ Tail(q) \in Seq(Message) /\ Head(q) = q[1]
           /\ 1 \in DOMAIN q /\ DOMAIN q = 1..Len(q) /\ Len(Tail(q)) = Len(q) - 1
           /\ \A i \in DOMAIN Tail(q) : i + 1 \in DOMAIN q /\ Tail(q)[i] = q[i + 1]
OBVIOUS

\* A request in hand may be offered.
LEMMA OfferFacts ==
    ASSUME TypeOK, NEW m \in Message
    PROVE  /\ Offer(m) \in [Asks -> CallbackStates]
           /\ \A a \in Asks : Offer(m)[a] # "none" =>
                callback[a] # "none" \/ (m.kind = "ask" /\ a = m.id)
BY DEF Offer, TypeOK, CallbackStates

\* What a read does, in terms of the message.
Reads(m) ==
    /\ wire # <<>> /\ m = Head(wire) /\ wire' = Tail(wire) /\ Note(m)
    /\ reader = "reading"
    /\ \/ /\ toTerminal' = Append(toTerminal, m) /\ UNCHANGED <<reader, inHand>>
          /\ m.kind # "resolved" => callback' = Offer(m)
       \/ /\ reader' = "putting" /\ inHand' = m /\ UNCHANGED toTerminal
          /\ m.kind # "resolved" => UNCHANGED callback
    /\ UNCHANGED <<life, upstream, terminal, conn, sender, carried, shown, calls, clashed, asks,
                   answers>>

\* Read is such a step.
LEMMA ReadCases == ASSUME TypeOK, Read PROVE \E m \in Message : Reads(m)
<1>1. wire \in Seq(Message) /\ wire # <<>>
  BY DEF Read, TypeOK
<1>2. Head(wire) \in Message
  BY <1>1, FirstOf
<1>3. Reads(Head(wire))
  BY DEF Read, Reads
<1> QED BY <1>2, <1>3

\* A reader that waits for a place holds a message.
HandHolds == reader = "putting" => inHand \in Message
TypeInv == TypeOK /\ HandHolds

\* The types hold at first.
LEMMA InitType == Init => TypeInv
<1>1. Init => wire \in Seq(Message) /\ toTerminal \in Seq(Message)
  BY DEF Init
<1>2. Init => attempt \in [Asks -> [Parties -> AttemptStates]]
  BY DEF Init, AttemptStates
<1>3. Init => /\ conn \in [Terminals -> {"idle", "attached", "dropped", "gone"}]
              /\ calls \in [Terminals -> {"idle", "sent", "answered", "failed"}]
              /\ callback \in [Asks -> CallbackStates] /\ answers \in [Asks -> Nat]
              /\ asks \in [Asks -> {"none", "open", "settled"}]
  BY DEF Init, CallbackStates
<1>4. Init => /\ life = "new" /\ upstream = "none" /\ reader = "none" /\ inHand = Nobody
              /\ terminal = Nobody /\ sender = FALSE /\ carried = Nobody
              /\ shown = {} /\ observed = {} /\ clashed = {}
              /\ intercepted = {} /\ responded = {}
  BY DEF Init
<1>5. Init => terminalRequests \in [Ids -> Terminals \cup {Nobody}]
  BY DEF Init
<1> QED BY <1>1, <1>2, <1>3, <1>4, <1>5 DEF TypeInv, TypeOK, HandHolds

\* The actions of the reader keep the types.
LEMMA ReaderType == ASSUME TypeInv, Reader PROVE TypeInv'
<1> USE DEF TypeInv, HandHolds
<1>1. CASE Read
  <2>1. PICK m \in Message : Reads(m)
    BY <1>1, ReadCases
  <2>2. callback \in [Asks -> CallbackStates] /\ Offer(m) \in [Asks -> CallbackStates]
    BY OfferFacts DEF TypeOK
  <2>3. m.kind # "resolved" => callback' \in [Asks -> CallbackStates]
    BY <2>1, <2>2 DEF Reads
  <2>4. /\ intercepted' \subseteq Asks /\ responded' \subseteq Asks
        /\ terminalRequests' \in [Ids -> Terminals \cup {Nobody}] /\ observed' \subseteq Terminals
        /\ attempt' \in [Asks -> [Parties -> AttemptStates]]
        /\ callback' \in [Asks -> CallbackStates]
    BY <2>1, <2>3, NoteFacts DEF Reads
  <2>5. wire' \in Seq(Message)
    BY <2>1, FirstOf DEF Reads, TypeOK
  <2>6. /\ toTerminal' \in Seq(Message) /\ reader' \in {"reading", "putting"}
        /\ inHand' \in Message \cup {Nobody} /\ HandHolds'
    <3>1. CASE toTerminal' = Append(toTerminal, m) /\ UNCHANGED <<reader, inHand>>
      BY <2>1, <3>1 DEF Reads, TypeOK
    <3>2. CASE reader' = "putting" /\ inHand' = m /\ UNCHANGED toTerminal
      BY <2>1, <3>2 DEF TypeOK
    <3> QED BY <2>1, <3>1, <3>2 DEF Reads
  <2> QED BY <2>1, <2>4, <2>5, <2>6 DEF Reads, TypeOK
<1>2. CASE Put
  <2>1. inHand \in Message
    BY <1>2 DEF Put
  <2>2. Offer(inHand) \in [Asks -> CallbackStates]
    BY <2>1, OfferFacts
  <2> QED BY <1>2, <2>1, <2>2 DEF Put, TypeOK, callVars, answerVars
<1>3. CASE ReaderEnds
  BY <1>3 DEF ReaderEnds, DropTerminals, TypeOK, callVars, answerVars
<1> QED BY <1>1, <1>2, <1>3 DEF Reader

\* So do those of the app-server.
LEMMA AppServerType == ASSUME TypeInv, Start \/ AppServer PROVE TypeInv'
<1> USE DEF TypeInv, HandHolds
<1>1. CASE Start
  BY <1>1 DEF Start, TypeOK, termVars, callVars, answerVars
<1>2. CASE Drop
  BY <1>2 DEF Drop, TypeOK, termVars, callVars, answerVars
<1>3. ASSUME NEW m \in Message, Emit(m) PROVE wire' \in Seq(Message)
  BY <1>3 DEF Emit, TypeOK
<1>4. ASSUME NEW a \in Asks, Ask(a) \/ Settle(a) PROVE TypeInv'
  <2>1. /\ [kind |-> "ask", id |-> a] \in Message /\ [kind |-> "resolved", id |-> a] \in Message
    BY DEF Message
  <2>2. wire' \in Seq(Message)
    BY <1>3, <1>4, <2>1 DEF Ask, Settle
  <2> QED BY <1>4, <2>2, ZenonT(60) DEF Ask, Settle, Emit, TypeOK, termVars, callVars, answerVars
<1>5. ASSUME NEW t \in Terminals, Reply(t) PROVE TypeInv'
  <2>1. [kind |-> "reply", id |-> t] \in Message
    BY DEF Message
  <2>2. wire' \in Seq(Message)
    BY <1>3, <1>5, <2>1 DEF Reply
  <2> QED BY <1>5, <2>2 DEF Reply, Emit, TypeOK, termVars, callVars, answerVars
<1> QED BY <1>1, <1>2, <1>4, <1>5 DEF AppServer

\* Those of the terminals and of their senders.
LEMMA TerminalType ==
    ASSUME TypeInv, \/ \E t \in Terminals : Connect(t) \/ Disconnect(t) \/ Call(t) \/ HandlerEnds(t)
                    \/ SenderTakes \/ SenderSends
    PROVE  TypeInv'
<1> USE DEF TypeInv, HandHolds
<1>1. ASSUME NEW t \in Terminals, Connect(t) PROVE TypeInv'
  BY <1>1 DEF Connect, TypeOK, connVars, callVars, answerVars
<1>2. ASSUME NEW t \in Terminals, Disconnect(t) PROVE TypeInv'
  BY <1>2 DEF Disconnect, TypeOK, connVars, callVars, answerVars
<1>3. ASSUME NEW t \in Terminals, Call(t) PROVE TypeInv'
  <2>1. /\ calls' \in [Terminals -> {"idle", "sent", "answered", "failed"}]
        /\ conn' \in [Terminals -> {"idle", "attached", "dropped", "gone"}]
    BY <1>3, ZenonT(60) DEF Call, TypeOK
  <2>0. /\ terminalRequests' \in [Ids -> Terminals \cup {Nobody}] /\ clashed' \subseteq Terminals
    BY <1>3 DEF Call, Alike, TypeOK
  <2>2. UNCHANGED <<connVars, toTerminal, terminal, sender, carried, shown, observed, answerVars,
                    callback, asks>>
    BY <1>3 DEF Call
  <2> QED BY <2>0, <2>1, <2>2 DEF TypeOK, connVars, answerVars
<1>4. ASSUME NEW t \in Terminals, HandlerEnds(t) PROVE TypeInv'
  BY <1>4 DEF HandlerEnds, TypeOK, connVars, callVars, answerVars
<1>5. CASE SenderTakes
  <2>1. toTerminal' \in Seq(Message) /\ carried' \in Message
    BY <1>5, FirstOf DEF SenderTakes, TypeOK
  <2> QED BY <1>5, <2>1 DEF SenderTakes, TypeOK, connVars, callVars, answerVars
<1>6. CASE SenderSends
  <2>1. carried \in Message
    BY <1>6 DEF SenderSends, TypeOK
  <2>2. shown' \subseteq Asks /\ sender' \in BOOLEAN
    BY <1>6, <2>1, MessageFacts DEF SenderSends, TypeOK
  <2> QED BY <1>6, <2>2 DEF SenderSends, TypeOK, connVars, callVars, answerVars
<1> QED BY <1>1, <1>2, <1>3, <1>4, <1>5, <1>6

\* Those of the answers.
LEMMA AnswerType ==
    ASSUME TypeInv, NEW a \in Asks, NEW p \in Parties,
           RunCallback(a) \/ TerminalAnswers(a) \/ LarkAnswers(a) \/ Answering(a, p)
    PROVE  TypeInv'
<1> USE DEF TypeInv, HandHolds
<1>0. /\ {"waiting", "claimed", "written", "won", "lost", "failed"} \subseteq AttemptStates
      /\ "terminal" \in Parties /\ "lark" \in Parties /\ "callback" \in Parties
  BY DEF AttemptStates, InProgress, Sending, Parties
<1>1. CASE RunCallback(a)
  <2>1. attempt' \in [Asks -> [Parties -> AttemptStates]]
    <3>1. Try(a, "callback") \/ attempt' = attempt
      BY <1>1 DEF RunCallback
    <3> QED BY <1>0, <3>1, TryFacts DEF TypeOK
  <2>2. callback' \in [Asks -> CallbackStates]
    BY <1>1, ZenonT(60) DEF RunCallback, TypeOK, CallbackStates
  <2> QED BY <1>1, <2>1, <2>2 DEF RunCallback, TypeOK, connVars, termVars, callVars
<1>2. CASE TerminalAnswers(a)
  <2>1. attempt' \in [Asks -> [Parties -> AttemptStates]]
    BY <1>0, <1>2, TryFacts DEF TerminalAnswers
  <2> QED BY <1>2, <2>1 DEF TerminalAnswers, TypeOK, connVars, termVars, callVars
<1>3. CASE LarkAnswers(a)
  <2>1. attempt' \in [Asks -> [Parties -> AttemptStates]]
    BY <1>0, <1>3, TryFacts DEF LarkAnswers
  <2> QED BY <1>3, <2>1 DEF LarkAnswers, TypeOK, connVars, termVars, callVars
<1>4. CASE Answering(a, p)
  <2>1. PICK state \in AttemptStates : Outcome(a, p, state)
    BY <1>0, <1>4 DEF Answering, Claim, Write, Drained, SendFails
  <2>2. attempt' \in [Asks -> [Parties -> AttemptStates]]
    BY <2>1, OutcomeFacts
  <2>3. responded' \subseteq Asks /\ answers' \in [Asks -> Nat]
    <3>1. CASE Claim(a, p)
      BY <3>1 DEF Claim, TypeOK
    <3>2. CASE Write(a, p)
      BY <3>2 DEF Write, TypeOK
    <3>3. CASE Drained(a, p)
      BY <3>3 DEF Drained, TypeOK
    <3>4. CASE SendFails(a, p)
      BY <3>4 DEF SendFails, TypeOK
    <3> QED BY <1>4, <3>1, <3>2, <3>3, <3>4 DEF Answering
  <2>4. UNCHANGED <<connVars, termVars, callVars, intercepted, callback, asks>>
    BY <1>4 DEF Answering, Claim, Write, Drained, SendFails
  <2> QED BY <2>2, <2>3, <2>4 DEF TypeOK, connVars, termVars, callVars
<1> QED BY <1>1, <1>2, <1>3, <1>4

\* And those of close.
LEMMA CloseType == ASSUME TypeInv, Close \/ Closing PROVE TypeInv'
<1> USE DEF TypeInv, HandHolds
<1>1. CASE Close
  <2>1. /\ callback' \in [Asks -> CallbackStates]
        /\ attempt' \in [Asks -> [Parties -> AttemptStates]]
    BY <1>1, CancelFacts DEF Close
  <2> QED BY <1>1, <2>1 DEF Close, TypeOK, DropTerminals, callVars
<1>2. CASE CloseUpstream
  BY <1>2 DEF CloseUpstream, TypeOK, termVars, callVars, answerVars
<1>3. CASE StopReader
  BY <1>3 DEF StopReader, TypeOK, termVars, callVars, answerVars
<1>4. CASE CloseReturns
  BY <1>4 DEF CloseReturns, TypeOK
<1> QED BY <1>1, <1>2, <1>3, <1>4 DEF Closing

\* Every step does.
LEMMA TypeStep == ASSUME TypeInv, [Next]_vars PROVE TypeInv'
<1>1. CASE UNCHANGED vars
  BY <1>1 DEF vars, connVars, termVars, callVars, answerVars, TypeInv, HandHolds, TypeOK
<1>2. CASE Next
  <2>1. \A a \in Asks : RunCallback(a) \/ TerminalAnswers(a) \/ LarkAnswers(a) => TypeInv'
    BY AnswerType DEF Parties
  <2>2. \A a \in Asks, p \in Parties : Answering(a, p) => TypeInv'
    BY AnswerType
  <2> QED BY <1>2, <2>1, <2>2, ReaderType, AppServerType, TerminalType, CloseType DEF Next, Terminal
<1> QED BY <1>1, <1>2

\* The gateway keeps its types: only messages travel, and only members take part.
THEOREM GatewayTypeCorrect == Spec => []TypeOK
<1>1. TypeInv => TypeOK
  BY DEF TypeInv
<1> QED BY <1>1, InitType, TypeStep, PTL DEF Spec

-----------------------------------------------------------------------------
(* One answer *)

\* What the phases of the gateway say of the connection, and the state of a request of its answers.
Phases ==
    /\ life = "new" => upstream = "none"
    /\ life \in {"draining", "waiting", "closed"} => upstream # "up"
    /\ upstream = "none" => \A a \in Asks : answers[a] = 0
    /\ \A a \in Asks : asks[a] = "none" => answers[a] = 0
\* The lock lets one send at a time, and while it sends the id is taken.
OneSends ==
    \A a, b \in Asks, p, q \in Parties :
        attempt[a][p] \in Sending /\ attempt[b][q] \in Sending => a = b /\ p = q
Taken == \A a \in Asks, p \in Parties : attempt[a][p] \in Sending => a \in responded \/ life = "closed"
\* The app-server reports as resolved what is no longer open.
ResolvedIsSettled ==
    \A i \in DOMAIN wire : wire[i].kind = "resolved" => asks[wire[i].id] = "settled"
\* While an answered request is open, nobody else may claim it or has.
AnsweredIsTaken ==
    \A a \in Asks : answers[a] >= 1 /\ upstream = "up" /\ asks[a] = "open" =>
        /\ a \in responded \/ life # "open"
        /\ \A p \in Parties : attempt[a][p] # "claimed"

AnsInv == Phases /\ OneSends /\ Taken /\ ResolvedIsSettled /\ AnsweredIsTaken /\ OneAnswer

\* Attempts only leave Sending, they do not enter it or claim.
NoneBegins ==
    \A a \in Asks, p \in Parties : attempt'[a][p] \in Sending => attempt'[a][p] = attempt[a][p]

\* A step in which nobody claims or writes, and that frees no id of a request that is open and
\* no id somebody is sending for.
LEMMA NothingSent ==
    ASSUME TypeOK, AnsInv, NoneBegins, UNCHANGED answers, Phases', ResolvedIsSettled',
           upstream' # "up" \/ upstream' = upstream \/ upstream = "none",
           life # "open" => life' # "open" \/ upstream = "none",
           life = "closed" => life' = "closed",
           \A a \in Asks : /\ asks'[a] = "open" => asks[a] \in {"none", "open"}
                           /\ asks'[a] = "open" /\ a \in responded => a \in responded' \/ life' # "open"
                                                                      \/ upstream' # "up"
                           /\ \A p \in Parties :
                                attempt'[a][p] \in Sending /\ a \in responded => a \in responded' \/ life' = "closed"
    PROVE  AnsInv'
<1> USE DEF AnsInv
<1>1. OneSends'
  BY DEF OneSends, NoneBegins
<1>2. Taken'
  BY DEF Taken, NoneBegins
<1>3. OneAnswer'
  BY DEF OneAnswer
<1>4. AnsweredIsTaken'
  <2> SUFFICES ASSUME NEW a \in Asks, answers[a] >= 1, upstream' = "up", asks'[a] = "open"
               PROVE  /\ a \in responded' \/ life' # "open"
                      /\ \A p \in Parties : attempt'[a][p] # "claimed"
    BY DEF AnsweredIsTaken
  <2>1. answers[a] # 0 /\ upstream # "none" /\ asks[a] # "none"
    BY DEF Phases
  <2>2. upstream = "up" /\ asks[a] = "open"
    BY <2>1
  <2>3. (a \in responded \/ life # "open") /\ \A p \in Parties : attempt[a][p] # "claimed"
    BY <2>2 DEF AnsweredIsTaken
  <2>4. \A p \in Parties : attempt'[a][p] # "claimed"
    BY <2>3 DEF NoneBegins, Sending
  <2> QED BY <2>1, <2>3, <2>4
<1> QED BY <1>1, <1>2, <1>3, <1>4

\* The invariant holds at first.
LEMMA InitAns == Init => AnsInv
<1> SUFFICES ASSUME Init PROVE AnsInv
  OBVIOUS
<1>1. \A a \in Asks, p \in Parties : attempt[a][p] = "none"
  BY DEF Init
<1>2. \A a \in Asks : answers[a] = 0
  BY DEF Init
<1>3. wire = <<>> /\ life = "new" /\ upstream = "none"
  BY DEF Init
<1>4. OneSends /\ Taken
  BY <1>1 DEF OneSends, Taken, Sending
<1>5. Phases /\ AnsweredIsTaken /\ OneAnswer
  BY <1>2, <1>3 DEF Phases, AnsweredIsTaken, OneAnswer
<1>6. ResolvedIsSettled
  BY <1>3 DEF ResolvedIsSettled
<1> QED BY <1>4, <1>5, <1>6 DEF AnsInv

\* Steps that touch none of it.
LEMMA QuietAns ==
    ASSUME TypeOK, AnsInv, UNCHANGED <<life, upstream, wire, responded, attempt, asks, answers>>
    PROVE  AnsInv'
BY DEF AnsInv, Phases, OneSends, Taken, ResolvedIsSettled, AnsweredIsTaken, OneAnswer

\* The app-server asks and settles, replies, and is lost.
LEMMA AppServerAns == ASSUME TypeOK, AnsInv, Start \/ AppServer PROVE AnsInv'
<1> USE DEF AnsInv
<1>1. CASE Start
  <2>1. NoneBegins /\ UNCHANGED <<wire, answers, asks, responded>>
    BY <1>1 DEF Start, NoneBegins, answerVars
  <2>2. Phases' /\ ResolvedIsSettled' /\ life = "new" /\ upstream = "none"
    BY <1>1, <2>1 DEF Start, Phases, ResolvedIsSettled
  <2> QED BY <2>1, <2>2, NothingSent
<1>2. CASE Drop
  <2>1. NoneBegins /\ UNCHANGED <<life, wire, answers, asks, responded>>
    BY <1>2 DEF Drop, NoneBegins, answerVars
  <2>2. Phases' /\ ResolvedIsSettled' /\ upstream' # "up"
    BY <1>2, <2>1 DEF Drop, Phases, ResolvedIsSettled
  <2> QED BY <2>1, <2>2, NothingSent
<1>3. ASSUME NEW a \in Asks, Ask(a) \/ Settle(a) PROVE AnsInv'
  <2>1. NoneBegins /\ UNCHANGED <<life, upstream, answers, responded>> /\ upstream = "up"
    BY <1>3 DEF Ask, Settle, Emit, NoneBegins, answerVars
  <2>2. PICK state \in {"open", "settled"} :
           /\ asks' = [asks EXCEPT ![a] = state]
           /\ wire' = Append(wire, [kind |-> IF state = "open" THEN "ask" ELSE "resolved", id |-> a])
           /\ state = "open" => asks[a] = "none"
           /\ state = "settled" => asks[a] = "open"
    BY <1>3 DEF Ask, Settle, Emit
  <2>3. \A b \in Asks : /\ asks'[b] = IF b = a THEN state ELSE asks[b]
                        /\ asks[b] = "settled" => asks'[b] = "settled"
    BY <2>2 DEF TypeOK
  <2>4. Phases'
    BY <2>1, <2>3 DEF Phases
  <2>5. ResolvedIsSettled'
    <3> DEFINE m == [kind |-> IF state = "open" THEN "ask" ELSE "resolved", id |-> a]
    <3>1. m \in Message /\ wire \in Seq(Message) /\ wire' = Append(wire, m)
      BY <2>2 DEF Message, TypeOK
    <3>2. m.kind = "resolved" => m.id = a /\ asks'[m.id] = "settled"
      BY <2>3
    <3> HIDE DEF m
    <3>3. \A i \in DOMAIN wire' : \/ i \in DOMAIN wire /\ wire'[i] = wire[i] /\ wire[i] \in Message
                                  \/ wire'[i] = m
      BY <3>1
    <3>4. ASSUME NEW i \in DOMAIN wire', wire'[i].kind = "resolved" PROVE asks'[wire'[i].id] = "settled"
      <4>1. CASE i \in DOMAIN wire /\ wire'[i] = wire[i] /\ wire[i] \in Message
        <5>1. wire[i].id \in Asks /\ asks[wire[i].id] = "settled"
          BY <3>4, <4>1, MessageFacts DEF ResolvedIsSettled
        <5> QED BY <2>3, <4>1, <5>1
      <4>2. CASE wire'[i] = m
        BY <3>2, <3>4, <4>2
      <4> QED BY <3>3, <4>1, <4>2
    <3> QED BY <3>4 DEF ResolvedIsSettled
  <2>6. \A b \in Asks : asks'[b] = "open" => asks[b] \in {"none", "open"}
    BY <2>2, <2>3 DEF TypeOK
  <2> QED BY <2>1, <2>4, <2>5, <2>6, NothingSent
<1>4. ASSUME NEW t \in Terminals, Reply(t) PROVE AnsInv'
  <2>1. /\ UNCHANGED <<life, upstream, answers, responded, attempt, asks>>
        /\ wire' = Append(wire, [kind |-> "reply", id |-> t])
    BY <1>4 DEF Reply, Emit, answerVars
  <2>2. ResolvedIsSettled'
    <3> DEFINE m == [kind |-> "reply", id |-> t]
    <3>1. m \in Message /\ wire \in Seq(Message) /\ wire' = Append(wire, m) /\ m.kind = "reply"
      BY <2>1 DEF Message, TypeOK
    <3> HIDE DEF m
    <3>2. \A i \in DOMAIN wire' : (i \in DOMAIN wire /\ wire'[i] = wire[i]) \/ wire'[i] = m
      BY <3>1
    <3> QED BY <2>1, <3>1, <3>2 DEF ResolvedIsSettled
  <2> QED BY <2>1, <2>2 DEF Phases, OneSends, Taken, AnsweredIsTaken, OneAnswer
<1> QED BY <1>1, <1>2, <1>3, <1>4 DEF AppServer

\* The reader is told that a request was resolved, and cancels its callback.
LEMMA ReadAns == ASSUME TypeOK, AnsInv, Read PROVE AnsInv'
<1> USE DEF AnsInv
<1>1. PICK m \in Message : Reads(m)
  BY ReadCases
<1>2. UNCHANGED <<life, upstream, asks, answers>> /\ Note(m) /\ wire # <<>> /\ m = Head(wire) /\ wire' = Tail(wire)
  BY <1>1 DEF Reads
<1>3. wire \in Seq(Message) /\ m = wire[1] /\ 1 \in DOMAIN wire
      /\ \A i \in DOMAIN wire' : i + 1 \in DOMAIN wire /\ wire'[i] = wire[i + 1]
  BY <1>2, FirstOf DEF TypeOK
<1>4. ResolvedIsSettled' /\ Phases'
  BY <1>2, <1>3 DEF ResolvedIsSettled, Phases
<1>5. CASE m.kind = "resolved"
  <2>1. m.id \in Asks /\ asks[m.id] = "settled"
    BY <1>3, <1>5, MessageFacts DEF ResolvedIsSettled
  <2>2. CancelCallbacks({m.id}) /\ responded' = (responded \cup {m.id}) \ Freed({m.id})
    BY <1>2, <1>5 DEF Note
  <2>3. "failed" \notin Sending /\ Sending \subseteq InProgress
    BY DEF Sending, InProgress
  <2>4. \A a \in Asks, p \in Parties :
          /\ attempt'[a][p] \in {attempt[a][p], "failed"}
          /\ a \in {m.id} /\ p = "callback" => attempt'[a][p] \notin InProgress
    BY <2>1, <2>2, CancelFacts
  <2>5. NoneBegins
    BY <2>3, <2>4 DEF NoneBegins
  <2>6. ASSUME NEW a \in Asks, a \in responded, a \notin responded'
        PROVE  a = m.id /\ attempt[a]["callback"] \in Sending
    BY <2>2, <2>6 DEF Freed, InCallback
  <2>7. ASSUME NEW a \in Asks, NEW p \in Parties, attempt'[a][p] \in Sending, a \in responded
        PROVE  a \in responded'
    <3> SUFFICES ASSUME a \notin responded' PROVE FALSE
      OBVIOUS
    <3>1. a = m.id /\ attempt[a]["callback"] \in Sending /\ attempt[a][p] \in Sending
      BY <2>5, <2>6, <2>7 DEF NoneBegins
    <3>2. "callback" \in Parties
      BY DEF Parties
    <3>3. p = "callback"
      BY <3>1, <3>2 DEF OneSends
    <3> QED BY <2>3, <2>4, <2>7, <3>1, <3>3
  <2>8. \A a \in Asks : asks'[a] = "open" /\ a \in responded => a \in responded'
    BY <1>2, <2>1, <2>6
  <2>9. \A a \in Asks : asks'[a] = "open" => asks[a] \in {"none", "open"}
    BY <1>2
  <2> QED BY <1>2, <1>4, <2>5, <2>7, <2>8, <2>9, NothingSent
<1>6. CASE m.kind # "resolved"
  <2>1. UNCHANGED <<responded, attempt>>
    BY <1>2, <1>6, MessageFacts DEF Note
  <2>2. NoneBegins
    BY <2>1 DEF NoneBegins
  <2> QED BY <1>2, <1>4, <2>1, <2>2, NothingSent
<1> QED BY <1>5, <1>6

\* The callback, terminal and Lark try.
LEMMA TryAns ==
    ASSUME TypeOK, AnsInv, NEW a \in Asks, RunCallback(a) \/ TerminalAnswers(a) \/ LarkAnswers(a)
    PROVE  AnsInv'
<1> USE DEF AnsInv
<1>0. "terminal" \in Parties /\ "lark" \in Parties /\ "callback" \in Parties /\ "waiting" \notin Sending
  BY DEF Parties, Sending
<1>1. UNCHANGED <<life, upstream, wire, responded, asks, answers>>
  BY DEF RunCallback, TerminalAnswers, LarkAnswers, connVars
<1>2. attempt' = attempt \/ \E p \in Parties : Try(a, p)
  BY <1>0 DEF RunCallback, TerminalAnswers, LarkAnswers
<1>3. NoneBegins
  BY <1>0, <1>2, TryFacts DEF NoneBegins
<1>4. Phases' /\ ResolvedIsSettled'
  BY <1>1 DEF Phases, ResolvedIsSettled
<1> QED BY <1>1, <1>3, <1>4, NothingSent

\* An answer is claimed, written, and over.
LEMMA AnsweringAns ==
    ASSUME TypeOK, AnsInv, NEW a \in Asks, NEW p \in Parties, Answering(a, p)
    PROVE  AnsInv'
<1> USE DEF AnsInv
<1>0. /\ {"claimed", "written", "won", "lost", "failed"} \subseteq AttemptStates
      /\ "won" \notin Sending /\ "lost" \notin Sending /\ "failed" \notin Sending
      /\ "claimed" \in Sending /\ "written" \in Sending /\ "waiting" \notin Sending
  BY DEF AttemptStates, InProgress, Sending
<1>1. UNCHANGED <<life, upstream, wire, asks>>
  BY DEF Answering, Claim, Write, Drained, SendFails, connVars
<1>2. ResolvedIsSettled'
  BY <1>1 DEF ResolvedIsSettled
<1>3. ASSUME NEW state \in AttemptStates, Outcome(a, p, state), state \notin Sending PROVE NoneBegins
  BY <1>3, OutcomeFacts DEF NoneBegins
<1>4. CASE Claim(a, p) /\ Outcome(a, p, "claimed") /\ responded' = responded \cup {a} /\ a \notin responded /\ life = "open"
  <2>1. ~LockHeld /\ UNCHANGED answers
    BY <1>4 DEF Claim
  <2>2. \A b \in Asks, q \in Parties : attempt[b][q] \notin Sending
    BY <2>1 DEF LockHeld
  <2>3. \A b \in Asks, q \in Parties : ~(b = a /\ q = p) => attempt'[b][q] = attempt[b][q]
    BY <1>0, <1>4, OutcomeFacts
  <2>4. OneSends' /\ Taken'
    BY <1>4, <2>2, <2>3 DEF OneSends, Taken
  <2>5. Phases' /\ OneAnswer'
    BY <1>1, <2>1 DEF Phases, OneAnswer
  <2>6. AnsweredIsTaken'
    <3>1. \A b \in Asks : b # a => \A q \in Parties : attempt'[b][q] = attempt[b][q]
      BY <2>3
    <3>2. ~(answers[a] >= 1 /\ upstream = "up" /\ asks[a] = "open")
      BY <1>4 DEF AnsweredIsTaken
    <3> QED BY <1>1, <1>4, <2>1, <3>1, <3>2 DEF AnsweredIsTaken
  <2> QED BY <1>2, <2>4, <2>5, <2>6
<1>5. CASE Claim(a, p) /\ UNCHANGED responded /\ (Outcome(a, p, "lost") \/ Outcome(a, p, "failed"))
  <2>1. NoneBegins /\ UNCHANGED answers
    BY <1>0, <1>3, <1>5 DEF Claim
  <2>2. Phases'
    BY <1>1, <2>1 DEF Phases
  <2> QED BY <1>1, <1>2, <1>5, <2>1, <2>2, NothingSent
<1>6. CASE Write(a, p)
  <2>1. /\ attempt[a][p] = "claimed" /\ upstream = "up" /\ Outcome(a, p, "written") /\ UNCHANGED responded
        /\ answers' = [answers EXCEPT ![a] = @ + (IF asks[a] = "open" THEN 1 ELSE 0)]
    BY <1>6 DEF Write
  <2>2. /\ attempt'[a][p] = "written"
        /\ \A b \in Asks, q \in Parties : ~(b = a /\ q = p) => attempt'[b][q] = attempt[b][q]
    BY <1>0, <2>1, OutcomeFacts
  <2>3. /\ \A b \in Asks : b # a => answers'[b] = answers[b]
        /\ asks[a] = "open" => answers'[a] = answers[a] + 1
        /\ asks[a] # "open" => answers'[a] = answers[a]
        /\ answers[a] \in Nat
    BY <2>1 DEF TypeOK
  <2>4. OneSends'
    BY <1>0, <2>1, <2>2 DEF OneSends
  <2>5. Taken'
    BY <1>0, <1>1, <2>1, <2>2 DEF Taken
  <2>6. Phases'
    BY <1>1, <2>1, <2>3 DEF Phases
  <2>7. OneAnswer'
    <3>1. asks[a] = "open" => ~(answers[a] >= 1)
      BY <2>1 DEF AnsweredIsTaken
    <3>2. answers'[a] <= 1
      BY <2>3, <3>1 DEF OneAnswer
    <3> QED BY <2>3, <3>2 DEF OneAnswer
  <2>8. AnsweredIsTaken'
    <3>1. \A q \in Parties : attempt'[a][q] # "claimed"
      BY <1>0, <2>1, <2>2 DEF OneSends
    <3>2. a \in responded \/ life = "closed"
      BY <1>0, <2>1 DEF Taken
    <3>3. \A b \in Asks : b # a => \A q \in Parties : attempt'[b][q] = attempt[b][q]
      BY <2>2
    <3> QED BY <1>1, <2>1, <2>3, <3>1, <3>2, <3>3 DEF AnsweredIsTaken
  <2> QED BY <1>2, <2>4, <2>5, <2>6, <2>7, <2>8
<1>7. CASE Drained(a, p)
  <2>1. NoneBegins /\ UNCHANGED <<responded, answers>>
    BY <1>0, <1>3, <1>7 DEF Drained
  <2>2. Phases'
    BY <1>1, <2>1 DEF Phases
  <2> QED BY <1>1, <1>2, <2>1, <2>2, NothingSent
<1>8. CASE SendFails(a, p)
  <2>1. /\ NoneBegins /\ UNCHANGED answers /\ upstream # "up" /\ attempt[a][p] \in Sending
        /\ responded' = responded \ {a} /\ Outcome(a, p, "failed")
    BY <1>0, <1>3, <1>8 DEF SendFails
  <2>2. Phases'
    BY <1>1, <2>1 DEF Phases
  <2>3. ASSUME NEW b \in Asks, NEW q \in Parties, attempt'[b][q] \in Sending, b \in responded
        PROVE  b \in responded'
    <3>1. attempt[b][q] \in Sending
      BY <2>1, <2>3 DEF NoneBegins
    <3>2. b = a => q = p
      BY <2>1, <3>1 DEF OneSends
    <3>3. attempt'[a][p] = "failed"
      BY <1>0, <2>1, OutcomeFacts
    <3> QED BY <1>0, <2>1, <2>3, <3>2, <3>3
  <2>4. upstream' # "up"
    BY <1>1, <2>1
  <2> QED BY <1>1, <1>2, <2>1, <2>2, <2>3, <2>4, NothingSent
<1> QED BY <1>4, <1>5, <1>6, <1>7, <1>8 DEF Answering, Claim

\* The gateway closes.
LEMMA CloseAns == ASSUME TypeOK, AnsInv, Close \/ Closing PROVE AnsInv'
<1> USE DEF AnsInv
<1>1. CASE Close
  <2>1. /\ CancelCallbacks(Asks) /\ responded' = responded \ Freed(Asks)
        /\ life' = "closing" /\ UNCHANGED <<upstream, wire, answers, asks>>
    BY <1>1 DEF Close
  <2>2. \A a \in Asks, p \in Parties :
          /\ attempt'[a][p] \in {attempt[a][p], "failed"}
          /\ p = "callback" => attempt'[a][p] \notin InProgress
    BY <2>1, CancelFacts
  <2>3. NoneBegins
    BY <2>2 DEF NoneBegins, Sending
  <2>4. ASSUME NEW a \in Asks, NEW p \in Parties, attempt'[a][p] \in Sending, a \in responded
        PROVE  a \in responded'
    <3> SUFFICES ASSUME a \notin responded' PROVE FALSE
      OBVIOUS
    <3>1. attempt[a]["callback"] \in Sending /\ attempt[a][p] \in Sending /\ "callback" \in Parties
      BY <2>1, <2>3, <2>4 DEF NoneBegins, Freed, InCallback, Parties
    <3>2. p = "callback"
      BY <3>1 DEF OneSends
    <3> QED BY <2>2, <2>4, <3>2 DEF Sending, InProgress
  <2>5. Phases' /\ ResolvedIsSettled'
    BY <2>1 DEF Phases, ResolvedIsSettled
  <2>6. life = "open"
    BY <1>1 DEF Close
  <2> QED BY <2>1, <2>3, <2>4, <2>5, <2>6, NothingSent
<1>2. CASE CloseUpstream \/ StopReader
  <2>1. /\ NoneBegins /\ UNCHANGED <<wire, answers, asks, responded>>
        /\ life' \in {"draining", "waiting"} /\ upstream' \in {upstream, "ended"}
        /\ life \in {"closing", "draining"} /\ (life = "closing" => upstream' # "up")
    BY <1>2 DEF CloseUpstream, StopReader, NoneBegins, answerVars
  <2>2. Phases' /\ ResolvedIsSettled'
    BY <2>1 DEF Phases, ResolvedIsSettled
  <2>3. \A a \in Asks : asks'[a] = "open" => asks[a] \in {"none", "open"}
    BY <2>1
  <2> QED BY <2>1, <2>2, <2>3, NothingSent
<1>3. CASE CloseReturns
  <2>1. /\ NoneBegins /\ UNCHANGED <<upstream, wire, answers, asks>>
        /\ life' = "closed" /\ life = "waiting"
    BY <1>3 DEF CloseReturns, NoneBegins
  <2>2. Phases' /\ ResolvedIsSettled' /\ upstream' # "up"
    BY <2>1 DEF Phases, ResolvedIsSettled
  <2>3. \A a \in Asks : asks'[a] = "open" => asks[a] \in {"none", "open"}
    BY <2>1
  <2> QED BY <2>1, <2>2, <2>3, NothingSent
<1> QED BY <1>1, <1>2, <1>3 DEF Closing

\* Every step preserves it.
LEMMA AnsStep == ASSUME TypeOK, AnsInv, [Next]_vars PROVE AnsInv'
<1>1. CASE UNCHANGED vars
  BY <1>1, QuietAns DEF vars, connVars, answerVars
<1>2. CASE Put \/ ReaderEnds \/ SenderTakes \/ SenderSends
  BY <1>2, QuietAns DEF Put, ReaderEnds, SenderTakes, SenderSends, connVars, answerVars
<1>3. ASSUME NEW t \in Terminals, Connect(t) \/ Disconnect(t) \/ Call(t) \/ HandlerEnds(t) PROVE AnsInv'
  BY <1>3, QuietAns DEF Connect, Disconnect, Call, HandlerEnds, connVars, answerVars
<1>4. CASE Next
  BY <1>2, <1>3, <1>4, AppServerAns, ReadAns, TryAns, AnsweringAns, CloseAns DEF Next, Terminal, Reader
<1> QED BY <1>1, <1>4

\* An open request is sent at most one answer, whoever answers and whatever becomes of the sends.
THEOREM OneAnswerIsSent == Spec => []OneAnswer
<1>1. TypeInv /\ AnsInv /\ [Next]_vars => (TypeInv /\ AnsInv)'
  BY TypeStep, AnsStep DEF TypeInv
<1>2. AnsInv => OneAnswer
  BY DEF AnsInv
<1> QED BY <1>1, <1>2, InitType, InitAns, PTL DEF Spec

-----------------------------------------------------------------------------
(* Lark is asked in known threads *)

Listening == reader # "over"
IsReply(m, t) == m.kind = "reply" /\ m.id = t
IsAsk(m, a) == m.kind = "ask" /\ m.id = a

\* While the reader listens, the gateway remembers every request that is under way, if no
\* other had its id meanwhile,
SentIsKnown ==
    Listening => \A t \in Terminals \ clashed :
        calls[t] = "sent" => terminalRequests[IdOf[t]] = t
\* the answer is on its way once,
ReplyIsKnown ==
    Listening => \A t \in Terminals, i \in DOMAIN wire : IsReply(wire[i], t) =>
        /\ t \notin clashed => terminalRequests[IdOf[t]] = t
        /\ calls[t] = "answered"
        /\ \A j \in DOMAIN wire : IsReply(wire[j], t) => i = j
\* two that share an id are known to,
InFlight(t) == calls[t] = "sent" \/ \E i \in DOMAIN wire : IsReply(wire[i], t)
AlikeClash ==
    Listening => \A t, u \in Terminals :
        t # u /\ IdOf[t] = IdOf[u] /\ InFlight(t) /\ InFlight(u) => t \in clashed
\* or the manager has seen it,
AnsweredIsSeen ==
    Listening => \A t \in Terminals : calls[t] = "answered" /\ Method[t] # "other" =>
        t \in observed \cup clashed \/ \E i \in DOMAIN wire : IsReply(wire[i], t)
\* and what is asked in the thread comes after it.
AskIsLater ==
    Listening => \A a \in Asks, i \in DOMAIN wire : IsAsk(wire[i], a) =>
        \/ ThreadOf[a] \in observed \cup clashed
        \/ \E j \in DOMAIN wire : j < i /\ IsReply(wire[j], ThreadOf[a])
HandIsKnown ==
    reader = "putting" => \A a \in Asks : IsAsk(inHand, a) => ThreadOf[a] \in observed \cup clashed
\* A gateway that is new or waits for its handlers has no reader.
ReaderOver == (life = "new" => reader = "none") /\ (life = "waiting" => reader = "over")

ThreadInv ==
    /\ SentIsKnown /\ ReplyIsKnown /\ AlikeClash /\ AnsweredIsSeen /\ AskIsLater
    /\ HandIsKnown /\ ReaderOver /\ AskedInKnownThread

\* The invariant holds at first.
LEMMA InitThread == Init => ThreadInv
<1> SUFFICES ASSUME Init PROVE ThreadInv
  OBVIOUS
<1>1. wire = <<>> /\ reader = "none" /\ life = "new"
  BY DEF Init
<1>2. \A t \in Terminals : calls[t] = "idle"
  BY Zenon DEF Init
<1>3. \A a \in Asks : callback[a] = "none"
  BY DEF Init
<1>4. SentIsKnown /\ AnsweredIsSeen /\ AlikeClash
  BY <1>1, <1>2 DEF SentIsKnown, AnsweredIsSeen, AlikeClash, InFlight
<1>5. ReplyIsKnown /\ AskIsLater
  BY <1>1 DEF ReplyIsKnown, AskIsLater
<1> QED BY <1>1, <1>3, <1>4, <1>5 DEF ThreadInv, HandIsKnown, ReaderOver, AskedInKnownThread

\* A step that leaves the messages and requests as they are, or ends the reader, and offers
\* nothing new.
LEMMA NothingRead ==
    ASSUME TypeOK, ThreadInv, ReaderOver',
           Listening' => UNCHANGED <<wire, calls, terminalRequests>> /\ Listening,
           UNCHANGED <<observed, clashed>>,
           reader' = "putting" => reader = "putting" /\ inHand' = inHand,
           \A a \in Asks : callback[a] = "none" => callback'[a] = "none"
    PROVE  ThreadInv'
<1>1. CASE Listening'
  BY <1>1 DEF ThreadInv, SentIsKnown, ReplyIsKnown, AlikeClash, InFlight, AnsweredIsSeen,
              AskIsLater, HandIsKnown, AskedInKnownThread
<1>2. CASE ~Listening'
  <2>1. reader' # "putting"
    BY <1>2 DEF Listening
  <2>2. SentIsKnown' /\ ReplyIsKnown' /\ AlikeClash' /\ AnsweredIsSeen' /\ AskIsLater'
    BY <1>2 DEF SentIsKnown, ReplyIsKnown, AlikeClash, AnsweredIsSeen, AskIsLater
  <2>3. HandIsKnown' /\ AskedInKnownThread'
    BY <2>1 DEF HandIsKnown, AskedInKnownThread, ThreadInv
  <2> QED BY <2>2, <2>3 DEF ThreadInv
<1> QED BY <1>1, <1>2

\* What is appended comes last.
LEMMA AppendedIsLast ==
    ASSUME NEW q \in Seq(Message), NEW m \in Message
    PROVE  /\ DOMAIN q = 1..Len(q) /\ Len(q) \in Nat
           /\ DOMAIN Append(q, m) = 1..(Len(q) + 1)
           /\ Append(q, m)[Len(q) + 1] = m
           /\ \A i \in DOMAIN q : i \in DOMAIN Append(q, m) /\ Append(q, m)[i] = q[i]
           /\ \A i \in DOMAIN Append(q, m) : i \in DOMAIN q \/ i = Len(q) + 1
OBVIOUS

\* The app-server replies to a request once, and asks only in a thread it has started.
LEMMA EmitThread ==
    ASSUME TypeOK, ThreadInv, NEW m \in Message, Emit(m),
           UNCHANGED <<terminalRequests, observed, clashed>>,
           \A a \in Asks : IsAsk(m, a) => calls[ThreadOf[a]] = "answered" /\ calls' = calls,
           \A t \in Terminals :
              /\ IsReply(m, t) => calls[t] = "sent" /\ calls'[t] = "answered"
              /\ ~IsReply(m, t) => calls'[t] = calls[t]
    PROVE  ThreadInv'
<1> DEFINE n == Len(wire) + 1
<1>1. /\ wire \in Seq(Message) /\ wire' = Append(wire, m)
      /\ UNCHANGED <<life, reader, inHand, callback>>
  BY DEF Emit, TypeOK, answerVars
<1>2. /\ Len(wire) \in Nat /\ DOMAIN wire = 1..Len(wire) /\ wire'[n] = m /\ n \in DOMAIN wire'
      /\ \A i \in DOMAIN wire : i \in DOMAIN wire' /\ wire'[i] = wire[i] /\ i < n
      /\ \A i \in DOMAIN wire' : i \in DOMAIN wire \/ i = n
  BY <1>1, AppendedIsLast
<1>3. HandIsKnown' /\ ReaderOver' /\ AskedInKnownThread'
  BY <1>1 DEF ThreadInv, HandIsKnown, ReaderOver, AskedInKnownThread
<1> HIDE DEF n
<1>4. CASE ~Listening
  BY <1>1, <1>3, <1>4 DEF ThreadInv, SentIsKnown, ReplyIsKnown, AlikeClash, AnsweredIsSeen,
                          AskIsLater, Listening
<1>5. CASE Listening
  <2>1. SentIsKnown'
    BY <1>5 DEF ThreadInv, SentIsKnown
  <2>2. ReplyIsKnown'
    <3> SUFFICES ASSUME NEW t \in Terminals, NEW i \in DOMAIN wire', IsReply(wire'[i], t)
                 PROVE  /\ t \notin clashed => terminalRequests[IdOf[t]] = t
                        /\ calls'[t] = "answered"
                        /\ \A j \in DOMAIN wire' : IsReply(wire'[j], t) => i = j
      BY DEF ReplyIsKnown, IsReply
    <3>1. CASE IsReply(m, t)
      <4>1. \A j \in DOMAIN wire : ~IsReply(wire[j], t)
        BY <1>5, <3>1 DEF ThreadInv, ReplyIsKnown
      <4>2. \A j \in DOMAIN wire' : IsReply(wire'[j], t) => j = n
        BY <1>2, <4>1
      <4>3. t \notin clashed => terminalRequests[IdOf[t]] = t
        BY <1>5, <3>1 DEF ThreadInv, SentIsKnown
      <4> QED BY <3>1, <4>2, <4>3
    <3>2. CASE ~IsReply(m, t)
      <4>1. i \in DOMAIN wire /\ IsReply(wire[i], t)
        BY <1>2, <3>2
      <4>2. \A j \in DOMAIN wire' : IsReply(wire'[j], t) => j \in DOMAIN wire /\ IsReply(wire[j], t)
        BY <1>2, <3>2
      <4> QED BY <1>5, <3>2, <4>1, <4>2 DEF ThreadInv, ReplyIsKnown
    <3> QED BY <3>1, <3>2
  <2>3. AnsweredIsSeen'
    <3> SUFFICES ASSUME NEW t \in Terminals, calls'[t] = "answered", Method[t] # "other"
                 PROVE  t \in observed \cup clashed \/ \E i \in DOMAIN wire' : IsReply(wire'[i], t)
      BY DEF AnsweredIsSeen, IsReply
    <3>1. CASE IsReply(m, t)
      BY <1>2, <3>1
    <3>2. CASE ~IsReply(m, t)
      BY <1>2, <1>5, <3>2 DEF ThreadInv, AnsweredIsSeen
    <3> QED BY <3>1, <3>2
  <2>4. AskIsLater'
    <3> SUFFICES ASSUME NEW a \in Asks, NEW i \in DOMAIN wire', IsAsk(wire'[i], a)
                 PROVE  \/ ThreadOf[a] \in observed \cup clashed
                        \/ \E j \in DOMAIN wire' : j < i /\ IsReply(wire'[j], ThreadOf[a])
      BY DEF AskIsLater, IsAsk, IsReply
    <3>0. ThreadOf[a] \in Terminals /\ Method[ThreadOf[a]] # "other"
      BY GatewayAssumption
    <3>1. CASE i \in DOMAIN wire
      <4>1. \/ ThreadOf[a] \in observed \cup clashed
            \/ \E j \in DOMAIN wire : j < i /\ IsReply(wire[j], ThreadOf[a])
        BY <1>2, <1>5, <3>1 DEF ThreadInv, AskIsLater
      <4> QED BY <1>2, <4>1
    <3>2. CASE i = n
      <4>1. ThreadOf[a] \in observed \cup clashed \/ \E j \in DOMAIN wire : IsReply(wire[j], ThreadOf[a])
        BY <1>2, <1>5, <3>0, <3>2 DEF ThreadInv, AnsweredIsSeen
      <4> QED BY <1>2, <3>2, <4>1
    <3> QED BY <1>2, <3>1, <3>2
  <2>5. AlikeClash'
    <3>1. \A t \in Terminals : InFlight(t)' => InFlight(t)
      BY <1>2 DEF InFlight
    <3> QED BY <1>5, <3>1 DEF ThreadInv, AlikeClash
  <2> QED BY <1>3, <2>1, <2>2, <2>3, <2>4, <2>5 DEF ThreadInv
<1> QED BY <1>4, <1>5

\* The app-server asks, settles, replies or is lost.
LEMMA AppServerThread == ASSUME TypeOK, ThreadInv, Start \/ AppServer PROVE ThreadInv'
<1>1. CASE Start
  <2>1. /\ UNCHANGED <<wire, inHand, callVars, callback>>
        /\ life = "new" /\ reader = "none"
        /\ life' \in {"open", "closed"} /\ reader' \in {"none", "reading"}
    BY <1>1 DEF Start, ThreadInv, ReaderOver
  <2>2. Listening /\ ReaderOver' /\ reader' # "putting"
    BY <2>1 DEF Listening, ReaderOver
  <2> QED BY <2>1, <2>2, NothingRead DEF callVars
<1>2. CASE Drop
  <2>1. UNCHANGED <<life, reader, wire, inHand, callVars, callback>>
    BY <1>2 DEF Drop
  <2>2. ReaderOver' /\ (Listening' => Listening)
    BY <2>1 DEF Listening, ThreadInv, ReaderOver
  <2> QED BY <2>1, <2>2, NothingRead DEF callVars
<1>3. ASSUME NEW a \in Asks, Ask(a) \/ Settle(a) PROVE ThreadInv'
  <2>1. PICK m \in Message : /\ Emit(m) /\ UNCHANGED callVars /\ m.kind # "reply"
                             /\ m.kind = "ask" => m.id = a /\ calls[ThreadOf[a]] = "answered"
    <3>1. CASE Ask(a)
      <4>1. [kind |-> "ask", id |-> a] \in Message
        BY DEF Message
      <4> QED BY <3>1, <4>1 DEF Ask
    <3>2. CASE Settle(a)
      <4>1. [kind |-> "resolved", id |-> a] \in Message
        BY DEF Message
      <4> QED BY <3>2, <4>1 DEF Settle
    <3> QED BY <1>3, <3>1, <3>2
  <2> QED BY <2>1, EmitThread DEF IsAsk, IsReply, callVars
<1>4. ASSUME NEW t \in Terminals, Reply(t) PROVE ThreadInv'
  <2> DEFINE m == [kind |-> "reply", id |-> t]
  <2>1. m \in Message /\ m.kind = "reply" /\ m.id = t
    BY DEF Message
  <2>2. Emit(m) /\ UNCHANGED <<terminalRequests, observed, clashed>> /\ calls[t] = "sent"
        /\ calls' = [calls EXCEPT ![t] = "answered"]
    BY <1>4 DEF Reply
  <2> HIDE DEF m
  <2>3. \A u \in Terminals :
          /\ IsReply(m, u) => calls[u] = "sent" /\ calls'[u] = "answered"
          /\ ~IsReply(m, u) => calls'[u] = calls[u]
    BY <2>1, <2>2 DEF IsReply, TypeOK
  <2>4. \A a \in Asks : ~IsAsk(m, a)
    BY <2>1 DEF IsAsk
  <2> QED BY <2>1, <2>2, <2>3, <2>4, EmitThread
<1> QED BY <1>1, <1>2, <1>3, <1>4 DEF AppServer

\* The reader sees the answer that started a thread before it sees a request in it.
LEMMA ReadThread == ASSUME TypeOK, ThreadInv, Read PROVE ThreadInv'
<1>1. PICK m \in Message : Reads(m)
  BY ReadCases
<1>2. /\ UNCHANGED <<life, calls, clashed>> /\ Note(m) /\ reader = "reading" /\ reader' \in {"reading", "putting"}
      /\ reader' = "putting" => inHand' = m
      /\ wire # <<>> /\ m = Head(wire) /\ wire' = Tail(wire)
  BY <1>1 DEF Reads
<1>3. /\ wire \in Seq(Message) /\ m = wire[1] /\ 1 \in DOMAIN wire /\ DOMAIN wire = 1..Len(wire)
      /\ wire' = Tail(wire) /\ DOMAIN wire' = 1..(Len(wire) - 1) /\ Len(wire) \in Nat
      /\ \A i \in DOMAIN wire' : i + 1 \in DOMAIN wire /\ wire'[i] = wire[i + 1]
  BY <1>2, FirstOf DEF TypeOK
<1>4. \A i \in DOMAIN wire : i = 1 \/ (i - 1 \in DOMAIN wire' /\ wire'[i - 1] = wire[i])
  <2>1. \A i \in DOMAIN wire : i = 1 \/ i - 1 \in DOMAIN wire'
    BY <1>3
  <2> QED BY <1>3, <2>1
<1>5. Listening /\ Listening'
  BY <1>2 DEF Listening
<1>0. \A t \in Terminals : InFlight(t)' => InFlight(t)
  BY <1>2, <1>3 DEF InFlight
\* The entry that is popped is that of the request, or of one that it clashed with.
<1>6. /\ observed \subseteq observed'
      /\ \A t \in Terminals \ clashed :
            /\ IsReply(m, t) /\ Method[t] # "other" => t \in observed'
            /\ InFlight(t) /\ ~IsReply(m, t) => terminalRequests'[IdOf[t]] = terminalRequests[IdOf[t]]
  <2>1. CASE m.kind = "reply"
    <3>1. m.id \in Terminals /\ IsReply(m, m.id) /\ \A t \in Terminals : IsReply(m, t) => t = m.id
      BY <2>1, MessageFacts DEF IsReply
    <3>2. m.id \notin clashed => terminalRequests[IdOf[m.id]] = m.id
      BY <1>3, <1>5, <3>1 DEF ThreadInv, ReplyIsKnown
    <3>3. /\ terminalRequests' = [terminalRequests EXCEPT ![IdOf[m.id]] = Nobody]
          /\ observed' = observed \cup Known(terminalRequests[IdOf[m.id]], m.id)
      BY <1>2, <2>1 DEF Note, Forget
    <3>4. ASSUME m.id \notin clashed, Method[m.id] # "other" PROVE m.id \in observed'
      <4>1. m.id # Nobody /\ Method[m.id] \in {"start", "resume"}
        BY <3>1, <3>4, GatewayAssumption
      <4>2. m.id \in Known(m.id, m.id)
        BY <4>1 DEF Known
      <4> QED BY <3>2, <3>3, <3>4, <4>2
    <3>5. ASSUME NEW t \in Terminals \ clashed, InFlight(t), ~IsReply(m, t) PROVE IdOf[t] # IdOf[m.id]
      <4>1. t # m.id /\ InFlight(m.id)
        BY <1>3, <3>1, <3>5 DEF InFlight
      <4> QED BY <1>5, <3>1, <3>5, <4>1 DEF ThreadInv, AlikeClash
    <3>6. ASSUME NEW t \in Terminals \ clashed, InFlight(t), ~IsReply(m, t)
          PROVE  terminalRequests'[IdOf[t]] = terminalRequests[IdOf[t]]
      BY <3>3, <3>5, <3>6 DEF TypeOK
    <3> QED BY <3>1, <3>3, <3>4, <3>6
  <2>2. CASE m.kind # "reply"
    BY <1>2, <2>2, MessageFacts DEF Note, IsReply
  <2> QED BY <2>1, <2>2
<1>7. \A a \in Asks : IsAsk(m, a) => ThreadOf[a] \in observed \cup clashed
  <2> SUFFICES ASSUME NEW a \in Asks, IsAsk(m, a) PROVE ThreadOf[a] \in observed \cup clashed
    OBVIOUS
  <2>1. \/ ThreadOf[a] \in observed \cup clashed
        \/ \E j \in DOMAIN wire : j < 1 /\ IsReply(wire[j], ThreadOf[a])
    BY <1>3, <1>5 DEF ThreadInv, AskIsLater
  <2>2. \A j \in DOMAIN wire : ~(j < 1)
    BY <1>3
  <2> QED BY <2>1, <2>2
<1>8. SentIsKnown'
  <2> SUFFICES ASSUME NEW t \in Terminals \ clashed, calls[t] = "sent"
               PROVE  terminalRequests'[IdOf[t]] = t
    BY <1>2 DEF SentIsKnown
  <2>1. terminalRequests[IdOf[t]] = t /\ InFlight(t)
    BY <1>5 DEF ThreadInv, SentIsKnown, InFlight
  <2>2. ~IsReply(m, t)
    BY <1>3, <1>5 DEF ThreadInv, ReplyIsKnown
  <2> QED BY <1>6, <2>1, <2>2
<1>9. ReplyIsKnown'
  <2> SUFFICES ASSUME NEW t \in Terminals, NEW i \in DOMAIN wire', IsReply(wire'[i], t)
               PROVE  /\ t \notin clashed => terminalRequests'[IdOf[t]] = t
                      /\ calls'[t] = "answered"
                      /\ \A j \in DOMAIN wire' : IsReply(wire'[j], t) => i = j
    BY <1>2 DEF ReplyIsKnown, IsReply
  <2>1. i \in Nat /\ i + 1 \in DOMAIN wire /\ IsReply(wire[i + 1], t)
    BY <1>3
  <2>2. /\ t \notin clashed => terminalRequests[IdOf[t]] = t
        /\ calls[t] = "answered" /\ InFlight(t)
        /\ \A j \in DOMAIN wire : IsReply(wire[j], t) => i + 1 = j
    BY <1>5, <2>1 DEF ThreadInv, ReplyIsKnown, InFlight
  <2>3. ~IsReply(m, t)
    <3>1. i + 1 # 1
      BY <1>3
    <3> QED BY <1>3, <2>2, <3>1
  <2>4. t \notin clashed => terminalRequests'[IdOf[t]] = t
    BY <1>6, <2>2, <2>3
  <2>5. \A j \in DOMAIN wire' : IsReply(wire'[j], t) => i = j
    BY <1>3, <2>2
  <2> QED BY <1>2, <2>2, <2>4, <2>5
<1>14. AlikeClash'
  BY <1>0, <1>2, <1>5 DEF ThreadInv, AlikeClash
<1>10. AnsweredIsSeen'
  <2> SUFFICES ASSUME NEW t \in Terminals, calls[t] = "answered", Method[t] # "other",
                      t \notin observed' \cup clashed
               PROVE  \E i \in DOMAIN wire' : IsReply(wire'[i], t)
    BY <1>2 DEF AnsweredIsSeen, IsReply
  <2>1. t \notin observed \cup clashed /\ ~IsReply(m, t)
    BY <1>6
  <2>2. PICK i \in DOMAIN wire : IsReply(wire[i], t)
    BY <1>5, <2>1 DEF ThreadInv, AnsweredIsSeen
  <2>3. i # 1
    BY <1>3, <2>1, <2>2
  <2> QED BY <1>4, <2>2, <2>3
<1>11. AskIsLater'
  <2> SUFFICES ASSUME NEW a \in Asks, NEW i \in DOMAIN wire', IsAsk(wire'[i], a),
                      ThreadOf[a] \notin observed' \cup clashed
               PROVE  \E j \in DOMAIN wire' : j < i /\ IsReply(wire'[j], ThreadOf[a])
    BY <1>2 DEF AskIsLater, IsAsk, IsReply
  <2>1. /\ i + 1 \in DOMAIN wire /\ IsAsk(wire[i + 1], a) /\ ThreadOf[a] \notin observed \cup clashed
        /\ ThreadOf[a] \in Terminals /\ Method[ThreadOf[a]] # "other"
    BY <1>3, <1>6, GatewayAssumption
  <2>2. PICK j \in DOMAIN wire : j < i + 1 /\ IsReply(wire[j], ThreadOf[a])
    BY <1>5, <2>1 DEF ThreadInv, AskIsLater
  <2>3. j # 1
    BY <1>3, <1>6, <2>1, <2>2
  <2>4. j - 1 \in DOMAIN wire' /\ IsReply(wire'[j - 1], ThreadOf[a])
    BY <1>4, <2>2, <2>3
  <2>5. j - 1 < i
    BY <1>3, <2>2
  <2> QED BY <2>4, <2>5
<1>12. HandIsKnown' /\ ReaderOver'
  BY <1>2, <1>6, <1>7 DEF HandIsKnown, ReaderOver, ThreadInv
<1>13. AskedInKnownThread'
  <2> SUFFICES ASSUME NEW a \in Asks, callback'[a] # "none"
               PROVE  ThreadOf[a] \in observed' \cup clashed
    BY <1>2 DEF AskedInKnownThread
  <2>1. callback[a] # "none" \/ IsAsk(m, a)
    <3>1. CASE m.kind = "resolved"
      <4>1. CancelCallbacks({m.id}) /\ m.id \in Asks
        BY <1>2, <3>1, MessageFacts DEF Note
      <4> QED BY <4>1, CancelFacts
    <3>2. CASE m.kind # "resolved"
      <4>1. callback' = Offer(m) \/ callback' = callback
        BY <1>1, <3>2 DEF Reads
      <4> QED BY <4>1, OfferFacts DEF IsAsk
    <3> QED BY <3>1, <3>2
  <2> QED BY <1>6, <1>7, <2>1 DEF ThreadInv, AskedInKnownThread
<1> QED BY <1>8, <1>9, <1>10, <1>11, <1>12, <1>13, <1>14 DEF ThreadInv

\* The reader gets a place for its message, or ends.
LEMMA PutThread == ASSUME TypeInv, ThreadInv, Put \/ ReaderEnds PROVE ThreadInv'
<1>1. CASE Put
  <2>1. /\ UNCHANGED <<life, wire, callVars>>
        /\ reader = "putting" /\ reader' = "reading" /\ callback' = Offer(inHand)
    BY <1>1 DEF Put
  <2>2. inHand \in Message
    BY <2>1 DEF TypeInv, HandHolds
  <2>3. \A a \in Asks : callback'[a] # "none" => callback[a] # "none" \/ IsAsk(inHand, a)
    BY <2>1, <2>2, OfferFacts DEF TypeInv, IsAsk
  <2>4. AskedInKnownThread' /\ HandIsKnown' /\ ReaderOver'
    BY <2>1, <2>3 DEF ThreadInv, AskedInKnownThread, HandIsKnown, ReaderOver, callVars
  <2>5. Listening
    BY <2>1 DEF Listening
  <2>6. SentIsKnown' /\ ReplyIsKnown' /\ AlikeClash' /\ AnsweredIsSeen' /\ AskIsLater'
    BY <2>1, <2>5 DEF ThreadInv, SentIsKnown, ReplyIsKnown, AlikeClash, InFlight, AnsweredIsSeen,
                      AskIsLater, callVars
  <2> QED BY <2>4, <2>6 DEF ThreadInv
<1>2. CASE ReaderEnds
  <2>1. reader' = "over" /\ UNCHANGED <<life, observed, clashed, callback>> /\ life # "new"
    BY <1>2 DEF ReaderEnds, callVars, ThreadInv, ReaderOver
  <2>2. ReaderOver' /\ ~Listening'
    BY <2>1 DEF ReaderOver, Listening
  <2> QED BY <2>1, <2>2, NothingRead DEF TypeInv
<1> QED BY <1>1, <1>2

\* A terminal makes a request, and the gateway remembers it first; what it takes the place
\* of has clashed with it.
LEMMA CallThread == ASSUME TypeOK, ThreadInv, NEW t \in Terminals, Call(t) PROVE ThreadInv'
<1>1. /\ UNCHANGED <<life, reader, inHand, wire, observed, callback>>
      /\ terminalRequests' = [terminalRequests EXCEPT ![IdOf[t]] = t] /\ calls[t] = "idle"
      /\ calls'[t] \in {"sent", "failed"} /\ \A u \in Terminals : u # t => calls'[u] = calls[u]
      /\ clashed' = clashed \cup (IF Alike(t) = {} THEN {} ELSE Alike(t) \cup {t})
  BY DEF Call, connVars, TypeOK
<1>2. \A u \in Terminals : calls'[u] = "answered" <=> calls[u] = "answered"
  BY <1>1
<1>3. CASE ~Listening
  BY <1>1, <1>3 DEF ThreadInv, SentIsKnown, ReplyIsKnown, AlikeClash, AnsweredIsSeen, AskIsLater,
                    HandIsKnown, ReaderOver, AskedInKnownThread, Listening
<1>4. CASE Listening
  <2>0. \A u \in Terminals : UnderWay(u) <=> InFlight(u)
    <3>1. \A u \in Terminals, i \in DOMAIN wire :
             wire[i] = [kind |-> "reply", id |-> u] <=> IsReply(wire[i], u)
      <4> SUFFICES ASSUME NEW u \in Terminals, NEW i \in DOMAIN wire, IsReply(wire[i], u)
                   PROVE  wire[i] = [kind |-> "reply", id |-> u]
        BY DEF IsReply
      <4>1. wire[i] \in Message /\ wire[i].kind = "reply" /\ wire[i].id = u
        BY DEF TypeOK, IsReply
      <4>2. wire[i] \in [kind : {"reply"}, id : Terminals]
        BY <4>1 DEF Message
      <4>3. \A m \in [kind : {"reply"}, id : Terminals] : m = [kind |-> "reply", id |-> m.id]
        OBVIOUS
      <4> QED BY <4>1, <4>2, <4>3
    <3> QED BY <3>1 DEF UnderWay, InFlight
  <2>1. \A u \in Terminals : u # t /\ IdOf[u] = IdOf[t] /\ InFlight(u) => u \in clashed' /\ t \in clashed'
    BY <1>1, <2>0 DEF Alike
  <2>2. \A u \in Terminals : u # t => (InFlight(u)' <=> InFlight(u))
    BY <1>1 DEF InFlight
  <2>3. ~InFlight(t)
    BY <1>1, <1>4 DEF InFlight, ThreadInv, ReplyIsKnown
  <2>4. \A u \in Terminals : u # t /\ IdOf[u] # IdOf[t] => terminalRequests'[IdOf[u]] = terminalRequests[IdOf[u]]
    BY <1>1, GatewayAssumption DEF TypeOK
  <2>5. terminalRequests'[IdOf[t]] = t /\ clashed \subseteq clashed'
    BY <1>1, GatewayAssumption DEF TypeOK
  <2>6. SentIsKnown'
    <3> SUFFICES ASSUME NEW u \in Terminals \ clashed', calls'[u] = "sent"
                 PROVE  terminalRequests'[IdOf[u]] = u
      BY DEF SentIsKnown
    <3>1. CASE u # t
      <4>1. calls[u] = "sent" /\ InFlight(u) /\ u \notin clashed
        BY <1>1, <2>5, <3>1 DEF InFlight
      <4> QED BY <1>4, <2>1, <2>4, <3>1, <4>1 DEF ThreadInv, SentIsKnown
    <3> QED BY <2>5, <3>1
  <2>7. ReplyIsKnown'
    <3> SUFFICES ASSUME NEW u \in Terminals, NEW i \in DOMAIN wire, IsReply(wire[i], u)
                 PROVE  /\ u \notin clashed' => terminalRequests'[IdOf[u]] = u
                        /\ calls'[u] = "answered"
                        /\ \A j \in DOMAIN wire : IsReply(wire[j], u) => i = j
      BY <1>1 DEF ReplyIsKnown
    <3>1. /\ InFlight(u) /\ u # t
      BY <2>3 DEF InFlight
    <3>2. /\ u \notin clashed => terminalRequests[IdOf[u]] = u
          /\ calls[u] = "answered" /\ \A j \in DOMAIN wire : IsReply(wire[j], u) => i = j
      BY <1>4 DEF ThreadInv, ReplyIsKnown
    <3> QED BY <1>2, <2>1, <2>4, <2>5, <3>1, <3>2
  <2>8. AlikeClash'
    <3> SUFFICES ASSUME NEW u \in Terminals, NEW v \in Terminals, u # v, IdOf[u] = IdOf[v],
                        InFlight(u)', InFlight(v)'
                 PROVE  u \in clashed'
      BY DEF AlikeClash
    <3>1. CASE u # t /\ v # t
      BY <1>4, <2>2, <2>5, <3>1 DEF ThreadInv, AlikeClash
    <3> QED BY <2>1, <2>2, <3>1
  <2>9. AnsweredIsSeen' /\ AskIsLater'
    BY <1>1, <1>2, <1>4, <2>5 DEF ThreadInv, AnsweredIsSeen, AskIsLater
  <2>10. HandIsKnown' /\ ReaderOver' /\ AskedInKnownThread'
    BY <1>1, <2>5 DEF ThreadInv, HandIsKnown, ReaderOver, AskedInKnownThread
  <2> QED BY <2>6, <2>7, <2>8, <2>9, <2>10 DEF ThreadInv
<1> QED BY <1>3, <1>4

\* Whatever else happens reads nothing.
LEMMA RestThread ==
    ASSUME TypeOK, ThreadInv,
           \/ SenderTakes \/ SenderSends \/ Close \/ Closing
           \/ \E t \in Terminals : Connect(t) \/ Disconnect(t) \/ HandlerEnds(t)
           \/ \E a \in Asks : \/ RunCallback(a) \/ TerminalAnswers(a) \/ LarkAnswers(a)
                              \/ \E p \in Parties : Answering(a, p)
    PROVE  ThreadInv'
<1>1. ASSUME UNCHANGED <<connVars, callVars>>,
             \A a \in Asks : callback[a] = "none" => callback'[a] = "none"
      PROVE  ThreadInv'
  <2>1. ReaderOver' /\ (Listening' => Listening)
    BY <1>1 DEF ThreadInv, ReaderOver, Listening, connVars
  <2> QED BY <1>1, <2>1, NothingRead DEF connVars, callVars
<1>2. CASE SenderTakes \/ SenderSends
  BY <1>1, <1>2 DEF SenderTakes, SenderSends
<1>3. ASSUME NEW t \in Terminals, Connect(t) \/ Disconnect(t) \/ HandlerEnds(t) PROVE ThreadInv'
  BY <1>1, <1>3 DEF Connect, Disconnect, HandlerEnds
<1>4. ASSUME NEW a \in Asks, RunCallback(a) PROVE ThreadInv'
  BY <1>1, <1>4 DEF RunCallback, TypeOK
<1>5. ASSUME NEW a \in Asks, TerminalAnswers(a) \/ LarkAnswers(a) PROVE ThreadInv'
  BY <1>1, <1>5 DEF TerminalAnswers, LarkAnswers
<1>6. ASSUME NEW a \in Asks, NEW p \in Parties, Answering(a, p) PROVE ThreadInv'
  BY <1>1, <1>6 DEF Answering, Claim, Write, Drained, SendFails
<1>7. CASE Close
  <2>1. CancelCallbacks(Asks) /\ UNCHANGED <<wire, reader, inHand, callVars>> /\ life' = "closing"
    BY <1>7 DEF Close
  <2>2. ReaderOver' /\ (Listening' => Listening)
    BY <2>1 DEF ReaderOver, Listening
  <2>3. \A a \in Asks : callback[a] = "none" => callback'[a] = "none"
    BY <2>1, CancelFacts
  <2> QED BY <2>1, <2>2, <2>3, NothingRead DEF callVars
<1>8. CASE CloseUpstream
  <2>1. UNCHANGED <<wire, reader, inHand, callVars, callback>> /\ life' = "draining"
    BY <1>8 DEF CloseUpstream
  <2>2. ReaderOver' /\ (Listening' => Listening)
    BY <2>1 DEF ReaderOver, Listening
  <2> QED BY <2>1, <2>2, NothingRead DEF callVars
<1>9. CASE StopReader
  <2>1. UNCHANGED <<callVars, callback>> /\ reader' = "over" /\ life' = "waiting"
    BY <1>9 DEF StopReader
  <2>2. ReaderOver' /\ ~Listening'
    BY <2>1 DEF ReaderOver, Listening
  <2> QED BY <2>1, <2>2, NothingRead DEF callVars
<1>10. CASE CloseReturns
  <2>1. UNCHANGED <<reader, observed, clashed, callback>> /\ reader = "over" /\ life' = "closed"
    BY <1>10 DEF CloseReturns, ThreadInv, ReaderOver
  <2>2. ReaderOver' /\ ~Listening'
    BY <2>1 DEF ReaderOver, Listening
  <2> QED BY <2>1, <2>2, NothingRead
<1> QED BY <1>2, <1>3, <1>4, <1>5, <1>6, <1>7, <1>8, <1>9, <1>10 DEF Closing

\* Every step preserves it.
LEMMA ThreadStep == ASSUME TypeInv, ThreadInv, [Next]_vars PROVE ThreadInv'
<1>0. TypeOK
  BY DEF TypeInv
<1>1. CASE UNCHANGED vars
  <2>1. UNCHANGED <<life, reader, wire, inHand, callVars, callback>>
    BY <1>1 DEF vars, connVars
  <2>2. ReaderOver' /\ (Listening' => Listening)
    BY <2>1 DEF ThreadInv, ReaderOver, Listening
  <2> QED BY <1>0, <2>1, <2>2, NothingRead DEF callVars
<1>2. CASE Next
  BY <1>0, <1>2, AppServerThread, ReadThread, PutThread, CallThread, RestThread
     DEF Next, Terminal, Reader
<1> QED BY <1>1, <1>2

\* Lark is asked about a request only when the manager knows its thread, unless the request
\* that opened the thread shared its id with another while it was under way.
THEOREM KnownThreadsOnly == Spec => []AskedInKnownThread
<1>1. TypeInv /\ ThreadInv /\ [Next]_vars => (TypeInv /\ ThreadInv)'
  BY TypeStep, ThreadStep
<1>2. ThreadInv => AskedInKnownThread
  BY DEF ThreadInv
<1> QED BY <1>1, <1>2, InitType, InitThread, PTL DEF Spec

-----------------------------------------------------------------------------
(* The feed of the terminals *)

\* A terminal that is connected is the one, and only its sender carries a message.
TheTerminal == \A t \in Terminals : conn[t] \in {"attached", "dropped"} => t = terminal
SenderServes == sender => terminal \in Terminals /\ conn[terminal] \in {"attached", "dropped"}
CarriedIsSent == carried # Nobody => sender
Serving == TheTerminal /\ SenderServes /\ CarriedIsSent

\* How a terminal is linked.
LEMMA LinkFacts ==
    ASSUME NEW t \in Terminals, TypeOK
    PROVE  /\ conn[t] = "idle" <=> feedLink[t] = "idle"
           /\ (conn[t] \in {"attached", "dropped"} /\ sender) <=> feedLink[t] = "on"
           /\ feedLink[t] \in {"idle", "on", "off"}
BY DEF feedLink, TypeOK

\* A queue with something in front of it.
LEMMA InFront ==
    ASSUME NEW q \in Seq(Message), NEW m \in Message, NEW n \in Message
    PROVE  /\ <<m>> \o q \in Seq(Message) /\ <<m>> \o q # <<>> /\ Tail(<<m>> \o q) = q
           /\ Append(<<m>> \o q, n) = <<m>> \o Append(q, n)
           /\ q # <<>> => <<Head(q)>> \o Tail(q) = q
OBVIOUS

\* What the feed sees of a step.
Accepts == \E m \in Message : feedWaiting' = Append(feedWaiting, m) /\ UNCHANGED feedLink
Links(t, to) ==
    /\ \A u \in Terminals : u # t => feedLink'[u] = feedLink[u]
    /\ feedLink'[t] = to
Fed ==
    \/ UNCHANGED <<feedWaiting, feedLink>>
    \/ Accepts
    \/ \E t \in Terminals :
          \/ /\ feedLink[t] = "idle" /\ (\A u \in Terminals : feedLink[u] # "on")
             /\ Links(t, "on") /\ UNCHANGED feedWaiting
          \/ feedLink[t] = "idle" /\ Links(t, "off") /\ UNCHANGED feedWaiting
          \/ feedLink[t] = "on" /\ feedWaiting # <<>> /\ feedWaiting' = Tail(feedWaiting) /\ UNCHANGED feedLink
          \/ /\ feedLink[t] = "on" /\ Links(t, "off")
             /\ feedWaiting' = feedWaiting \/ (feedWaiting # <<>> /\ feedWaiting' = Tail(feedWaiting))

\* Each is a step of the feed.
LEMMA FedIsNext == ASSUME Fed PROVE [Feed!Next]_(Feed!vars)
<1>0. ASSUME NEW t \in Terminals, NEW to, Links(t, to) PROVE feedLink' = [feedLink EXCEPT ![t] = to]
  <2>1. feedLink = [u \in Terminals |-> feedLink[u]] /\ feedLink' = [u \in Terminals |-> feedLink'[u]]
    BY DEF feedLink
  <2> HIDE DEF feedLink
  <2> QED BY <1>0, <2>1 DEF Links
<1>1. CASE UNCHANGED <<feedWaiting, feedLink>>
  BY <1>1 DEF Feed!vars
<1>2. CASE Accepts
  BY <1>2 DEF Accepts, Feed!Next, Feed!Accept
<1>3. ASSUME NEW t \in Terminals, feedLink[t] = "idle", \A u \in Terminals : feedLink[u] # "on",
             Links(t, "on"), UNCHANGED feedWaiting
      PROVE  Feed!Next
  BY <1>0, <1>3 DEF Feed!Next, Feed!Attach
<1>4. ASSUME NEW t \in Terminals, feedLink[t] = "idle", Links(t, "off"), UNCHANGED feedWaiting
      PROVE  Feed!Next
  BY <1>0, <1>4 DEF Feed!Next, Feed!Refuse
<1>5. ASSUME NEW t \in Terminals, feedLink[t] = "on", feedWaiting # <<>>,
             feedWaiting' = Tail(feedWaiting), UNCHANGED feedLink
      PROVE  Feed!Next
  BY <1>5 DEF Feed!Next, Feed!Deliver
<1>6. ASSUME NEW t \in Terminals, feedLink[t] = "on", Links(t, "off"),
             feedWaiting' = feedWaiting \/ (feedWaiting # <<>> /\ feedWaiting' = Tail(feedWaiting))
      PROVE  Feed!Next
  BY <1>0, <1>6 DEF Feed!Next, Feed!Leave
<1> QED BY <1>1, <1>2, <1>3, <1>4, <1>5, <1>6 DEF Fed

\* Steps that touch no terminal, or disconnect some.
LEMMA FeedQuiet ==
    ASSUME TypeOK, Serving, UNCHANGED <<toTerminal, carried, sender, terminal>>,
           conn' \in [Terminals -> {"idle", "attached", "dropped", "gone"}],
           \A t \in Terminals : conn'[t] = conn[t] \/ (conn[t] = "attached" /\ conn'[t] = "dropped")
    PROVE  Serving' /\ Fed
<1>1. feedWaiting' = feedWaiting
  BY DEF feedWaiting
<1>2. feedLink' = feedLink
  BY DEF feedLink
<1>3. TheTerminal' /\ SenderServes' /\ CarriedIsSent'
  BY DEF Serving, TheTerminal, SenderServes, CarriedIsSent
<1> QED BY <1>1, <1>2, <1>3 DEF Serving, Fed

\* A message is put into the queue.
LEMMA FeedAccepts ==
    ASSUME TypeOK, Serving, NEW m \in Message, toTerminal' = Append(toTerminal, m),
           UNCHANGED <<carried, sender, terminal, conn>>
    PROVE  Serving' /\ Fed
<1>1. feedWaiting' = Append(feedWaiting, m)
  <2>1. toTerminal \in Seq(Message) /\ (carried = Nobody \/ carried \in Message)
    BY DEF TypeOK
  <2>2. CASE carried = Nobody
    BY <2>2 DEF feedWaiting
  <2>3. CASE carried # Nobody
    BY <2>1, <2>3, InFront DEF feedWaiting
  <2> QED BY <2>2, <2>3
<1>2. feedLink' = feedLink
  BY DEF feedLink
<1>3. Serving'
  BY DEF Serving, TheTerminal, SenderServes, CarriedIsSent
<1> QED BY <1>1, <1>2, <1>3 DEF Fed, Accepts

\* The reader puts messages into the queue in the order in which they come.
LEMMA ReaderFeeds == ASSUME TypeInv, Serving, Reader PROVE Serving' /\ Fed
<1>0. TypeOK
  BY DEF TypeInv
<1>1. CASE Read
  <2>1. PICK m \in Message : Reads(m)
    BY <1>0, <1>1, ReadCases
  <2>2. CASE toTerminal' = Append(toTerminal, m)
    BY <1>0, <2>1, <2>2, FeedAccepts DEF Reads
  <2>3. CASE UNCHANGED toTerminal
    <3>1. UNCHANGED <<toTerminal, carried, sender, terminal, conn>>
      BY <2>1, <2>3 DEF Reads
    <3> QED BY <1>0, <3>1, FeedQuiet DEF TypeOK
  <2> QED BY <2>1, <2>2, <2>3 DEF Reads
<1>2. CASE Put
  <2>1. inHand \in Message /\ toTerminal' = Append(toTerminal, inHand)
        /\ UNCHANGED <<carried, sender, terminal, conn>>
    BY <1>2 DEF Put, TypeInv, HandHolds
  <2> QED BY <1>0, <2>1, FeedAccepts
<1>3. CASE ReaderEnds
  <2>1. /\ UNCHANGED <<toTerminal, carried, sender, terminal>>
        /\ conn' = conn \/ conn' = DropTerminals
    BY <1>3 DEF ReaderEnds
  <2> QED BY <1>0, <2>1, FeedQuiet DEF DropTerminals, TypeOK
<1> QED BY <1>1, <1>2, <1>3 DEF Reader

\* A terminal connects to what is waiting, and there is no other.
LEMMA ConnectFeeds == ASSUME TypeOK, Serving, NEW t \in Terminals, Connect(t) PROVE Serving' /\ Fed
<1>1. /\ conn[t] = "idle" /\ UNCHANGED <<toTerminal, carried>>
      /\ \/ terminal = Nobody /\ terminal' = t /\ sender' = TRUE /\ conn'[t] = "attached"
         \/ conn'[t] = "gone" /\ UNCHANGED <<terminal, sender>>
      /\ \A u \in Terminals : u # t => conn'[u] = conn[u]
  BY DEF Connect, TypeOK
<1>2. UNCHANGED feedWaiting
  BY <1>1 DEF feedWaiting
<1>3. feedLink[t] = "idle"
  BY <1>1 DEF feedLink
<1>4. CASE terminal = Nobody /\ terminal' = t /\ sender' = TRUE /\ conn'[t] = "attached"
  <2>1. \A u \in Terminals : conn[u] \notin {"attached", "dropped"}
    <3> SUFFICES ASSUME NEW u \in Terminals, conn[u] \in {"attached", "dropped"} PROVE FALSE
      OBVIOUS
    <3>1. terminal = u
      BY DEF Serving, TheTerminal
    <3> QED BY <1>4, <3>1, GatewayAssumption
  <2>2. \A u \in Terminals : feedLink[u] # "on"
    BY <2>1 DEF feedLink
  <2>3. Links(t, "on")
    BY <1>1, <1>4, <2>1 DEF Links, feedLink
  <2>4. Serving'
    BY <1>1, <1>4, <2>1 DEF Serving, TheTerminal, SenderServes, CarriedIsSent
  <2> QED BY <1>2, <1>3, <2>2, <2>3, <2>4 DEF Fed
<1>5. CASE conn'[t] = "gone" /\ UNCHANGED <<terminal, sender>>
  <2>1. Links(t, "off")
    BY <1>1, <1>5 DEF Links, feedLink
  <2>2. Serving'
    BY <1>1, <1>5 DEF Serving, TheTerminal, SenderServes, CarriedIsSent
  <2> QED BY <1>2, <1>3, <2>1, <2>2 DEF Fed
<1> QED BY <1>1, <1>4, <1>5

\* The sender takes the first message and sends it, or the terminal leaves with it.
LEMMA SenderFeeds == ASSUME TypeOK, Serving, SenderTakes \/ SenderSends PROVE Serving' /\ Fed
<1>1. CASE SenderTakes
  <2>1. /\ sender /\ carried = Nobody /\ toTerminal # <<>> /\ UNCHANGED <<terminal, conn, sender>>
        /\ carried' = Head(toTerminal) /\ toTerminal' = Tail(toTerminal) /\ toTerminal \in Seq(Message)
    BY <1>1 DEF SenderTakes, TypeOK
  <2>2. Head(toTerminal) \in Message /\ Head(toTerminal) # Nobody
    BY <2>1, FirstOf, NobodyAssumption
  <2>3. feedWaiting' = feedWaiting
    BY <2>1, <2>2, InFront DEF feedWaiting
  <2>4. feedLink' = feedLink
    BY <2>1 DEF feedLink
  <2>5. Serving'
    BY <2>1 DEF Serving, TheTerminal, SenderServes, CarriedIsSent
  <2> QED BY <2>3, <2>4, <2>5 DEF Fed
<1>2. CASE SenderSends
  <2>1. /\ sender /\ carried # Nobody /\ carried' = Nobody /\ UNCHANGED <<toTerminal, terminal, conn>>
        /\ toTerminal \in Seq(Message) /\ carried \in Message
        /\ sender' = (conn[terminal] = "attached")
    BY <1>2 DEF SenderSends, TypeOK
  <2>2. feedWaiting # <<>> /\ feedWaiting' = Tail(feedWaiting)
    BY <2>1, InFront DEF feedWaiting
  <2>3. terminal \in Terminals /\ conn[terminal] \in {"attached", "dropped"}
    BY <2>1 DEF Serving, SenderServes
  <2>4. feedLink[terminal] = "on"
    BY <2>1, <2>3 DEF feedLink
  <2>5. Serving'
    BY <2>1 DEF Serving, TheTerminal, SenderServes, CarriedIsSent
  <2>6. CASE sender'
    <3>1. feedLink' = feedLink
      BY <2>1, <2>6 DEF feedLink
    <3> QED BY <2>2, <2>3, <2>4, <2>5, <3>1 DEF Fed
  <2>7. CASE ~sender'
    <3>1. \A u \in Terminals : u # terminal => conn[u] \notin {"attached", "dropped"}
      BY DEF Serving, TheTerminal
    <3>2. PICK t \in Terminals : t = terminal
      BY <2>3
    <3>3. Links(t, "off")
      BY <2>1, <2>3, <2>7, <3>1, <3>2 DEF Links, feedLink
    <3> QED BY <2>2, <2>4, <2>5, <3>2, <3>3 DEF Fed
  <2> QED BY <2>6, <2>7
<1> QED BY <1>1, <1>2

\* The handler of a terminal ends, and with it what its sender carries.
LEMMA HandlerFeeds == ASSUME TypeOK, Serving, NEW t \in Terminals, HandlerEnds(t) PROVE Serving' /\ Fed
<1>1. /\ conn[t] = "dropped" /\ conn'[t] = "gone" /\ \A u \in Terminals : u # t => conn'[u] = conn[u]
      /\ terminal' = Nobody /\ sender' = FALSE /\ carried' = Nobody /\ toTerminal' = toTerminal
  BY DEF HandlerEnds, TypeOK, connVars
<1>2. \A u \in Terminals : u # t => conn[u] \notin {"attached", "dropped"}
  BY <1>1 DEF Serving, TheTerminal
<1>3. Serving'
  BY <1>1, <1>2 DEF Serving, TheTerminal, SenderServes, CarriedIsSent
<1>4. Links(t, "off")
  BY <1>1, <1>2 DEF Links, feedLink
<1>5. feedWaiting' = feedWaiting \/ (feedWaiting # <<>> /\ feedWaiting' = Tail(feedWaiting))
  <2>1. feedWaiting' = toTerminal /\ toTerminal \in Seq(Message) /\ (carried = Nobody \/ carried \in Message)
    BY <1>1 DEF feedWaiting, TypeOK
  <2> QED BY <2>1, InFront DEF feedWaiting
<1>6. CASE sender
  <2>1. feedLink[t] = "on"
    BY <1>1, <1>6 DEF feedLink
  <2> QED BY <1>3, <1>4, <1>5, <2>1 DEF Fed
<1>7. CASE ~sender
  <2>1. carried = Nobody /\ sender = FALSE
    BY <1>7 DEF Serving, CarriedIsSent, TypeOK
  <2>2. UNCHANGED feedWaiting
    BY <1>1, <2>1 DEF feedWaiting
  <2>3. UNCHANGED feedLink
    BY <1>1, <1>2, <2>1 DEF feedLink
  <2> QED BY <1>3, <2>2, <2>3 DEF Fed
<1> QED BY <1>6, <1>7

\* Close disconnects the terminals, and forgets the last when its handler is over.
LEMMA CloseFeeds == ASSUME TypeOK, Serving, Close \/ Closing PROVE Serving' /\ Fed
<1>1. CASE Close
  <2>1. /\ UNCHANGED <<toTerminal, carried, sender, terminal>> /\ conn' = DropTerminals
    BY <1>1 DEF Close
  <2> QED BY <2>1, FeedQuiet DEF DropTerminals, TypeOK
<1>2. CASE CloseUpstream \/ StopReader
  <2>1. UNCHANGED <<toTerminal, carried, sender, terminal, conn>>
    BY <1>2 DEF CloseUpstream, StopReader, termVars
  <2> QED BY <2>1, FeedQuiet DEF TypeOK
<1>3. CASE CloseReturns
  <2>1. /\ \A t \in Terminals : conn[t] \in {"idle", "gone"}
        /\ terminal' = Nobody /\ UNCHANGED <<toTerminal, conn, sender, carried>>
    BY <1>3 DEF CloseReturns
  <2>2. ~sender
    BY <2>1 DEF Serving, SenderServes
  <2>3. Serving'
    BY <2>1, <2>2 DEF Serving, TheTerminal, SenderServes, CarriedIsSent
  <2>4. UNCHANGED <<feedWaiting, feedLink>>
    BY <2>1 DEF feedWaiting, feedLink
  <2> QED BY <2>3, <2>4 DEF Fed
<1> QED BY <1>1, <1>2, <1>3 DEF Closing

\* Every step is one of the feed, or none.
LEMMA FeedStep == ASSUME TypeInv, Serving, [Next]_vars PROVE Serving' /\ Fed
<1>0. TypeOK
  BY DEF TypeInv
<1>1. ASSUME UNCHANGED termVars PROVE Serving' /\ Fed
  <2>1. UNCHANGED <<toTerminal, carried, sender, terminal, conn>>
    BY <1>1 DEF termVars
  <2> QED BY <1>0, <2>1, FeedQuiet DEF TypeOK
<1>2. CASE UNCHANGED vars
  BY <1>1, <1>2 DEF vars
<1>3. CASE Start \/ AppServer
  BY <1>1, <1>3 DEF Start, AppServer, Drop, Ask, Settle, Reply, Emit
<1>4. ASSUME NEW t \in Terminals, Disconnect(t) \/ Call(t) PROVE Serving' /\ Fed
  <2>1. /\ UNCHANGED <<toTerminal, carried, sender, terminal>>
        /\ conn' = conn \/ (conn[t] = "attached" /\ conn' = [conn EXCEPT ![t] = "dropped"])
    BY <1>4 DEF Disconnect, Call
  <2> QED BY <1>0, <2>1, FeedQuiet DEF TypeOK
<1>5. ASSUME NEW a \in Asks, RunCallback(a) \/ TerminalAnswers(a) \/ LarkAnswers(a) PROVE Serving' /\ Fed
  BY <1>1, <1>5 DEF RunCallback, TerminalAnswers, LarkAnswers
<1>6. ASSUME NEW a \in Asks, NEW p \in Parties, Answering(a, p) PROVE Serving' /\ Fed
  BY <1>1, <1>6 DEF Answering, Claim, Write, Drained, SendFails
<1>7. CASE Next
  BY <1>0, <1>3, <1>4, <1>5, <1>6, <1>7, ReaderFeeds, ConnectFeeds, SenderFeeds, HandlerFeeds,
     CloseFeeds DEF Next, Terminal
<1> QED BY <1>2, <1>7

\* The gateway implements the feed: its terminals get the messages in order, none twice, and
\* none is lost but with the terminal that was being sent it.
THEOREM GatewayFeeds == Spec => FeedSpec
<1>1. Init => Serving
  BY DEF Init, Serving, TheTerminal, SenderServes, CarriedIsSent
<1>2. Init => Feed!Init
  BY DEF Init, Feed!Init, feedWaiting, feedLink
<1>3. TypeInv /\ Serving /\ [Next]_vars => (TypeInv /\ Serving)' /\ [Feed!Next]_(Feed!vars)
  BY TypeStep, FeedStep, FedIsNext
<1> QED BY <1>1, <1>2, <1>3, InitType, PTL DEF Spec, FeedSpec, Feed!Spec
=============================================================================
