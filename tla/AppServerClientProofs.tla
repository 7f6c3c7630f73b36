----------------------- MODULE AppServerClientProofs -----------------------
(***************************************************************************)
(* Proofs about AppServerClient: its types, that it implements RpcLink,    *)
(* that answers reach their own callers, that the first error stands,      *)
(* that closing leaves nothing behind and that the handshake comes first.  *)
(* The invariant has five parts: the operations by themselves (OpsOK),     *)
(* the life cycle (LifeOK), what the cleanup has done so far (CleanOK),    *)
(* the queue of the write lock (WritersOK) and the messages under way      *)
(* (WireOK); the order of the handshake needs a sixth, Hello.              *)
(***************************************************************************)
EXTENDS AppServerClient, SequenceTheorems, TLAPS

Futures == {"none", "undone", "failed"} \cup Requests

\* One operation by itself: only a request has an id and a future, from the moment
\* it is registered; the future is settled by its own answer or by a failure.
OneOK(o, x, n) ==
    /\ x \in Op
    /\ x.stage = "idle" => x.future = "none" /\ x.id = 0 /\ x.told = None
    /\ x.stage = "over" => x.future # "undone"
    /\ x.future = "undone" => x.id # 0 /\ o \in Requests
    /\ x.future \in Requests => x.future = o
    /\ x.future = "none" /\ o \in Requests => x.stage \in {"idle", "over"}
    /\ x.told \in Requests => x.told = o
    /\ x.id < n

\* The operations p when n is the next id: ids in _pending are not shared.
OpsOK(p, n) ==
    /\ p \in [Ops -> Op] /\ n \in Nat \ {0}
    /\ \A o \in Ops : OneOK(o, p[o], n)
    /\ \A a, b \in Ops : p[a].id = p[b].id /\ p[a].id # 0 => a = b

NobodyWaits(p) == \A o \in Ops : p[o].future # "undone"

\* What the link shows of an operation, and of all requests.
State(x) == IF x.stage = "idle" THEN "idle" ELSE IF x.future = "undone" THEN "open" ELSE "settled"
States(p) == [o \in Requests |-> State(p[o])]

\* From p to q one call may be settled, and nothing else happens.
SettleOne(p, q) ==
    \/ States(q) = States(p)
    \/ \E c \in Requests : /\ States(p)[c] \in {"idle", "open"}
                           /\ States(q) = [States(p) EXCEPT ![c] = "settled"]

\* From p to q all open calls are settled, and perhaps idle ones.
ShutAll(p, q) ==
    \E R \in SUBSET {c \in Requests : States(p)[c] = "idle"} :
        States(q) = [c \in Requests |->
            IF States(p)[c] = "open" \/ c \in R THEN "settled" ELSE States(p)[c]]

-----------------------------------------------------------------------------
(* The other parts of the invariant.                                         *)

\* Nothing has happened that needs a process.
Untouched ==
    /\ writers = <<>> /\ ~ draining /\ tasks = {} /\ ~ held
    /\ process = "none" /\ wire = {} /\ stdout = <<>>
    /\ ops[Initialize].stage = "idle"

LifeOK ==
    /\ error # None \/ explicit => Closing
    /\ Closing => NobodyWaits(ops)
    /\ cleanup = "none" <=> ~ Closing
    /\ cleanup = "done" <=> lifecycle = "closed"
    /\ lifecycle = "new" => startup = "none"
    /\ lifecycle = "starting" => StartupPending
    /\ lifecycle = "running" => startup = "ok"
    /\ StartupPending => lifecycle \in {"starting", "closing"}
    /\ startup \in {"none", "spawning"} => Untouched

CleanOK ==
    /\ startup = "spawning" => cleanup \in {"none", "begin"}
    /\ startup \in {"calling", "ok"} /\ cleanup \in {"none", "begin"} => held
    /\ cleanup \in {"drains", "writes", "reap", "end", "done"} => tasks = {}
    /\ cleanup \in {"reap", "end", "done"} => writers = <<>>
    /\ cleanup \in {"end", "done"} => ~ held /\ process \in {"none", "reaped"}
    /\ cleanup = "done" => ~ StartupPending
    /\ ~ held /\ cleanup \in {"none", "begin"} => process = "none" /\ writers = <<>>

\* If somebody waits under this id, it is o.
Belongs(o, id) ==
    /\ id < nextId
    /\ id # 0 => \A c \in Ops : ops[c].id = id => c = o

WireOK ==
    /\ \A m \in wire : Belongs(m[1], m[2])
    /\ \A k \in 1 .. Len(stdout) :
          stdout[k][1] = "answer" => Belongs(stdout[k][3], stdout[k][2])

\* The type invariant in parts.
ControlTypeOK ==
    /\ lifecycle \in {"new", "starting", "running", "closing", "closed"}
    /\ explicit \in BOOLEAN /\ held \in BOOLEAN
    /\ error \in {None, "startup", "exited", "protocol"}
    /\ startup \in {"none", "spawning", "calling", "ok", "failed"}
    /\ tasks \subseteq {"reader", "waiter"}
    /\ cleanup \in {"none", "begin", "drains", "writes", "reap", "end", "done"}
    /\ process \in {"none", "up", "dead", "reaped"}

\* Who may be in the queue of the lock: a request only once it is registered.
Entered(p) == {o \in Ops : o \in Requests => p[o].future # "none"}

WritersOK ==
    writers \in Seq(Entered(ops)) /\ draining \in BOOLEAN /\ (draining => writers # <<>>)

TrafficOK ==
    /\ queues \in [Queues -> 0 .. Capacity] /\ answered \subseteq Requests
    /\ wire \subseteq Ops \X Nat /\ stdout \in Seq(Lines)
    /\ WireOK

ControlOK == ControlTypeOK /\ LifeOK /\ CleanOK

ClientInv == OpsOK(ops, nextId) /\ ControlOK /\ WritersOK /\ TrafficOK

-----------------------------------------------------------------------------
(* The operations.                                                           *)

LEMMA OpFields ==
    ASSUME NEW x \in Op
    PROVE  /\ x.stage \in Stage /\ x.id \in Nat /\ x.future \in Futures
           /\ x.told \in Told \cup Requests
  BY DEF Op, Futures

LEMMA MakeOp ==
    ASSUME NEW s \in Stage, NEW n \in Nat, NEW f \in Futures, NEW t \in Told \cup Requests
    PROVE  [stage |-> s, id |-> n, future |-> f, told |-> t] \in Op
  BY DEF Op, Futures

\* Names of operations are no words of the other fields.
LEMMA Words ==
    /\ Requests \subseteq Ops /\ Initialize \in Requests /\ Initialized \in Ops
    /\ Initialized \notin Requests /\ Calls \subseteq Requests
    /\ Initialize \notin Calls \cup Replies /\ Initialized \notin Calls \cup Replies
    /\ Replies \subseteq Ops /\ Replies \cap Requests = {}
    /\ \A o \in Ops : o \notin {None, "none", "undone", "failed", "sent"}
    /\ None \notin {"failed", "sent", "startup", "exited", "protocol"}
  BY OpsAssumption DEF Ops, Requests

\* One operation is replaced by another that is as good.
LEMMA Replace ==
    ASSUME NEW p, NEW n, OpsOK(p, n), NEW o \in Ops, NEW x, NEW m \in Nat, m >= n,
           OneOK(o, x, m),
           x.id \in {0, p[o].id} \/ x.id = n
    PROVE  OpsOK([p EXCEPT ![o] = x], m)
<1> DEFINE q == [p EXCEPT ![o] = x]
<1>1. q \in [Ops -> Op]
  BY DEF OpsOK, OneOK
<1>2. q[o] = x /\ \A c \in Ops : c # o => q[c] = p[c]
  BY DEF OpsOK
<1> HIDE DEF q
<1>3. ASSUME NEW c \in Ops PROVE OneOK(c, q[c], m)
  <2>1. CASE c = o BY <2>1, <1>2
  <2>2. CASE c # o
    <3>1. q[c] = p[c] /\ OneOK(c, p[c], n)
      BY <2>2, <1>2 DEF OpsOK
    <3>2. p[c].id \in Nat /\ n \in Nat
      BY OpFields DEF OpsOK
    <3> QED BY <3>1, <3>2 DEF OneOK
  <2> QED BY <2>1, <2>2
<1>4. \A c \in Ops : p[c].id < n /\ p[c].id \in Nat /\ n \in Nat
  BY OpFields DEF OpsOK, OneOK
<1>5. ASSUME NEW a \in Ops, NEW b \in Ops, q[a].id = q[b].id, q[a].id # 0 PROVE a = b
  <2>1. CASE a = o /\ b # o
    <3>1. x.id = p[b].id /\ x.id # 0
      BY <2>1, <1>2, <1>5
    <3>2. x.id # n
      BY <3>1, <1>4
    <3>3. x.id = p[o].id
      BY <3>1, <3>2
    <3> QED BY <3>1, <3>3, <2>1 DEF OpsOK
  <2>2. CASE a # o /\ b = o
    <3>1. x.id = p[a].id /\ x.id # 0
      BY <2>2, <1>2, <1>5
    <3>2. x.id # n
      BY <3>1, <1>4
    <3>3. x.id = p[o].id
      BY <3>1, <3>2
    <3> QED BY <3>1, <3>3, <2>2 DEF OpsOK
  <2>3. CASE a # o /\ b # o
    BY <2>3, <1>2, <1>5 DEF OpsOK
  <2> QED BY <2>1, <2>2, <2>3
<1>6. m \in Nat \ {0}
  BY DEF OpsOK
<1> QED BY <1>1, <1>3, <1>5, <1>6 DEF OpsOK, q

LEMMA ReturnFacts ==
    ASSUME NEW p, NEW n, OpsOK(p, n), NEW o \in Ops, NEW t \in Told \cup Requests,
           t \in Requests => t = o
    PROVE  /\ OpsOK(Return(p, o, t), n)
           /\ \A c \in Ops : c # o => Return(p, o, t)[c] = p[c]
           /\ Return(p, o, t)[o].stage = "over"
           /\ Return(p, o, t)[o].id = 0
           /\ Return(p, o, t)[o].told = t
           /\ Return(p, o, t)[o].future # "undone"
           /\ Entered(p) \subseteq Entered(Return(p, o, t))
<1> DEFINE f == IF p[o].future = "undone" THEN "failed" ELSE p[o].future
           x == [stage |-> "over", id |-> 0, told |-> t, future |-> f]
<1>1. OneOK(o, p[o], n) /\ p[o] \in Op /\ n \in Nat \ {0}
  BY DEF OpsOK, OneOK
<1>2. f \in Futures /\ f # "undone" /\ (f \in Requests => f = o)
  BY <1>1, OpFields, Words DEF OneOK, Futures
<1> HIDE DEF f
<1>3. x \in Op
  BY <1>2, MakeOp DEF Stage
<1>4. OneOK(o, x, n)
  BY <1>1, <1>2, <1>3 DEF OneOK
<1>5. Return(p, o, t) = [p EXCEPT ![o] = x]
  BY DEF Return, f, OpsOK
<1>6. OpsOK([p EXCEPT ![o] = x], n)
  <2>1. x.id \in {0, p[o].id} OBVIOUS
  <2> QED BY <1>4, <1>1, <2>1, Replace
<1>7. f # "none" \/ p[o].future = "none"
  BY DEF f
<1>8. Return(p, o, t)[o].future = f /\ \A c \in Ops : c # o => Return(p, o, t)[c] = p[c]
  BY <1>5 DEF OpsOK
<1>9. Entered(p) \subseteq Entered(Return(p, o, t))
  BY <1>7, <1>8 DEF Entered
<1>10. /\ OpsOK(Return(p, o, t), n)
       /\ \A c \in Ops : c # o => Return(p, o, t)[c] = p[c]
       /\ Return(p, o, t)[o].stage = "over" /\ Return(p, o, t)[o].id = 0
       /\ Return(p, o, t)[o].told = t /\ Return(p, o, t)[o].future # "undone"
  BY <1>2, <1>5, <1>6 DEF OpsOK
<1> QED BY <1>9, <1>10

LEMMA FailFacts ==
    ASSUME NEW p, NEW n, OpsOK(p, n)
    PROVE  /\ OpsOK(FailPending(p), n) /\ NobodyWaits(FailPending(p))
           /\ \A c \in Ops : /\ FailPending(p)[c].stage = p[c].stage
                             /\ FailPending(p)[c].id = p[c].id
                             /\ FailPending(p)[c].told = p[c].told
           /\ Entered(p) \subseteq Entered(FailPending(p))
<1> DEFINE y(c) == IF p[c].future = "undone" THEN [p[c] EXCEPT !.future = "failed"] ELSE p[c]
<1>1. \A c \in Ops : FailPending(p)[c] = y(c)
  BY DEF FailPending
<1>2. ASSUME NEW c \in Ops
      PROVE  /\ OneOK(c, y(c), n) /\ y(c) \in Op /\ y(c).future # "undone"
             /\ y(c).stage = p[c].stage /\ y(c).id = p[c].id /\ y(c).told = p[c].told
  <2>1. OneOK(c, p[c], n) /\ p[c] \in Op
    BY DEF OpsOK, OneOK
  <2>2. CASE p[c].future = "undone"
    <3>1. y(c) = [p[c] EXCEPT !.future = "failed"] BY <2>2
    <3>2. /\ y(c) \in Op /\ y(c).future = "failed"
          /\ y(c).stage = p[c].stage /\ y(c).id = p[c].id /\ y(c).told = p[c].told
      BY <3>1, <2>1 DEF Op
    <3> HIDE DEF y
    <3> QED BY <2>1, <2>2, <3>2, Words DEF OneOK
  <2>3. CASE p[c].future # "undone"
    BY <2>1, <2>3
  <2> QED BY <2>2, <2>3
<1> HIDE DEF y
<1>3. FailPending(p) \in [Ops -> Op]
  BY <1>1, <1>2 DEF FailPending
<1>4. Entered(p) \subseteq Entered(FailPending(p))
  BY DEF Entered, FailPending
<1> QED BY <1>1, <1>2, <1>3, <1>4 DEF OpsOK, NobodyWaits

LEMMA FailNone ==
    ASSUME NEW p \in [Ops -> Op], NobodyWaits(p) PROVE FailPending(p) = p
  BY DEF FailPending, NobodyWaits

-----------------------------------------------------------------------------
(* What the link sees.                                                       *)

\* From p to q only operation o changes.
Only1(p, q, o) == \A c \in Ops : c # o => q[c] = p[c]

LEMMA StatesOf ==
    ASSUME NEW p, NEW q, NEW o \in Ops, Only1(p, q, o)
    PROVE  /\ \A c \in Requests : States(p)[c] = State(p[c]) /\ States(q)[c] = State(q[c])
           /\ o \notin Requests => States(q) = States(p)
           /\ o \in Requests => States(q) = [States(p) EXCEPT ![o] = State(q[o])]
           /\ o \in Requests /\ State(q[o]) = State(p[o]) => States(q) = States(p)
<1>1. \A c \in Requests : c # o => State(q[c]) = State(p[c])
  BY Words DEF Only1
<1>2. \A c \in Requests : States(p)[c] = State(p[c]) /\ States(q)[c] = State(q[c])
  BY DEF States
<1>3. /\ States(p) = [c \in Requests |-> State(p[c])]
      /\ States(q) = [c \in Requests |-> State(q[c])]
  BY DEF States
<1> HIDE DEF State, States
<1> QED BY <1>1, <1>2, <1>3

LEMMA SettleReturn ==
    ASSUME NEW p, NEW n, OpsOK(p, n), NEW o \in Ops, NEW t \in Told \cup Requests,
           t \in Requests => t = o
    PROVE  SettleOne(p, Return(p, o, t))
<1> DEFINE q == Return(p, o, t)
<1>1. /\ \A c \in Ops : c # o => q[c] = p[c]
      /\ q[o].stage = "over" /\ q[o].future # "undone"
  BY ReturnFacts
<1> SUFFICES SettleOne(p, q) OBVIOUS
<1> HIDE DEF q
<1>2. CASE o \notin Requests
  BY <1>1, <1>2, Words DEF SettleOne, States
<1>3. CASE o \in Requests
  <2>1. State(q[o]) = "settled"
    BY <1>1 DEF State
  <2>2. States(q) = [States(p) EXCEPT ![o] = "settled"]
    BY <1>1, <1>3, <2>1, Words DEF States
  <2>3. States(p)[o] \in {"idle", "open", "settled"}
    BY <1>3 DEF States, State
  <2>4. CASE States(p)[o] = "settled"
    BY <2>2, <2>4, <1>3 DEF SettleOne, States
  <2>5. CASE States(p)[o] \in {"idle", "open"}
    BY <2>2, <2>5, <1>3 DEF SettleOne
  <2> QED BY <2>3, <2>4, <2>5
<1> QED BY <1>2, <1>3

LEMMA ShutFail ==
    ASSUME NEW p, NEW n, OpsOK(p, n), NEW q, NEW m, OpsOK(q, m), NEW o \in Ops,
           \A c \in Ops : c # o => q[c] = p[c],
           q = p \/ q[o].stage = "over"
    PROVE  ShutAll(p, FailPending(q))
<1> DEFINE r == FailPending(q)
           R == {c \in Requests : c = o /\ States(p)[c] = "idle" /\ q # p}
<1>1. \A c \in Ops : r[c].stage = q[c].stage /\ r[c].future # "undone"
  BY FailFacts DEF NobodyWaits
<1> HIDE DEF r
<1>2. ASSUME NEW c \in Requests
      PROVE  State(r[c]) = IF States(p)[c] = "open" \/ c \in R THEN "settled" ELSE States(p)[c]
  <2>1. /\ States(p)[c] = State(p[c]) /\ c \in Ops
        /\ r[c].stage = q[c].stage /\ r[c].future # "undone"
    BY <1>1, Words DEF States
  <2>2. CASE c = o /\ q # p
    BY <2>1, <2>2 DEF State
  <2>3. CASE c # o \/ q = p
    <3>1. q[c] = p[c] BY <2>3, <2>1
    <3>2. c \notin R BY <2>3
    <3> QED BY <2>1, <3>1, <3>2 DEF State
  <2> QED BY <2>2, <2>3
<1>3. R \in SUBSET {c \in Requests : States(p)[c] = "idle"}
  OBVIOUS
<1> HIDE DEF R
<1>4. States(r) = [c \in Requests |->
            IF States(p)[c] = "open" \/ c \in R THEN "settled" ELSE States(p)[c]]
  BY <1>2 DEF States
<1> QED BY <1>3, <1>4 DEF ShutAll, r

LEMMA LinkCalls ==
    /\ Link!Init <=> lifecycle = "new" /\ States(ops) = [c \in Requests |-> "idle"]
    /\ Link!Next <=>
          LET phase == IF lifecycle = "running" THEN "up" ELSE lifecycle
              phase2 == IF lifecycle' = "running" THEN "up" ELSE lifecycle'
              calls == States(ops)
              calls2 == States(ops')
          IN  \/ phase = "new" /\ phase2 = "starting" /\ calls2 = calls
              \/ phase = "starting" /\ phase2 = "up" /\ calls2 = calls
              \/ /\ phase \in {"new", "starting", "up"} /\ phase2 = "closing"
                 /\ ShutAll(ops, ops')
              \/ phase = "closing" /\ phase2 = "closed" /\ calls2 = calls
              \/ \E c \in Requests :
                    \/ /\ calls[c] = "idle"
                       /\ phase = (IF c = Initialize THEN "starting" ELSE "up")
                       /\ calls2 = [calls EXCEPT ![c] = "open"] /\ phase2 = phase
                    \/ /\ calls[c] \in {"idle", "open"}
                       /\ calls2 = [calls EXCEPT ![c] = "settled"] /\ phase2 = phase
  BY DEF Link!Init, Link!Next, Link!Start, Link!Ready, Link!Shut, Link!Closed, Link!Open,
         Link!Settle, States, State, ShutAll

\* The steps of an action, as the link sees them.
CallsKept == lifecycle' = lifecycle /\ SettleOne(ops, ops')
Shuts == /\ lifecycle \in {"new", "starting", "running"} /\ lifecycle' = "closing"
         /\ ShutAll(ops, ops')

LEMMA LinkCallsKept == CallsKept => [Link!Next]_(Link!vars)
<1> SUFFICES ASSUME CallsKept PROVE Link!Next \/ UNCHANGED Link!vars
  OBVIOUS
<1>1. CASE States(ops') = States(ops)
  BY <1>1 DEF CallsKept, Link!vars, States, State
<1>2. CASE States(ops') # States(ops)
  BY <1>2, LinkCalls DEF CallsKept, SettleOne
<1> QED BY <1>1, <1>2

LEMMA LinkShuts == Shuts => [Link!Next]_(Link!vars)
  BY LinkCalls DEF Shuts

-----------------------------------------------------------------------------
(* What the parts of an action do.                                           *)

ErrorWords == {"startup", "exited", "protocol"}

\* A client that closes already only changes the operations; one that does not starts
\* to close and releases everybody.
Unlucky(p) ==
    \/ /\ Closing /\ ops' = p
       /\ UNCHANGED <<lifecycle, cleanup>>
    \/ /\ ~ Closing /\ ops' = FailPending(p) /\ lifecycle' = "closing" /\ cleanup' = "begin"

LEMMA RecordFacts ==
    ASSUME ControlTypeOK, LifeOK, NEW err \in ErrorWords, NEW p, OpsOK(p, nextId),
           Closing => NobodyWaits(p),
           RecordError(err, p)
    PROVE  /\ Unlucky(p)
           /\ error' \in {None} \cup ErrorWords
           /\ OpsOK(ops', nextId)
<1>1. Closing \/ lifecycle \in {"new", "starting", "running"}
  BY DEF ControlTypeOK, Closing
<1>2. p \in [Ops -> Op] BY DEF OpsOK
<1>3. error \in {None} \cup ErrorWords BY DEF ControlTypeOK, ErrorWords
<1>4. CASE Closing
  <2>1. FailPending(p) = p BY <1>2, <1>4, FailNone
  <2>2. ops' = p BY <2>1 DEF RecordError
  <2>3. cleanup # "none" /\ (lifecycle = "closing" \/ lifecycle = "closed")
    BY <1>4 DEF LifeOK, Closing
  <2>4. UNCHANGED <<lifecycle, cleanup>>
    BY <2>3 DEF RecordError, BeginCleanup
  <2>5. error' \in {error, err} BY DEF RecordError
  <2> QED BY <1>3, <1>4, <2>2, <2>4, <2>5 DEF Unlucky
<1>5. CASE ~ Closing
  <2>1. error = None /\ ~ explicit /\ lifecycle # "closed" /\ cleanup = "none"
    BY <1>5 DEF LifeOK, Closing
  <2>2. /\ error' = err /\ ops' = FailPending(p) /\ lifecycle' = "closing"
        /\ cleanup' = "begin"
    BY <2>1 DEF RecordError, BeginCleanup
  <2> QED BY <1>5, <2>2, FailFacts DEF Unlucky
<1> QED BY <1>4, <1>5

\* What an action may do to the operations without opening one.
OpsStep(q) ==
    /\ OpsOK(q, nextId)
    /\ \A c \in Ops : q[c].id \in {0, ops[c].id}
    /\ NobodyWaits(ops) => NobodyWaits(q)
    /\ Entered(ops) \subseteq Entered(q)
    /\ SettleOne(ops, q)

LEMMA SameOps == ASSUME OpsOK(ops, nextId) PROVE OpsStep(ops)
  BY DEF OpsStep, SettleOne

LEMMA ReturnStep ==
    ASSUME OpsOK(ops, nextId), NEW o \in Ops, NEW t \in Told \cup Requests,
           t \in Requests => t = o
    PROVE  /\ OpsStep(Return(ops, o, t))
           /\ \A c \in Ops : c # o => Return(ops, o, t)[c] = ops[c]
           /\ ShutAll(ops, FailPending(Return(ops, o, t)))
<1> DEFINE q == Return(ops, o, t)
<1>1. /\ OpsOK(q, nextId) /\ q[o].id = 0 /\ q[o].future # "undone" /\ q[o].stage = "over"
      /\ \A c \in Ops : c # o => q[c] = ops[c]
      /\ Entered(ops) \subseteq Entered(q)
  BY ReturnFacts
<1>2. SettleOne(ops, q) BY SettleReturn
<1> SUFFICES OpsStep(q) /\ ShutAll(ops, FailPending(q))
  BY <1>1
<1> HIDE DEF q
<1>3. \A c \in Ops : q[c].id \in {0, ops[c].id}
  BY <1>1
<1>4. NobodyWaits(ops) => NobodyWaits(q)
  BY <1>1 DEF NobodyWaits
<1>5. ShutAll(ops, FailPending(q))
  BY <1>1, ShutFail
<1> QED BY <1>1, <1>2, <1>3, <1>4, <1>5 DEF OpsStep

Staged(p, o, s) == [p EXCEPT ![o] = [@ EXCEPT !.stage = s]]

\* A write is queued, or has gone out.
LEMMA StageStep ==
    ASSUME NEW p, OpsOK(p, nextId), NEW o \in Entered(p), NEW s \in {"writing", "waiting"}
    PROVE  LET q == Staged(p, o, s) IN
           /\ OpsOK(q, nextId)
           /\ \A c \in Ops : /\ q[c].id = p[c].id /\ q[c].future = p[c].future
                             /\ c # o => q[c] = p[c]
           /\ SettleOne(p, q)
           /\ o \notin Requests => States(q) = States(p)
           /\ Entered(p) \subseteq Entered(q)
<1> DEFINE x == [p[o] EXCEPT !.stage = s]
           q == Staged(p, o, s)
<1>0. o \in Ops /\ (o \in Requests => p[o].future # "none")
  BY DEF Entered
<1>1. OneOK(o, p[o], nextId) /\ p[o] \in Op /\ nextId \in Nat \ {0}
  BY <1>0 DEF OpsOK, OneOK
<1>2. /\ x \in Op /\ x.stage = s /\ x.id = p[o].id /\ x.future = p[o].future
      /\ x.told = p[o].told
  BY <1>1 DEF Op, Stage
<1>3. q = [p EXCEPT ![o] = x] /\ q[o] = x /\ \A c \in Ops : c # o => q[c] = p[c]
  BY <1>0 DEF OpsOK, Staged
<1> HIDE DEF x
<1>4. OneOK(o, x, nextId)
  BY <1>0, <1>1, <1>2 DEF OneOK
<1>5. OpsOK(q, nextId)
  <2>1. x.id \in {0, p[o].id} BY <1>2
  <2>2. OpsOK([p EXCEPT ![o] = x], nextId) BY <1>0, <1>1, <1>4, <2>1, Replace
  <2> QED BY <2>2, <1>3
<1>6. \A c \in Ops : /\ q[c].id = p[c].id /\ q[c].future = p[c].future
                     /\ c # o => q[c] = p[c]
  BY <1>2, <1>3
<1>7. o \notin Requests => States(q) = States(p)
  BY <1>6, Words DEF States
<1>9. Only1(p, q, o) BY <1>3 DEF Only1
<1> SUFFICES /\ OpsOK(q, nextId)
             /\ \A c \in Ops : /\ q[c].id = p[c].id /\ q[c].future = p[c].future
                               /\ c # o => q[c] = p[c]
             /\ SettleOne(p, q)
             /\ o \notin Requests => States(q) = States(p)
             /\ Entered(p) \subseteq Entered(q)
  OBVIOUS
<1> HIDE DEF q
<1>8. SettleOne(p, q)
  <2>1. CASE o \notin Requests \/ State(q[o]) = State(p[o])
    <3>1. States(q) = States(p) BY <2>1, <1>0, <1>9, StatesOf
    <3> QED BY <3>1 DEF SettleOne
  <2>2. CASE o \in Requests /\ State(q[o]) # State(p[o])
    <3>1. State(p[o]) = "idle" /\ State(q[o]) = "settled"
      BY <2>2, <1>1, <1>2, <1>3 DEF State, OneOK
    <3>2. States(p)[o] = "idle" /\ States(q) = [States(p) EXCEPT ![o] = "settled"]
      BY <3>1, <2>2, <1>0, <1>9, StatesOf
    <3> QED BY <3>2, <2>2 DEF SettleOne
  <2> QED BY <2>1, <2>2
<1>10. Entered(p) \subseteq Entered(q)
  BY <1>6 DEF Entered
<1> QED BY <1>5, <1>6, <1>7, <1>8, <1>10

LEMMA DeliverStep ==
    ASSUME OpsOK(ops, nextId), NEW o \in Requests, NEW id, Belongs(o, id)
    PROVE  OpsStep(Deliver(id, o)) /\ \A c \in Ops : Deliver(id, o)[c].stage = ops[c].stage
<1> DEFINE q == Deliver(id, o)
           x == [ops[o] EXCEPT !.future = o]
<1>1. \A c \in Ops : OneOK(c, ops[c], nextId) /\ ops[c] \in Op
  BY DEF OpsOK, OneOK
<1>2. \A c \in Ops : ops[c].id = id /\ ops[c].future = "undone" => c = o
  BY <1>1 DEF OneOK, Belongs
<1>3. /\ x \in Op /\ x.stage = ops[o].stage /\ x.id = ops[o].id /\ x.future = o
      /\ x.told = ops[o].told /\ o \in Ops /\ o \notin {"none", "undone"}
  BY <1>1, Words DEF Op
<1>4. nextId \in Nat \ {0} /\ ops \in [Ops -> Op]
  BY DEF OpsOK
<1> SUFFICES OpsStep(q) /\ \A c \in Ops : q[c].stage = ops[c].stage
  OBVIOUS
<1>5. CASE ~ (ops[o].id = id /\ ops[o].future = "undone")
  <2>1. q = ops
    BY <1>2, <1>4, <1>5 DEF Deliver
  <2> HIDE DEF q
  <2> QED BY <2>1, SameOps
<1>6. CASE ops[o].id = id /\ ops[o].future = "undone"
  <2>1. q = [ops EXCEPT ![o] = x]
    BY <1>2, <1>3, <1>4, <1>6 DEF Deliver
  <2>2. q[o] = x /\ \A c \in Ops : c # o => q[c] = ops[c]
    BY <2>1, <1>3, <1>4
  <2> HIDE DEF q, x
  <2>3. OneOK(o, x, nextId)
    BY <1>1, <1>3, <1>6 DEF OneOK
  <2>4. OpsOK(q, nextId)
    <3>1. x.id \in {0, ops[o].id} BY <1>3
    <3>2. o \in Ops /\ nextId \in Nat /\ nextId >= nextId BY <1>3, <1>4
    <3>3. OpsOK([ops EXCEPT ![o] = x], nextId) BY <2>3, <3>1, <3>2, Replace
    <3> QED BY <3>3, <2>1
  <2>5. \A c \in Ops : q[c].id \in {0, ops[c].id} /\ q[c].stage = ops[c].stage
    BY <2>2, <1>3
  <2>6. NobodyWaits(ops) => NobodyWaits(q)
    BY <2>2, <1>3 DEF NobodyWaits
  <2>8. Entered(ops) \subseteq Entered(q)
    BY <2>2, <1>3 DEF Entered
  <2>7. SettleOne(ops, q)
    <3>1. State(q[o]) = "settled" /\ State(ops[o]) = "open"
      BY <2>2, <1>1, <1>3, <1>6 DEF State, OneOK
    <3>0. Only1(ops, q, o) BY <2>2 DEF Only1
    <3>2. States(ops)[o] = "open" /\ States(q) = [States(ops) EXCEPT ![o] = "settled"]
      BY <3>0, <3>1, <1>3, StatesOf
    <3> QED BY <3>2 DEF SettleOne
  <2> QED BY <2>4, <2>5, <2>6, <2>7, <2>8 DEF OpsStep
<1> QED BY <1>5, <1>6

\* A call enters the dict and the queue of the lock.
LEMMA EnqueueFacts ==
    ASSUME OpsOK(ops, nextId), NEW o \in Ops, ops[o].stage = "idle", NEW f \in {"none", "undone"},
           f = "undone" <=> o \in Requests, Enqueue(o, f)
    PROVE  /\ OpsOK(ops', nextId') /\ nextId' >= nextId
           /\ \A c \in Ops : /\ ops'[c].id \in {0, ops[c].id, nextId}
                             /\ ops'[c].id = nextId => nextId' > nextId
                             /\ c # o => ops'[c] = ops[c]
           /\ o \notin Requests => /\ States(ops') = States(ops)
                                   /\ NobodyWaits(ops) => NobodyWaits(ops')
           /\ o \in Requests => /\ States(ops)[o] = "idle"
                                /\ States(ops') = [States(ops) EXCEPT ![o] = "open"]
           /\ o \in Entered(ops') /\ Entered(ops) \subseteq Entered(ops')
<1> DEFINE i == IF f = "none" THEN 0 ELSE nextId
           x == [stage |-> "writing", told |-> None, future |-> f, id |-> i]
<1>1. OneOK(o, ops[o], nextId) /\ ops[o] \in Op /\ nextId \in Nat \ {0} /\ ops \in [Ops -> Op]
  BY DEF OpsOK, OneOK
<1>2. x \in Op
  BY <1>1 DEF Op, Stage, Told
<1>3. ops' = [ops EXCEPT ![o] = x] /\ ops'[o] = x /\ \A c \in Ops : c # o => ops'[c] = ops[c]
  BY <1>1 DEF Enqueue
<1>4. nextId' \in Nat /\ nextId' >= nextId /\ i < nextId' /\ (i = nextId => nextId' > nextId)
  BY <1>1 DEF Enqueue
<1>5. x.stage = "writing" /\ x.told = None /\ x.future = f /\ x.id = i /\ i \in {0, nextId}
  OBVIOUS
<1>6. f = "undone" => i # 0
  BY <1>1
<1> HIDE DEF x, i
<1>7. OneOK(o, x, nextId')
  BY <1>2, <1>4, <1>5, <1>6, Words DEF OneOK
<1>8. OpsOK(ops', nextId')
  <2>1. x.id \in {0, ops[o].id} \/ x.id = nextId BY <1>5
  <2>2. OpsOK([ops EXCEPT ![o] = x], nextId') BY <1>4, <1>7, <2>1, Replace
  <2> QED BY <2>2, <1>3
<1>9. \A c \in Ops : /\ ops'[c].id \in {0, ops[c].id, nextId}
                     /\ ops'[c].id = nextId => nextId' > nextId
                     /\ c # o => ops'[c] = ops[c]
  <2>1. \A c \in Ops : ops[c].id < nextId /\ ops[c].id \in Nat
    BY <1>1, OpFields DEF OpsOK, OneOK
  <2> QED BY <2>1, <1>1, <1>3, <1>4, <1>5
<1>10. o \notin Requests => States(ops') = States(ops) /\ (NobodyWaits(ops) => NobodyWaits(ops'))
  BY <1>3, <1>5, Words DEF States, NobodyWaits
<1>11. o \in Requests => /\ States(ops)[o] = "idle"
                         /\ States(ops') = [States(ops) EXCEPT ![o] = "open"]
  <2> SUFFICES ASSUME o \in Requests
               PROVE  /\ States(ops)[o] = "idle"
                      /\ States(ops') = [States(ops) EXCEPT ![o] = "open"]
    OBVIOUS
  <2>1. State(ops[o]) = "idle" /\ State(ops'[o]) = "open"
    BY <1>3, <1>5 DEF State
  <2>2. Only1(ops, ops', o) BY <1>3 DEF Only1
  <2> QED BY <2>1, <2>2, StatesOf
<1>12. o \in Entered(ops') /\ Entered(ops) \subseteq Entered(ops')
  BY <1>3, <1>5 DEF Entered
<1> QED BY <1>4, <1>8, <1>9, <1>10, <1>11, <1>12

-----------------------------------------------------------------------------
(* What is common to all actions.                                            *)

LinkStep == [Link!Next]_(Link!vars)

Safe == ClientInv' /\ LinkStep

\* Ids in _pending are dropped, or taken from the counter.
IdsOK ==
    /\ nextId' >= nextId
    /\ \A c \in Ops : \/ ops'[c].id \in {0, ops[c].id}
                      \/ ops'[c].id = nextId /\ nextId' > nextId

\* What a step does to the operations, and what the link sees of it.
Data ==
    /\ OpsOK(ops', nextId') /\ IdsOK /\ LinkStep
    /\ Entered(ops) \subseteq Entered(ops')
    /\ Closing' => NobodyWaits(ops')

\* The life cycle stays, or something has gone wrong.
Moves ==
    /\ error' \in {None} \cup ErrorWords
    /\ \/ UNCHANGED <<lifecycle, error, cleanup>>
       \/ Closing /\ UNCHANGED <<lifecycle, cleanup>>
       \/ ~ Closing /\ lifecycle' = "closing" /\ cleanup' = "begin"

LEMMA InvFacts ==
    ASSUME ClientInv
    PROVE  /\ OpsOK(ops, nextId) /\ ControlTypeOK /\ LifeOK /\ CleanOK /\ WritersOK /\ TrafficOK
           /\ nextId \in Nat \ {0} /\ ops \in [Ops -> Op]
           /\ error \in {None} \cup ErrorWords
           /\ Closing => NobodyWaits(ops)
           /\ Closing \/ lifecycle \in {"new", "starting", "running"}
  BY DEF ClientInv, ControlOK, OpsOK, ControlTypeOK, ErrorWords, LifeOK, Closing

LEMMA SameIds ==
    ASSUME ClientInv, UNCHANGED nextId, \A c \in Ops : ops'[c].id \in {0, ops[c].id}
    PROVE  IdsOK
<1>1. nextId \in Nat BY InvFacts
<1> QED BY <1>1 DEF IdsOK

LEMMA OnlyData ==
    ASSUME ClientInv, NEW p, OpsStep(p), Only(p), UNCHANGED nextId
    PROVE  Data /\ Moves /\ ops' = p
<1>1. ops' = p /\ UNCHANGED <<lifecycle, error, cleanup>> BY DEF Only
<1>2. IdsOK BY <1>1, SameIds DEF OpsStep
<1>3. CallsKept BY <1>1 DEF CallsKept, OpsStep
<1>4. Closing' = Closing BY <1>1 DEF Closing
<1>5. Closing' => NobodyWaits(ops') BY <1>1, <1>4, InvFacts DEF OpsStep
<1>6. OpsOK(ops', nextId') /\ Entered(ops) \subseteq Entered(ops') BY <1>1 DEF OpsStep
<1>7. Moves BY <1>1, InvFacts DEF Moves
<1> QED BY <1>1, <1>2, <1>3, <1>5, <1>6, <1>7, LinkCallsKept DEF Data, LinkStep

LEMMA RecordData ==
    ASSUME ClientInv, NEW p, OpsStep(p), ShutAll(ops, FailPending(p)),
           NEW err \in ErrorWords, RecordError(err, p), UNCHANGED nextId
    PROVE  Data /\ Moves /\ Closing' /\ \A c \in Ops : ops'[c].stage = p[c].stage
<1>1. /\ OpsOK(p, nextId) /\ (NobodyWaits(ops) => NobodyWaits(p))
      /\ \A c \in Ops : p[c].id \in {0, ops[c].id}
      /\ Entered(ops) \subseteq Entered(p)
  BY DEF OpsStep
<1>2. Unlucky(p) /\ error' \in {None} \cup ErrorWords /\ OpsOK(ops', nextId)
  BY <1>1, InvFacts, RecordFacts
<1>3. Moves
  BY <1>2 DEF Moves, Unlucky
<1>4. Closing'
  BY <1>2 DEF Unlucky, Closing
<1>7. Entered(ops) \subseteq Entered(ops')
  BY <1>1, <1>2, FailFacts DEF Unlucky
<1>5. CASE Closing /\ ops' = p /\ UNCHANGED <<lifecycle, cleanup>>
  <2>1. CallsKept BY <1>5 DEF CallsKept, OpsStep
  <2>2. IdsOK BY <1>1, <1>5, SameIds
  <2>3. NobodyWaits(ops') BY <1>1, <1>5, InvFacts
  <2> QED BY <1>2, <1>3, <1>4, <1>5, <1>7, <2>1, <2>2, <2>3, LinkCallsKept DEF Data, LinkStep
<1>6. CASE ~ Closing /\ ops' = FailPending(p) /\ lifecycle' = "closing"
  <2>1. Shuts BY <1>6, InvFacts DEF Shuts
  <2>2. /\ NobodyWaits(ops')
        /\ \A c \in Ops : ops'[c].stage = p[c].stage /\ ops'[c].id = p[c].id
    BY <1>1, <1>6, FailFacts
  <2>3. IdsOK BY <1>1, <2>2, SameIds
  <2> QED BY <1>2, <1>3, <1>4, <1>7, <2>1, <2>2, <2>3, LinkShuts DEF Data, LinkStep
<1> QED BY <1>2, <1>5, <1>6 DEF Unlucky

\* An error that concerns no caller.
LEMMA RecordPlain ==
    ASSUME ClientInv, NEW err \in ErrorWords, RecordError(err, ops), UNCHANGED nextId
    PROVE  Data /\ Moves /\ Closing' /\ \A c \in Ops : ops'[c].stage = ops[c].stage
<1>1. OpsStep(ops) BY InvFacts, SameOps
<1>2. ShutAll(ops, FailPending(ops))
  BY InvFacts, ShutFail, Words
<1> QED BY <1>1, <1>2, RecordData

LEMMA BelongsKept ==
    ASSUME ClientInv, IdsOK, OpsOK(ops', nextId'), NEW o, NEW id \in Nat, Belongs(o, id)
    PROVE  Belongs(o, id)'
<1>1. /\ nextId \in Nat /\ nextId' \in Nat /\ nextId' >= nextId /\ id < nextId
      /\ id # 0 => \A c \in Ops : ops[c].id = id => c = o
  BY InvFacts DEF IdsOK, OpsOK, Belongs
<1>2. ASSUME id # 0, NEW c \in Ops, ops'[c].id = id PROVE c = o
  <2>1. ops'[c].id = ops[c].id
    BY <1>1, <1>2 DEF IdsOK
  <2> QED BY <1>1, <1>2, <2>1
<1> QED BY <1>1, <1>2 DEF Belongs

\* The lines of stdout.
LEMMA LineFacts ==
    ASSUME NEW l \in Lines
    PROVE  /\ l[1] = "answer" => l[2] \in Nat /\ l[3] \in Requests
           /\ l[1] = "message" => l[2] \in Queues
  BY DEF Lines

LEMMA TrafficKept ==
    ASSUME ClientInv, IdsOK, OpsOK(ops', nextId'), UNCHANGED <<queues, answered, wire, stdout>>
    PROVE  TrafficOK'
<1>1. TrafficOK BY InvFacts
<1>2. \A m \in wire : m[2] \in Nat
  BY <1>1 DEF TrafficOK
<1>3. \A m \in wire : Belongs(m[1], m[2])'
  BY <1>1, <1>2, BelongsKept DEF TrafficOK, WireOK
<1>4. \A k \in 1 .. Len(stdout) : stdout[k] \in Lines
  BY <1>1 DEF TrafficOK
<1>5. \A k \in 1 .. Len(stdout) : stdout[k][1] = "answer" => Belongs(stdout[k][3], stdout[k][2])'
  BY <1>1, <1>4, LineFacts, BelongsKept DEF TrafficOK, WireOK
<1>6. WireOK'
  BY <1>3, <1>5 DEF WireOK
<1> QED BY <1>1, <1>6 DEF TrafficOK


-----------------------------------------------------------------------------
(* The life cycle.                                                           *)

\* Nothing happens that needs a process before there is one.
StaysUntouched == startup \in {"none", "spawning"} => Untouched'

\* A write is queued only while the cleanup still looks for them.
WritesInTime ==
    writers = <<>> => writers' = <<>> \/ (held /\ cleanup' \notin {"reap", "end", "done"})

\* Most actions only begin or end operations, or record an error.
LEMMA ControlKept ==
    ASSUME ClientInv, Data, Moves, UNCHANGED <<held, process>>,
           explicit' = explicit \/ (explicit' = TRUE /\ Closing'),
           startup' = startup \/ (startup' = "failed" /\ Closing'),
           tasks' \subseteq tasks, WritesInTime, StaysUntouched
    PROVE  ControlOK'
<1>1. ControlTypeOK /\ LifeOK /\ CleanOK BY InvFacts
<1>2. Closing' => NobodyWaits(ops') BY DEF Data
<1>3. ControlTypeOK'
  <2>1. explicit' \in BOOLEAN
    <3>1. CASE explicit' = explicit BY <1>1, <3>1 DEF ControlTypeOK
    <3>2. CASE explicit' = TRUE BY <3>2
    <3> QED BY <3>1, <3>2
  <2> QED BY <1>1, <2>1 DEF ControlTypeOK, Moves, ErrorWords
<1>4. /\ StartupPending' => StartupPending
      /\ StartupPending /\ ~ Closing' => StartupPending'
      /\ startup' \in {"none", "spawning", "calling", "ok"} => startup' = startup
  BY DEF StartupPending
<1>5. LifeOK'
  <2>1. lifecycle' \in {"closing", "closed"} <=> Closing' BY DEF Closing
  <2>2. lifecycle \in {"closing", "closed"} <=> Closing BY DEF Closing
  <2>3. CASE UNCHANGED <<lifecycle, error, cleanup>>
    BY <1>1, <1>2, <1>4, <2>1, <2>2, <2>3 DEF LifeOK, StaysUntouched
  <2>4. CASE Closing /\ UNCHANGED <<lifecycle, cleanup>>
    BY <1>1, <1>2, <1>4, <2>1, <2>2, <2>4 DEF LifeOK, StaysUntouched
  <2>5. CASE ~ Closing /\ lifecycle' = "closing" /\ cleanup' = "begin"
    BY <1>1, <1>2, <1>4, <2>1, <2>2, <2>5 DEF LifeOK, StaysUntouched
  <2> QED BY <2>3, <2>4, <2>5 DEF Moves
<1>6. CleanOK'
  <2>1. cleanup' = cleanup \/ (cleanup = "none" /\ cleanup' = "begin")
    BY <1>1 DEF Moves, LifeOK
  <2>2. tasks = {} => tasks' = {} OBVIOUS
  <2> QED BY <1>1, <1>4, <2>1, <2>2 DEF CleanOK, WritesInTime
<1> QED BY <1>3, <1>5, <1>6 DEF ControlOK

LEMMA SeqGrows == ASSUME NEW S, NEW T, S \subseteq T, NEW s \in Seq(S) PROVE s \in Seq(T)
  OBVIOUS

LEMMA WritersKept ==
    ASSUME WritersOK, Entered(ops) \subseteq Entered(ops'), UNCHANGED <<writers, draining>>
    PROVE  WritersOK'
<1>1. writers' \in Seq(Entered(ops')) BY SeqGrows DEF WritersOK
<1>2. draining' \in BOOLEAN /\ draining' = draining /\ writers' = writers BY DEF WritersOK
<1>3. draining => writers # <<>> BY Zenon DEF WritersOK
<1>4. draining' => draining BY <1>2, SMT
<1>5. draining' => writers' # <<>> BY <1>2, <1>3, <1>4, Zenon
<1> QED BY <1>1, <1>2, <1>5, Zenon DEF WritersOK

\* The parts make the whole.
LEMMA SafeParts ==
    ASSUME Data, ControlOK', WritersOK', TrafficOK' PROVE Safe
  BY DEF Data, Safe, ClientInv

LEMMA InitOK == Init => ClientInv
<1> SUFFICES ASSUME Init PROVE ClientInv
  OBVIOUS
<1> DEFINE x == [stage |-> "idle", id |-> 0, future |-> "none", told |-> None]
<1>1. x \in Op BY DEF Op, Stage, Told
<1>2. ops = [o \in Ops |-> x] BY DEF Init
<1>3. x.stage = "idle" /\ x.id = 0 /\ x.future = "none" /\ x.told = None
  OBVIOUS
<1>4. ops \in [Ops -> Op] /\ \A o \in Ops : ops[o] = x
  BY <1>1, <1>2
<1> HIDE DEF x
<1>5. x.future \notin Requests /\ x.told \notin Requests
  BY <1>3, Words
<1>6. nextId = 1 BY DEF Init
<1>7. \A o \in Ops : OneOK(o, x, nextId)
  BY <1>1, <1>3, <1>5, <1>6 DEF OneOK
<1>8. OpsOK(ops, nextId)
  BY <1>3, <1>4, <1>6, <1>7 DEF OpsOK
<1>9. ControlTypeOK
  BY DEF Init, ControlTypeOK
<1>10. Untouched
  BY <1>3, <1>4, Words DEF Init, Untouched
<1>11. LifeOK
  BY <1>10 DEF Init, LifeOK, Closing, StartupPending
<1>12. CleanOK
  BY DEF Init, CleanOK
<1>13. WritersOK
  <2>1. writers = <<>> /\ draining = FALSE BY DEF Init
  <2>2. <<>> \in Seq(Entered(ops)) OBVIOUS
  <2>3. draining \in BOOLEAN /\ ~ draining BY <2>1, Zenon
  <2> QED BY <2>1, <2>2, <2>3, Zenon DEF WritersOK
<1>14. TrafficOK
  BY CapacityAssumption DEF Init, TrafficOK, WireOK
<1> QED BY <1>8, <1>9, <1>11, <1>12, <1>13, <1>14 DEF ClientInv, ControlOK

-----------------------------------------------------------------------------
(* The actions of startup.                                                   *)

LEMMA StartSafe == ClientInv /\ Start => Safe
<1> SUFFICES ASSUME ClientInv, Start PROVE Safe
  OBVIOUS
<1>1. /\ lifecycle = "new" /\ lifecycle' = "starting" /\ startup' = "spawning"
      /\ UNCHANGED <<explicit, error, nextId, ops, writers, draining, held, tasks, cleanup,
                     queues, process, wire, stdout, answered>>
  BY DEF Start, peerVars
<1>2. OpsOK(ops', nextId') BY <1>1, InvFacts
<1>3. IdsOK BY <1>1, SameIds
<1>4. LinkStep BY <1>1, LinkCalls DEF LinkStep
<1>5. ~ Closing /\ ~ Closing' BY <1>1 DEF Closing
<1>6. Data BY <1>1, <1>2, <1>3, <1>4, <1>5 DEF Data
<1>7. ControlTypeOK' BY <1>1, InvFacts DEF ControlTypeOK
<1>8. startup = "none" /\ Untouched /\ cleanup = "none"
  BY <1>1, <1>5, InvFacts DEF LifeOK
<1>9. LifeOK'
  <2>1. Untouched' BY <1>1, <1>8 DEF Untouched
  <2> QED BY <1>1, <1>5, <1>8, <2>1, InvFacts DEF LifeOK, StartupPending
<1>10. CleanOK'
  BY <1>1, <1>8, InvFacts DEF CleanOK, Untouched
<1>11. WritersOK' BY <1>1, InvFacts, WritersKept
<1>12. TrafficOK' BY <1>1, <1>2, <1>3, TrafficKept
<1> QED BY <1>6, <1>7, <1>9, <1>10, <1>11, <1>12, SafeParts DEF ControlOK

\* An operation begins: it gets its id, and its place among the writers.
LEMMA EnqueueData ==
    ASSUME ClientInv, NEW o \in Ops, ops[o].stage = "idle", NEW f \in {"none", "undone"},
           f = "undone" <=> o \in Requests, Enqueue(o, f), ~ Closing,
           UNCHANGED <<lifecycle, error, cleanup, draining>>,
           o \in Requests => lifecycle = IF o = Initialize THEN "starting" ELSE "running"
    PROVE  Data /\ Moves /\ WritersOK'
<1>1. /\ OpsOK(ops', nextId') /\ nextId' >= nextId
      /\ \A c \in Ops : /\ ops'[c].id \in {0, ops[c].id, nextId}
                        /\ ops'[c].id = nextId => nextId' > nextId
      /\ o \notin Requests => States(ops') = States(ops)
      /\ o \in Requests => /\ States(ops)[o] = "idle"
                           /\ States(ops') = [States(ops) EXCEPT ![o] = "open"]
      /\ o \in Entered(ops') /\ Entered(ops) \subseteq Entered(ops')
  BY InvFacts, EnqueueFacts
<1>2. IdsOK
  BY <1>1 DEF IdsOK
<1>3. LinkStep
  <2>1. CASE o \notin Requests
    BY <1>1, <2>1 DEF LinkStep, Link!vars, States, State
  <2>2. CASE o \in Requests
    <3>1. (IF lifecycle = "running" THEN "up" ELSE lifecycle)
          = (IF o = Initialize THEN "starting" ELSE "up")
      BY <2>2
    <3> QED BY <1>1, <2>2, <3>1, LinkCalls DEF LinkStep
  <2> QED BY <2>1, <2>2
<1>4. ~ Closing' BY DEF Closing
<1>5. Moves BY InvFacts DEF Moves
<1>6. WritersOK'
  <2>1. writers' = Append(writers, o) BY DEF Enqueue
  <2>2. writers \in Seq(Entered(ops')) BY <1>1, InvFacts, SeqGrows DEF WritersOK
  <2>3. Append(writers, o) \in Seq(Entered(ops')) /\ Append(writers, o) # <<>>
    BY <1>1, <2>2, AppendProperties
  <2>4. writers' \in Seq(Entered(ops')) /\ writers' # <<>> BY <2>1, <2>3
  <2>5. draining' \in BOOLEAN BY InvFacts DEF WritersOK
  <2> QED BY <2>4, <2>5, Zenon DEF WritersOK
<1> QED BY <1>1, <1>2, <1>3, <1>4, <1>5, <1>6 DEF Data

LEMMA SpawnSafe == ClientInv /\ Spawn => Safe
<1> SUFFICES ASSUME ClientInv, Spawn PROVE Safe
  OBVIOUS
<1>1. /\ startup = "spawning" /\ process' = "up" /\ held' = TRUE
      /\ UNCHANGED <<explicit, draining, queues, wire, stdout, answered>>
  BY DEF Spawn
<1>2. /\ Untouched /\ lifecycle \in {"starting", "closing"} /\ cleanup \in {"none", "begin"}
      /\ Closing <=> cleanup # "none"
  BY <1>1, InvFacts DEF LifeOK, CleanOK, StartupPending
<1>3. CASE Closing
  <2>1. startup' = "failed" /\ RecordError("startup", ops) /\ UNCHANGED <<nextId, writers, tasks>>
    BY <1>3 DEF Spawn
  <2>2. Data /\ Moves /\ Closing' BY <2>1, RecordPlain DEF ErrorWords
  <2>3. UNCHANGED <<lifecycle, cleanup>> BY <1>3, <2>2 DEF Moves
  <2>4. ControlTypeOK'
    BY <1>1, <2>1, <2>2, InvFacts DEF ControlTypeOK, Moves, ErrorWords
  <2>5. LifeOK'
    <3>1. NobodyWaits(ops') BY <2>2 DEF Data
    <3> QED BY <1>1, <1>2, <2>1, <2>2, <2>3, <3>1 DEF LifeOK, StartupPending, Closing
  <2>6. CleanOK'
    BY <1>1, <1>2, <2>1, <2>3 DEF CleanOK
  <2>7. WritersOK' BY <1>1, <2>1, <2>2, InvFacts, WritersKept DEF Data
  <2>8. TrafficOK' BY <1>1, <2>2, TrafficKept DEF Data
  <2> QED BY <2>2, <2>4, <2>5, <2>6, <2>7, <2>8, SafeParts DEF ControlOK
<1>4. CASE ~ Closing
  <2>1. /\ startup' = "calling" /\ tasks' = {"reader", "waiter"} /\ Enqueue(Initialize, "undone")
        /\ UNCHANGED <<lifecycle, error, cleanup>>
    BY <1>4 DEF Spawn
  <2>2. lifecycle = "starting" /\ cleanup = "none" /\ ops[Initialize].stage = "idle"
    BY <1>2, <1>4 DEF Untouched, Closing
  <2>3. Data /\ WritersOK'
    BY <1>1, <1>4, <2>1, <2>2, EnqueueData, Words
  <2>4. ControlTypeOK'
    BY <1>1, <2>1, InvFacts DEF ControlTypeOK
  <2>5. LifeOK'
    BY <1>1, <1>4, <2>1, <2>2, InvFacts DEF LifeOK, StartupPending, Closing
  <2>6. CleanOK'
    BY <1>1, <2>1, <2>2 DEF CleanOK
  <2>7. TrafficOK' BY <1>1, <2>3, TrafficKept DEF Data
  <2> QED BY <2>3, <2>4, <2>5, <2>6, <2>7, SafeParts DEF ControlOK
<1> QED BY <1>3, <1>4

LEMMA SpawnFailsSafe == ClientInv /\ SpawnFails => Safe
<1> SUFFICES ASSUME ClientInv, SpawnFails PROVE Safe
  OBVIOUS
<1>1. /\ startup = "spawning" /\ startup' = "failed" /\ RecordError("startup", ops)
      /\ UNCHANGED <<explicit, nextId, writers, draining, held, tasks,
                     queues, process, wire, stdout, answered>>
  BY DEF SpawnFails, peerVars
<1>2. Data /\ Moves /\ Closing' /\ ops'[Initialize].stage = ops[Initialize].stage
  BY <1>1, RecordPlain, Words DEF ErrorWords
<1>3. StaysUntouched
  BY <1>1, <1>2, InvFacts DEF StaysUntouched, LifeOK, Untouched
<1>4. ControlOK' BY <1>1, <1>2, <1>3, ControlKept DEF WritesInTime
<1>5. WritersOK' BY <1>1, <1>2, InvFacts, WritersKept DEF Data
<1>6. TrafficOK' BY <1>1, <1>2, TrafficKept DEF Data
<1> QED BY <1>2, <1>4, <1>5, <1>6, SafeParts

\* The answer to initialize has come, and "initialized" is to be written.
LEMMA GreetingStep ==
    ASSUME OpsOK(ops, nextId)
    PROVE  OpsStep(Staged(Return(ops, Initialize, Initialize), Initialized, "writing"))
<1> DEFINE p == Return(ops, Initialize, Initialize)
           q == Staged(p, Initialized, "writing")
<1>1. OpsStep(p) BY Words, ReturnStep
<1> HIDE DEF p
<1>2. OpsOK(p, nextId) BY <1>1 DEF OpsStep
<1>3. /\ OpsOK(q, nextId) /\ States(q) = States(p) /\ Entered(p) \subseteq Entered(q)
      /\ \A c \in Ops : q[c].id = p[c].id /\ q[c].future = p[c].future
  <2>1. Initialized \in Ops /\ Initialized \notin Requests /\ "writing" \in {"writing", "waiting"}
    BY Words
  <2>2. Initialized \in Entered(p) BY <2>1 DEF Entered
  <2> QED BY <1>2, <2>1, <2>2, StageStep
<1> SUFFICES OpsStep(q) BY DEF p
<1> HIDE DEF q
<1>4. NobodyWaits(p) => NobodyWaits(q) BY <1>3 DEF NobodyWaits
<1>5. SettleOne(ops, q) BY <1>1, <1>3 DEF OpsStep, SettleOne
<1> QED BY <1>1, <1>3, <1>4, <1>5 DEF OpsStep

LEMMA StartupResumesSafe == ClientInv /\ StartupResumes => Safe
<1> SUFFICES ASSUME ClientInv, StartupResumes PROVE Safe
  OBVIOUS
<1> DEFINE p == Return(ops, Initialize, "failed")
           q == Staged(Return(ops, Initialize, Initialize), Initialized, "writing")
<1>1. /\ startup = "calling"
      /\ UNCHANGED <<explicit, nextId, draining, held, tasks, queues, process, wire, stdout,
                     answered>>
  BY DEF StartupResumes, peerVars
<1>2. \/ ~ Closing /\ Only(q) /\ UNCHANGED startup /\ writers' = Append(writers, Initialized)
      \/ startup' = "failed" /\ RecordError("startup", p) /\ UNCHANGED writers
      \/ /\ ~ Closing /\ startup' = "ok" /\ lifecycle' = "running"
         /\ UNCHANGED <<error, cleanup, ops, writers>>
      \/ startup' = "failed" /\ RecordError("startup", ops) /\ UNCHANGED writers
  BY DEF StartupResumes, Only, Staged
<1>3. OpsStep(q) BY InvFacts, GreetingStep
<1>4. OpsStep(p) /\ ShutAll(ops, FailPending(p))
  <2>1. "failed" \in Told \cup Requests /\ "failed" \notin Requests
    BY Words DEF Told
  <2> QED BY <2>1, InvFacts, Words, ReturnStep
<1> HIDE DEF p, q
<1>5. StaysUntouched BY <1>1 DEF StaysUntouched
<1>6. CASE ~ Closing /\ Only(q) /\ UNCHANGED startup /\ writers' = Append(writers, Initialized)
  <2>1. Data /\ Moves BY <1>1, <1>3, <1>6, OnlyData
  <2>2. cleanup' = "none" /\ held
    BY <1>1, <1>6, InvFacts DEF Only, LifeOK, CleanOK
  <2>3. ControlOK'
    BY <1>1, <1>5, <1>6, <2>1, <2>2, ControlKept DEF WritesInTime
  <2>4. WritersOK'
    <3>1. writers \in Seq(Entered(ops')) BY <2>1, InvFacts, SeqGrows DEF WritersOK, Data
    <3>2. Initialized \in Entered(ops') BY Words DEF Entered
    <3>3. writers' \in Seq(Entered(ops')) /\ writers' # <<>>
      BY <1>6, <3>1, <3>2, AppendProperties
    <3>4. draining' \in BOOLEAN BY <1>1, InvFacts DEF WritersOK
    <3> QED BY <3>3, <3>4, Zenon DEF WritersOK
  <2>5. TrafficOK' BY <1>1, <2>1, TrafficKept DEF Data
  <2> QED BY <2>1, <2>3, <2>4, <2>5, SafeParts
<1>7. CASE startup' = "failed" /\ UNCHANGED writers
           /\ (RecordError("startup", p) \/ RecordError("startup", ops))
  <2>1. Data /\ Moves /\ Closing'
    BY <1>1, <1>4, <1>7, RecordData, RecordPlain DEF ErrorWords
  <2>2. ControlOK' BY <1>1, <1>5, <1>7, <2>1, ControlKept DEF WritesInTime
  <2>3. WritersOK' BY <1>1, <1>7, <2>1, InvFacts, WritersKept DEF Data
  <2>4. TrafficOK' BY <1>1, <2>1, TrafficKept DEF Data
  <2> QED BY <2>1, <2>2, <2>3, <2>4, SafeParts
<1>8. CASE ~ Closing /\ startup' = "ok" /\ lifecycle' = "running"
           /\ UNCHANGED <<error, cleanup, ops, writers>>
  <2>1. lifecycle = "starting" /\ cleanup = "none"
    BY <1>1, <1>8, InvFacts DEF LifeOK, StartupPending, Closing
  <2>2. OpsOK(ops', nextId') BY <1>1, <1>8, InvFacts
  <2>3. IdsOK BY <1>1, <1>8, SameIds
  <2>4. LinkStep BY <1>8, <2>1, LinkCalls DEF LinkStep
  <2>5. ~ Closing' BY <1>8 DEF Closing
  <2>6. Data BY <1>8, <2>2, <2>3, <2>4, <2>5 DEF Data
  <2>7. ControlTypeOK' BY <1>1, <1>8, InvFacts DEF ControlTypeOK
  <2>8. LifeOK'
    BY <1>1, <1>8, <2>1, <2>5, InvFacts DEF LifeOK, StartupPending
  <2>9. CleanOK' BY <1>1, <1>8, <2>1, InvFacts DEF CleanOK
  <2>10. WritersOK' BY <1>1, <1>8, InvFacts, WritersKept
  <2>11. TrafficOK' BY <1>1, <2>2, <2>3, TrafficKept
  <2> QED BY <2>6, <2>7, <2>8, <2>9, <2>10, <2>11, SafeParts DEF ControlOK
<1> QED BY <1>2, <1>6, <1>7, <1>8

-----------------------------------------------------------------------------
(* The actions of the callers.                                               *)

\* Before there is a process nobody writes, reads or waits.
NotYet(p) ==
    startup \in {"none", "spawning"} =>
        /\ UNCHANGED <<writers, draining, tasks, wire, stdout>>
        /\ p[Initialize].stage = ops[Initialize].stage

\* The operations become p; perhaps it was an error that the client records.
LEMMA StepSafe ==
    ASSUME ClientInv, NEW p, OpsStep(p),
           Only(p) \/ \E err \in ErrorWords : RecordError(err, p) /\ ShutAll(ops, FailPending(p)),
           UNCHANGED <<explicit, nextId, startup, held, process>>, tasks' \subseteq tasks,
           writers = <<>> => writers' = <<>>, NotYet(p)
    PROVE  /\ Data /\ ControlOK'
           /\ WritersOK' /\ UNCHANGED <<queues, answered, wire, stdout>> => Safe
<1>1. Data /\ Moves /\ \A c \in Ops : ops'[c].stage = p[c].stage
  <2>1. CASE Only(p) BY <2>1, OnlyData
  <2>2. CASE \E err \in ErrorWords : RecordError(err, p) /\ ShutAll(ops, FailPending(p))
    BY <2>2, RecordData
  <2> QED BY <2>1, <2>2
<1>2. StaysUntouched
  BY <1>1, InvFacts, Words DEF StaysUntouched, NotYet, LifeOK, Untouched
<1>3. ControlOK' BY <1>1, <1>2, ControlKept DEF WritesInTime
<1>4. UNCHANGED <<queues, answered, wire, stdout>> => TrafficOK'
  BY <1>1, TrafficKept DEF Data
<1> QED BY <1>1, <1>3, <1>4, SafeParts

\* Whoever writes, or watches the process, has a process.
LEMMA NotYetFacts ==
    ASSUME ClientInv, writers # <<>> \/ tasks # {} PROVE startup \notin {"none", "spawning"}
  BY InvFacts DEF LifeOK, Untouched

LEMMA ToldFacts ==
    {"failed", "sent"} \subseteq Told \cup Requests /\ {"failed", "sent"} \cap Requests = {}
  BY Words DEF Told

LEMMA WritersTail ==
    ASSUME WritersOK, writers # <<>>, writers' = Tail(writers), ~ draining', draining' \in BOOLEAN,
           Entered(ops) \subseteq Entered(ops')
    PROVE  WritersOK'
<1>1. Tail(writers) \in Seq(Entered(ops))
  BY HeadTailProperties DEF WritersOK
<1>2. writers' \in Seq(Entered(ops')) BY <1>1, SeqGrows
<1> QED BY <1>2, Zenon DEF WritersOK

LEMMA CallSafe == ASSUME ClientInv, NEW o \in Ops, Call(o) PROVE Safe
<1> DEFINE p == Return(ops, o, "failed")
<1>1. /\ ops[o].stage = "idle" /\ o \in Calls \cup Replies /\ o # Initialize
      /\ UNCHANGED <<explicit, draining, startup, held, tasks, queues, process, wire, stdout,
                     answered>>
  BY Words DEF Call, peerVars
<1>2. CASE lifecycle = "running" /\ process # "reaped"
  <2> DEFINE f == IF o \in Calls THEN "undone" ELSE "none"
  <2>1. Enqueue(o, f) /\ UNCHANGED <<lifecycle, error, cleanup>>
    BY <1>2 DEF Call
  <2>2. f \in {"none", "undone"} /\ (f = "undone" <=> o \in Requests)
    BY <1>1, Words
  <2>3. ~ Closing BY <1>2 DEF Closing
  <2> HIDE DEF f
  <2>4. Data /\ Moves /\ WritersOK'
    BY <1>1, <1>2, <2>1, <2>2, <2>3, EnqueueData
  <2>5. startup = "ok" /\ cleanup = "none" /\ held
    BY <1>2, <2>3, InvFacts DEF LifeOK, CleanOK
  <2>6. ControlOK'
    BY <1>1, <2>1, <2>4, <2>5, ControlKept DEF WritesInTime, StaysUntouched
  <2>7. TrafficOK' BY <1>1, <2>4, TrafficKept DEF Data
  <2> QED BY <2>4, <2>6, <2>7, SafeParts
<1>3. CASE ~ (lifecycle = "running" /\ process # "reaped")
  <2>1. OpsStep(p) /\ p[Initialize] = ops[Initialize] /\ ShutAll(ops, FailPending(p))
    BY <1>1, InvFacts, Words, ToldFacts, ReturnStep
  <2>2. (Only(p) \/ RecordError("exited", p)) /\ UNCHANGED <<nextId, writers>>
    BY <1>3 DEF Call
  <2> HIDE DEF p
  <2>3. NotYet(p) BY <1>1, <2>1, <2>2 DEF NotYet
  <2>4. Data /\ (WritersOK' => Safe) BY <1>1, <2>1, <2>2, <2>3, StepSafe DEF ErrorWords
  <2> QED BY <1>1, <2>2, <2>4, InvFacts, WritersKept DEF Data
<1> QED BY <1>2, <1>3

LEMMA WriteSafe == ASSUME ClientInv, NEW o, Write(o) PROVE Safe
<1> DEFINE p == Return(ops, o, "failed")
<1>1. /\ writers # <<>> /\ o = Head(writers) /\ ~ draining
      /\ UNCHANGED <<explicit, nextId, startup, held, tasks, queues, process, stdout, answered>>
  BY DEF Write
<1>2. WritersOK /\ startup \notin {"none", "spawning"} /\ o \in Entered(ops) /\ o \in Ops
  <2>1. o \in Entered(ops) BY <1>1, InvFacts, HeadTailProperties DEF WritersOK
  <2> QED BY <1>1, <2>1, InvFacts, NotYetFacts DEF Entered
<1>3. CASE Closing \/ process = "reaped"
  <2>1. Only(p) /\ writers' = Tail(writers) /\ UNCHANGED <<draining, wire>>
    BY <1>3 DEF Write
  <2>2. OpsStep(p) BY <1>2, InvFacts, ToldFacts, ReturnStep
  <2> HIDE DEF p
  <2>3. draining' \in BOOLEAN /\ ~ draining' BY <1>1, <1>2, <2>1 DEF WritersOK
  <2>4. Data /\ (WritersOK' => Safe)
    BY <1>1, <1>2, <2>1, <2>2, StepSafe DEF NotYet
  <2> QED BY <1>1, <1>2, <2>1, <2>3, <2>4, WritersTail DEF Data
<1>4. CASE ~ (Closing \/ process = "reaped")
  <2>1. /\ draining' = TRUE /\ UNCHANGED <<ops, writers, lifecycle, error, cleanup>>
        /\ wire' \subseteq wire \cup {<<o, ops[o].id>>}
    BY <1>4 DEF Write
  <2>2. WritersOK'
    <3>1. writers' \in Seq(Entered(ops')) /\ writers' # <<>> BY <1>1, <1>2, <2>1 DEF WritersOK
    <3> QED BY <2>1, <3>1, Zenon DEF WritersOK
  <2>3. OpsStep(ops) /\ Only(ops) BY <2>1, InvFacts, SameOps DEF Only
  <2>4. Data /\ ControlOK'
    BY <1>1, <1>2, <2>1, <2>3, StepSafe DEF NotYet
  <2>5. Belongs(o, ops[o].id) /\ <<o, ops[o].id>> \in Ops \X Nat
    <3>1. ops[o] \in Op /\ ops[o].id < nextId
      BY <1>2, InvFacts DEF OpsOK, OneOK
    <3>2. ops[o].id \in Nat BY <3>1, OpFields
    <3>3. \A c \in Ops : ops[c].id = ops[o].id /\ ops[o].id # 0 => c = o
      BY <1>2, InvFacts DEF OpsOK
    <3> QED BY <1>2, <3>1, <3>2, <3>3 DEF Belongs
  <2>6. TrafficOK'
    <3>1. TrafficOK BY InvFacts
    <3>2. wire' \subseteq Ops \X Nat BY <2>1, <2>5, <3>1 DEF TrafficOK
    <3>3. \A m \in wire' : Belongs(m[1], m[2])
      BY <2>1, <2>5, <3>1 DEF TrafficOK, WireOK
    <3>4. \A a, id : Belongs(a, id)' = Belongs(a, id) BY <1>1, <2>1 DEF Belongs
    <3>5. WireOK'
      <4>1. \A m \in wire' : Belongs(m[1], m[2])' BY <3>3, <3>4
      <4>2. \A k \in 1 .. Len(stdout) :
               stdout[k][1] = "answer" => Belongs(stdout[k][3], stdout[k][2])
        BY <3>1 DEF TrafficOK, WireOK
      <4> QED BY <1>1, <2>1, <4>1, <4>2 DEF WireOK, Belongs
    <3> QED BY <1>1, <3>1, <3>2, <3>5 DEF TrafficOK
  <2> QED BY <2>2, <2>4, <2>6, SafeParts
<1> QED BY <1>3, <1>4

LEMMA DrainEndsSafe == ASSUME ClientInv, NEW o, DrainEnds(o) PROVE Safe
<1>1. /\ writers # <<>> /\ o = Head(writers) /\ draining' = FALSE /\ writers' = Tail(writers)
      /\ UNCHANGED <<explicit, nextId, startup, held, tasks, queues, process, wire, stdout,
                     answered>>
  BY DEF DrainEnds, peerVars
<1>2. WritersOK /\ startup \notin {"none", "spawning"} /\ o \in Entered(ops) /\ o \in Ops
  <2>1. o \in Entered(ops) BY <1>1, InvFacts, HeadTailProperties DEF WritersOK
  <2> QED BY <1>1, <2>1, InvFacts, NotYetFacts DEF Entered
<1>3. draining' \in BOOLEAN /\ ~ draining' BY <1>1, Zenon
<1>4. Data => WritersOK' BY <1>1, <1>2, <1>3, WritersTail DEF Data
<1>5. CASE o \in Requests /\ Only(Staged(ops, o, "waiting"))
  <2> DEFINE p == Staged(ops, o, "waiting")
  <2>1. "waiting" \in {"writing", "waiting"} OBVIOUS
  <2>2. /\ OpsOK(p, nextId) /\ SettleOne(ops, p)
        /\ \A c \in Ops : p[c].id = ops[c].id /\ p[c].future = ops[c].future
        /\ Entered(ops) \subseteq Entered(p)
    BY <1>2, <2>1, InvFacts, StageStep
  <2> HIDE DEF p
  <2>3. OpsStep(p) BY <2>2 DEF OpsStep, NobodyWaits
  <2>4. Only(p) BY <1>5 DEF p
  <2> QED BY <1>1, <1>2, <1>4, <2>3, <2>4, StepSafe DEF NotYet
<1>6. CASE \E t \in {"sent", "failed"} : \/ Only(Return(ops, o, t))
                                         \/ RecordError("exited", Return(ops, o, t))
  <2>1. PICK t \in {"sent", "failed"} : \/ Only(Return(ops, o, t))
                                        \/ RecordError("exited", Return(ops, o, t))
    BY <1>6
  <2> DEFINE p == Return(ops, o, t)
  <2>2. OpsStep(p) /\ ShutAll(ops, FailPending(p))
    BY <1>2, InvFacts, ToldFacts, ReturnStep
  <2>3. Only(p) \/ RecordError("exited", p) BY <2>1
  <2> HIDE DEF p
  <2> QED BY <1>1, <1>2, <1>4, <2>2, <2>3, StepSafe DEF NotYet, ErrorWords
<1> QED BY <1>5, <1>6 DEF DrainEnds, Staged

\* A caller that waits gets an answer or gives up.
LEMMA EndsSafe == ASSUME ClientInv, NEW o, CallReturns(o) \/ Timeout(o) PROVE Safe
<1>1. /\ o \in Calls /\ ops[o].stage = "waiting"
      /\ UNCHANGED <<explicit, nextId, writers, draining, startup, held, tasks, queues, process,
                     wire, stdout, answered>>
  BY DEF CallReturns, Timeout, peerVars
<1>2. PICK t : /\ Only(Return(ops, o, t))
               /\ t = "failed" \/ (t = ops[o].future /\ t # "undone")
  BY DEF CallReturns, Timeout
<1>3. o \in Ops /\ o \in Requests /\ o # Initialize BY <1>1, Words
<1>4. OneOK(o, ops[o], nextId) /\ ops[o].future \in Futures
  BY <1>3, InvFacts, OpFields DEF OpsOK, OneOK
<1>5. t \in Told \cup Requests /\ (t \in Requests => t = o)
  BY <1>1, <1>2, <1>3, <1>4, ToldFacts DEF OneOK, Futures
<1> DEFINE p == Return(ops, o, t)
<1>6. OpsStep(p) /\ p[Initialize] = ops[Initialize]
  BY <1>3, <1>5, InvFacts, Words, ReturnStep
<1>7. Only(p) BY <1>2
<1> HIDE DEF p
<1>8. NotYet(p) BY <1>1, <1>6 DEF NotYet
<1>9. Data /\ (WritersOK' => Safe) BY <1>1, <1>6, <1>7, <1>8, StepSafe
<1> QED BY <1>1, <1>9, InvFacts, WritersKept DEF Data

\* What is left of the queue when its k-th entry is taken out.
LEMMA TakenOut ==
    ASSUME NEW S, NEW w \in Seq(S), NEW k \in 1 .. Len(w)
    PROVE  LET v == SubSeq(w, 1, k - 1) \o SubSeq(w, k + 1, Len(w)) IN
           v \in Seq(S) /\ (k # 1 => v # <<>>)
<1> DEFINE a == SubSeq(w, 1, k - 1)
           b == SubSeq(w, k + 1, Len(w))
<1>1. Len(w) \in Nat /\ k \in Nat /\ \A i \in 1 .. Len(w) : w[i] \in S
  BY ElementOfSeq, LenProperties
<1>2. a \in Seq(S) /\ Len(a) = IF 1 <= k - 1 THEN k - 1 ELSE 0
  <2>1. 1 \in Int /\ k - 1 \in Int /\ \A i \in 1 .. k - 1 : w[i] \in S BY <1>1
  <2> QED BY <2>1, SubSeqProperties
<1>3. b \in Seq(S)
  <2>1. k + 1 \in Int /\ Len(w) \in Int /\ \A i \in k + 1 .. Len(w) : w[i] \in S BY <1>1
  <2> QED BY <2>1, SubSeqProperties
<1> HIDE DEF a, b
<1>4. a \o b \in Seq(S) /\ Len(a \o b) = Len(a) + Len(b) /\ Len(b) \in Nat
  BY <1>2, <1>3, ConcatProperties, LenProperties
<1>5. k # 1 => Len(a \o b) # 0
  BY <1>1, <1>2, <1>4
<1>6. k # 1 => a \o b # <<>>
  BY <1>5, EmptySeq
<1> QED BY <1>4, <1>6 DEF a, b

LEMMA CancelSafe == ASSUME ClientInv, NEW o, Cancel(o) PROVE Safe
<1> DEFINE p == Return(ops, o, "failed")
<1>1. /\ o \in Calls \cup Replies /\ Only(p)
      /\ UNCHANGED <<explicit, nextId, startup, held, tasks, queues, process, wire, stdout,
                     answered>>
  BY DEF Cancel, peerVars
<1>2. o \in Ops /\ o # Initialize BY <1>1, Words
<1>3. OpsStep(p) /\ p[Initialize] = ops[Initialize]
  BY <1>2, InvFacts, Words, ToldFacts, ReturnStep
<1> HIDE DEF p
<1>4. CASE UNCHANGED <<writers, draining>>
  <2>1. NotYet(p) BY <1>1, <1>3, <1>4 DEF NotYet
  <2>2. Data /\ (WritersOK' => Safe) BY <1>1, <1>3, <1>4, <2>1, StepSafe
  <2> QED BY <1>4, <2>2, InvFacts, WritersKept DEF Data
<1>5. CASE \E k \in 1 .. Len(writers) :
              /\ writers' = SubSeq(writers, 1, k - 1) \o SubSeq(writers, k + 1, Len(writers))
              /\ draining' = (draining /\ k # 1)
  <2>1. PICK k \in 1 .. Len(writers) :
              /\ writers' = SubSeq(writers, 1, k - 1) \o SubSeq(writers, k + 1, Len(writers))
              /\ draining' = (draining /\ k # 1)
    BY <1>5
  <2>2. writers \in Seq(Entered(ops)) BY InvFacts DEF WritersOK
  <2>3. writers' \in Seq(Entered(ops)) /\ (k # 1 => writers' # <<>>)
    BY <2>1, <2>2, TakenOut
  <2>4. writers # <<>> BY <2>1
  <2>5. NotYet(p) BY <2>4, NotYetFacts DEF NotYet
  <2>6. Data /\ (WritersOK' => Safe) BY <1>1, <1>3, <2>4, <2>5, StepSafe
  <2>7. writers' \in Seq(Entered(ops')) BY <2>3, <2>6, SeqGrows DEF Data
  <2>8. draining' \in BOOLEAN /\ (draining' => writers' # <<>>)
    BY <2>1, <2>3, Zenon
  <2> QED BY <2>6, <2>7, <2>8, Zenon DEF WritersOK
<1> QED BY <1>4, <1>5 DEF Cancel

-----------------------------------------------------------------------------
(* The tasks that watch the process, and the queues.                         *)

\* Lines of stdout are read from the front or thrown away.
LEMMA TrafficRead ==
    ASSUME ClientInv, IdsOK, OpsOK(ops', nextId'), UNCHANGED <<answered, wire>>,
           queues' \in [Queues -> 0 .. Capacity],
           stdout' = <<>> \/ (stdout # <<>> /\ stdout' = Tail(stdout))
    PROVE  TrafficOK'
<1>1. TrafficOK BY InvFacts
<1>2. \A m \in wire : m[2] \in Nat
  BY <1>1 DEF TrafficOK
<1>3. \A m \in wire : Belongs(m[1], m[2])'
  BY <1>1, <1>2, BelongsKept DEF TrafficOK, WireOK
<1>4. /\ stdout' \in Seq(Lines)
      /\ \A k \in 1 .. Len(stdout') : \E i \in 1 .. Len(stdout) : stdout'[k] = stdout[i]
  <2>1. CASE stdout' = <<>> BY <2>1
  <2>2. CASE stdout # <<>> /\ stdout' = Tail(stdout)
    <3>1. stdout \in Seq(Lines) BY <1>1 DEF TrafficOK
    <3>2. /\ stdout' \in Seq(Lines) /\ Len(stdout') = Len(stdout) - 1
          /\ \A k \in 1 .. Len(stdout') : stdout'[k] = stdout[k + 1]
      BY <2>2, <3>1, HeadTailProperties
    <3>3. Len(stdout) \in Nat BY <3>1, LenProperties
    <3> QED BY <3>2, <3>3
  <2> QED BY <2>1, <2>2
<1>5. \A i \in 1 .. Len(stdout) :
         /\ stdout[i] \in Lines
         /\ stdout[i][1] = "answer" => Belongs(stdout[i][3], stdout[i][2])
  BY <1>1 DEF TrafficOK, WireOK
<1>6. ASSUME NEW k \in 1 .. Len(stdout'), stdout'[k][1] = "answer"
      PROVE  Belongs(stdout[k][3], stdout[k][2])'
  <2>1. PICK i \in 1 .. Len(stdout) : stdout'[k] = stdout[i] BY <1>4
  <2> DEFINE l == stdout[i]
  <2>2. l \in Lines /\ l[1] = "answer" /\ Belongs(l[3], l[2]) BY <1>5, <1>6, <2>1
  <2>3. l[2] \in Nat BY <2>2, LineFacts
  <2>4. stdout'[k][3] = l[3] /\ stdout'[k][2] = l[2] BY <2>1
  <2> HIDE DEF l
  <2>5. nextId' >= nextId /\ nextId' \in Nat /\ nextId \in Nat
    BY InvFacts DEF IdsOK, OpsOK
  <2>6. l[2] < nextId' /\ (l[2] # 0 => \A c \in Ops : ops'[c].id = l[2] => c = l[3])
    BY <2>2, <2>3, <2>5 DEF Belongs, IdsOK
  <2> QED BY <2>4, <2>6 DEF Belongs
<1>7. WireOK'
  BY <1>3, <1>6 DEF WireOK
<1> QED BY <1>1, <1>4, <1>7 DEF TrafficOK

LEMMA ReadLineSafe == ClientInv /\ ReadLine => Safe
<1> SUFFICES ASSUME ClientInv, ReadLine PROVE Safe
  OBVIOUS
<1> DEFINE line == Head(stdout)
           p == Deliver(line[2], line[3])
<1>1. /\ tasks # {} /\ stdout # <<>> /\ stdout' = Tail(stdout)
      /\ UNCHANGED <<explicit, nextId, writers, draining, startup, held, process, wire, answered>>
  BY DEF ReadLine
<1>2. startup \notin {"none", "spawning"} BY <1>1, NotYetFacts
<1>3. TrafficOK BY InvFacts
<1>4. stdout[1] = line /\ 1 \in 1 .. Len(stdout) /\ line \in Lines
  BY <1>1, <1>3, HeadTailProperties DEF TrafficOK
<1>5. line[1] = "answer" => line[3] \in Requests /\ Belongs(line[3], line[2])
  BY <1>3, <1>4, LineFacts DEF TrafficOK, WireOK
<1>6. \/ line[1] = "answer" /\ Only(p) /\ UNCHANGED <<queues, tasks>>
      \/ /\ line[1] = "message" /\ queues[line[2]] < Capacity
         /\ queues' = [queues EXCEPT ![line[2]] = @ + 1] /\ Only(ops) /\ UNCHANGED tasks
      \/ RecordError("protocol", ops) /\ tasks' \subseteq tasks /\ UNCHANGED queues
  BY DEF ReadLine
<1>7. OpsStep(ops) /\ ShutAll(ops, FailPending(ops))
  BY InvFacts, SameOps, ShutFail, Words
<1>8. line[1] = "answer" => OpsStep(p)
  BY <1>5, InvFacts, DeliverStep
<1>9. queues' \in [Queues -> 0 .. Capacity]
  <2>1. queues \in [Queues -> 0 .. Capacity] /\ Capacity \in Nat
    BY <1>3, CapacityAssumption DEF TrafficOK
  <2>2. line[1] = "message" => line[2] \in Queues BY <1>4, LineFacts
  <2> HIDE DEF line, p
  <2>3. CASE UNCHANGED queues BY <2>1, <2>3
  <2>4. CASE /\ line[1] = "message" /\ queues[line[2]] < Capacity
             /\ queues' = [queues EXCEPT ![line[2]] = @ + 1]
    <3>1. queues[line[2]] + 1 \in 0 .. Capacity BY <2>1, <2>2, <2>4
    <3> QED BY <2>1, <2>4, <3>1
  <2> QED BY <1>6, <2>3, <2>4
<1> HIDE DEF line, p
<1>10. Data /\ ControlOK'
  <2>1. CASE OpsStep(p) /\ Only(p) /\ UNCHANGED tasks
    <3>1. NotYet(p) BY <1>2 DEF NotYet
    <3> QED BY <1>1, <2>1, <3>1, StepSafe
  <2>2. CASE (Only(ops) \/ RecordError("protocol", ops)) /\ tasks' \subseteq tasks
    <3>1. NotYet(ops) BY <1>2 DEF NotYet
    <3> QED BY <1>1, <1>7, <2>2, <3>1, StepSafe DEF ErrorWords
  <2> QED BY <1>6, <1>8, <2>1, <2>2
<1>11. WritersOK' BY <1>1, <1>10, InvFacts, WritersKept DEF Data
<1>12. TrafficOK' BY <1>1, <1>9, <1>10, TrafficRead DEF Data
<1> QED BY <1>10, <1>11, <1>12, SafeParts

LEMMA TaskSeesExitSafe == ASSUME ClientInv, NEW t, TaskSeesExit(t) PROVE Safe
<1>1. /\ tasks # {} /\ RecordError("exited", ops) /\ tasks' \subseteq tasks
      /\ UNCHANGED <<explicit, nextId, writers, draining, startup, held, queues, process, wire,
                     stdout, answered>>
  BY DEF TaskSeesExit, peerVars
<1>2. NotYet(ops) BY <1>1, NotYetFacts DEF NotYet
<1>3. OpsStep(ops) /\ ShutAll(ops, FailPending(ops))
  BY InvFacts, SameOps, ShutFail, Words
<1>4. Data /\ (WritersOK' => Safe) BY <1>1, <1>2, <1>3, StepSafe DEF ErrorWords
<1> QED BY <1>1, <1>4, InvFacts, WritersKept DEF Data

LEMMA TakeSafe == ASSUME ClientInv, NEW q \in Queues, Take(q) PROVE Safe
<1>1. /\ queues[q] > 0 /\ queues' = [queues EXCEPT ![q] = @ - 1]
      /\ UNCHANGED <<lifecycle, explicit, error, nextId, ops, writers, draining, startup, held,
                     tasks, cleanup, process, wire, stdout, answered>>
  BY DEF Take, peerVars
<1>2. OpsStep(ops) /\ Only(ops) BY <1>1, InvFacts, SameOps DEF Only
<1>3. Data /\ ControlOK'
  BY <1>1, <1>2, StepSafe DEF NotYet
<1>4. WritersOK' BY <1>1, <1>3, InvFacts, WritersKept DEF Data
<1>5. TrafficOK'
  <2>1. TrafficOK BY InvFacts
  <2>2. queues[q] - 1 \in 0 .. Capacity
    BY <1>1, <2>1, CapacityAssumption DEF TrafficOK
  <2>3. queues' \in [Queues -> 0 .. Capacity] BY <1>1, <2>1, <2>2 DEF TrafficOK
  <2>4. WireOK' BY <1>1, <2>1 DEF TrafficOK, WireOK, Belongs
  <2> QED BY <1>1, <2>1, <2>3, <2>4 DEF TrafficOK
<1> QED BY <1>3, <1>4, <1>5, SafeParts

-----------------------------------------------------------------------------
(* close and the cleanup coordinator.                                        *)

LEMMA CloseSafe == ClientInv /\ Close => Safe
<1> SUFFICES ASSUME ClientInv, Close PROVE Safe
  OBVIOUS
<1> DEFINE p == FailPending(ops)
<1>1. /\ lifecycle # "closed" /\ lifecycle' = "closing" /\ explicit' = TRUE /\ ops' = p
      /\ cleanup' = IF cleanup = "none" THEN "begin" ELSE cleanup
      /\ UNCHANGED <<error, nextId, writers, draining, startup, held, tasks, queues, process,
                     wire, stdout, answered>>
  BY DEF Close, BeginCleanup, peerVars
<1>2. /\ OpsOK(p, nextId) /\ NobodyWaits(p) /\ Entered(ops) \subseteq Entered(p)
      /\ \A c \in Ops : p[c].stage = ops[c].stage /\ p[c].id = ops[c].id
      /\ ShutAll(ops, p)
  BY InvFacts, FailFacts, ShutFail, Words
<1>3. Closing => p = ops BY InvFacts, FailNone
<1> HIDE DEF p
<1>4. LinkStep
  <2>1. CASE ~ Closing
    <3>1. Shuts BY <1>1, <1>2, <2>1, InvFacts DEF Shuts
    <3> QED BY <3>1, LinkShuts DEF LinkStep
  <2>2. CASE Closing
    <3>1. ops' = ops /\ lifecycle' = lifecycle BY <1>1, <1>3, <2>2 DEF Closing
    <3> QED BY <3>1 DEF LinkStep, Link!vars
  <2> QED BY <2>1, <2>2
<1>5. IdsOK BY <1>1, <1>2, SameIds
<1>6. Data BY <1>1, <1>2, <1>4, <1>5 DEF Data
<1>7. Closing' BY <1>1 DEF Closing
<1>8. Moves
  <2>1. Closing => lifecycle = "closing" /\ cleanup # "none"
    BY <1>1, InvFacts DEF LifeOK, Closing
  <2>2. ~ Closing => cleanup = "none" BY InvFacts DEF LifeOK
  <2> QED BY <1>1, <2>1, <2>2, InvFacts DEF Moves
<1>9. StaysUntouched
  BY <1>1, <1>2, InvFacts, Words DEF StaysUntouched, LifeOK, Untouched
<1>10. ControlOK' BY <1>1, <1>6, <1>7, <1>8, <1>9, ControlKept DEF WritesInTime
<1>11. WritersOK' BY <1>1, <1>6, InvFacts, WritersKept DEF Data
<1>12. TrafficOK' BY <1>1, <1>6, TrafficKept DEF Data
<1> QED BY <1>6, <1>10, <1>11, <1>12, SafeParts

\* Steps that leave the life cycle alone.
LEMMA StepData ==
    ASSUME ClientInv, OpsStep(ops'), UNCHANGED <<nextId, lifecycle>> PROVE Data
<1>1. IdsOK BY SameIds DEF OpsStep
<1>2. CallsKept BY DEF CallsKept, OpsStep
<1>3. Closing' => NobodyWaits(ops') BY InvFacts DEF Closing, OpsStep
<1> QED BY <1>1, <1>2, <1>3, LinkCallsKept DEF Data, LinkStep, OpsStep

\* While the cleanup runs the client is closing.
LEMMA CleanupFacts ==
    ASSUME ClientInv, cleanup \notin {"none", "done"} PROVE lifecycle = "closing" /\ Closing
  BY InvFacts DEF LifeOK, Closing

\* The cleanup goes from one step to the next.
LEMMA CleanupLife ==
    ASSUME ClientInv, Data, cleanup \notin {"none", "done"}, cleanup' \notin {"none", "done"},
           UNCHANGED <<lifecycle, explicit, error, startup>>,
           StaysUntouched
    PROVE  LifeOK'
<1>1. lifecycle = "closing" /\ lifecycle' = "closing" /\ Closing' /\ NobodyWaits(ops')
  BY CleanupFacts DEF Closing, Data
<1> QED BY <1>1, InvFacts DEF LifeOK, StartupPending, StaysUntouched

LEMMA CancelTasksSafe == ClientInv /\ CancelTasks => Safe
<1> SUFFICES ASSUME ClientInv, CancelTasks PROVE Safe
  OBVIOUS
<1>1. /\ cleanup = "begin" /\ (held \/ ~ StartupPending)
      /\ cleanup' = (IF held THEN "drains" ELSE "end") /\ tasks' = {} /\ stdout' = <<>>
      /\ UNCHANGED <<lifecycle, explicit, error, nextId, ops, writers, draining, startup, held,
                     queues, process, wire, answered>>
  BY DEF CancelTasks
<1>2. Data BY <1>1, InvFacts, SameOps, StepData
<1>3. ControlTypeOK' BY <1>1, InvFacts DEF ControlTypeOK
<1>4. StaysUntouched
  BY <1>1, InvFacts DEF StaysUntouched, LifeOK, Untouched
<1>5. LifeOK' BY <1>1, <1>2, <1>4, CleanupLife
<1>6. CleanOK'
  BY <1>1, InvFacts DEF CleanOK, LifeOK, Untouched, StartupPending
<1>7. WritersOK' BY <1>1, InvFacts, WritersKept
<1>8. TrafficOK'
  <2>1. queues' \in [Queues -> 0 .. Capacity] BY <1>1, InvFacts DEF TrafficOK
  <2> QED BY <1>1, <1>2, <2>1, TrafficRead DEF Data
<1> QED BY <1>2, <1>3, <1>5, <1>6, <1>7, <1>8, SafeParts DEF ControlOK

LEMMA CancelDrainsSafe == ClientInv /\ CancelDrains => Safe
<1> SUFFICES ASSUME ClientInv, CancelDrains PROVE Safe
  OBVIOUS
<1>1. /\ cleanup = "drains" /\ cleanup' = "writes" /\ draining' = FALSE
      /\ UNCHANGED <<lifecycle, explicit, error, nextId, startup, held, tasks, queues, process,
                     wire, stdout, answered>>
  BY DEF CancelDrains, peerVars
<1>2. \/ ops' = Return(ops, Head(writers), "failed") /\ writers' = Tail(writers) /\ writers # <<>>
      \/ UNCHANGED <<ops, writers>>
  BY InvFacts DEF CancelDrains, WritersOK
<1>3. writers # <<>> => Head(writers) \in Ops
  BY InvFacts, HeadTailProperties DEF WritersOK, Entered
<1>4. OpsStep(ops')
  <2>1. CASE UNCHANGED ops BY <2>1, InvFacts, SameOps
  <2>2. CASE ops' = Return(ops, Head(writers), "failed") /\ writers # <<>>
    <3>1. OpsStep(Return(ops, Head(writers), "failed"))
      BY <1>3, <2>2, InvFacts, ToldFacts, ReturnStep
    <3> QED BY <2>2, <3>1
  <2> QED BY <1>2, <2>1, <2>2
<1>5. Data BY <1>1, <1>4, StepData
<1>6. WritersOK'
  <2>1. draining' \in BOOLEAN /\ ~ draining' BY <1>1, Zenon
  <2>2. CASE UNCHANGED writers
    <3>1. writers' \in Seq(Entered(ops')) BY <1>5, <2>2, InvFacts, SeqGrows DEF WritersOK, Data
    <3> QED BY <2>1, <3>1, Zenon DEF WritersOK
  <2>3. CASE writers' = Tail(writers) /\ writers # <<>>
    BY <1>5, <2>1, <2>3, InvFacts, WritersTail DEF Data
  <2> QED BY <1>2, <2>2, <2>3
<1>7. ControlTypeOK' BY <1>1, InvFacts DEF ControlTypeOK
<1>8. StaysUntouched
  BY <1>1, <1>2, InvFacts DEF StaysUntouched, LifeOK, Untouched
<1>9. LifeOK' BY <1>1, <1>5, <1>8, CleanupLife
<1>10. CleanOK' BY <1>1, InvFacts DEF CleanOK
<1>11. TrafficOK' BY <1>1, <1>5, TrafficKept DEF Data
<1> QED BY <1>5, <1>6, <1>7, <1>9, <1>10, <1>11, SafeParts DEF ControlOK

LEMMA AwaitWritesSafe == ClientInv /\ AwaitWrites => Safe
<1> SUFFICES ASSUME ClientInv, AwaitWrites PROVE Safe
  OBVIOUS
<1>1. /\ cleanup = "writes" /\ writers = <<>> /\ cleanup' = "reap"
      /\ UNCHANGED <<lifecycle, explicit, error, nextId, ops, writers, draining, startup, held,
                     tasks, queues, process, wire, stdout, answered>>
  BY DEF AwaitWrites, peerVars
<1>2. Data BY <1>1, InvFacts, SameOps, StepData
<1>3. ControlTypeOK' BY <1>1, InvFacts DEF ControlTypeOK
<1>4. StaysUntouched BY <1>1, InvFacts DEF StaysUntouched, LifeOK, Untouched
<1>5. LifeOK' BY <1>1, <1>2, <1>4, CleanupLife
<1>6. CleanOK' BY <1>1, InvFacts DEF CleanOK
<1>7. WritersOK' BY <1>1, InvFacts, WritersKept
<1>8. TrafficOK' BY <1>1, <1>2, TrafficKept DEF Data
<1> QED BY <1>2, <1>3, <1>5, <1>6, <1>7, <1>8, SafeParts DEF ControlOK

LEMMA ReapSafe == ClientInv /\ Reap => Safe
<1> SUFFICES ASSUME ClientInv, Reap PROVE Safe
  OBVIOUS
<1>1. /\ cleanup = "reap" /\ process = "reaped" /\ held' = FALSE /\ cleanup' = "end"
      /\ UNCHANGED <<lifecycle, explicit, error, nextId, ops, writers, draining, startup,
                     tasks, queues, process, wire, stdout, answered>>
  BY DEF Reap, peerVars
<1>2. Data BY <1>1, InvFacts, SameOps, StepData
<1>3. ControlTypeOK' BY <1>1, InvFacts DEF ControlTypeOK
<1>4. StaysUntouched BY <1>1, InvFacts DEF StaysUntouched, LifeOK, Untouched
<1>5. LifeOK' BY <1>1, <1>2, <1>4, CleanupLife
<1>6. CleanOK' BY <1>1, InvFacts DEF CleanOK
<1>7. WritersOK' BY <1>1, InvFacts, WritersKept
<1>8. TrafficOK' BY <1>1, <1>2, TrafficKept DEF Data
<1> QED BY <1>2, <1>3, <1>5, <1>6, <1>7, <1>8, SafeParts DEF ControlOK

LEMMA MarkClosedSafe == ClientInv /\ MarkClosed => Safe
<1> SUFFICES ASSUME ClientInv, MarkClosed PROVE Safe
  OBVIOUS
<1>1. /\ cleanup = "end" /\ ~ StartupPending /\ cleanup' = "done" /\ lifecycle' = "closed"
      /\ UNCHANGED <<explicit, error, nextId, ops, writers, draining, startup, held, tasks,
                     queues, process, wire, stdout, answered>>
  BY DEF MarkClosed, peerVars
<1>2. lifecycle = "closing" /\ Closing /\ Closing' BY <1>1, CleanupFacts DEF Closing
<1>3. IdsOK BY <1>1, SameIds
<1>4. LinkStep BY <1>1, <1>2, LinkCalls DEF LinkStep
<1>5. Data BY <1>1, <1>2, <1>3, <1>4, InvFacts DEF Data
<1>6. ControlTypeOK' BY <1>1, InvFacts DEF ControlTypeOK
<1>7. LifeOK'
  <2>1. startup \in {"none", "spawning"} => Untouched'
    BY <1>1, InvFacts DEF LifeOK, Untouched
  <2>2. NobodyWaits(ops)' BY <1>1, <1>2, InvFacts
  <2> QED BY <1>1, <1>2, <2>1, <2>2 DEF LifeOK, StartupPending
<1>8. CleanOK' BY <1>1, InvFacts DEF CleanOK, StartupPending
<1>9. WritersOK' BY <1>1, InvFacts, WritersKept
<1>10. TrafficOK' BY <1>1, <1>5, TrafficKept DEF Data
<1> QED BY <1>5, <1>6, <1>7, <1>8, <1>9, <1>10, SafeParts DEF ControlOK

-----------------------------------------------------------------------------
(* The process.                                                              *)

LEMMA PeerSafe ==
    ASSUME ClientInv, UNCHANGED clientVars, TrafficOK', process # "none",
           process' \in {process, "dead", "reaped"}, process' = "reaped" => process # "up",
           process = "reaped" => process' = "reaped"
    PROVE  Safe
<1>1. UNCHANGED <<lifecycle, explicit, error, nextId, ops, writers, draining, startup, held,
                  tasks, cleanup, queues>>
  BY DEF clientVars
<1>2. Data BY <1>1, InvFacts, SameOps, StepData
<1>3. startup \notin {"none", "spawning"} BY InvFacts DEF LifeOK, Untouched
<1>4. ControlTypeOK' BY <1>1, InvFacts DEF ControlTypeOK
<1>5. LifeOK'
  <2>1. NobodyWaits(ops)' = NobodyWaits(ops) BY <1>1
  <2> QED BY <1>1, <1>3, <2>1, InvFacts DEF LifeOK, Closing, StartupPending
<1>6. CleanOK' BY <1>1, InvFacts DEF CleanOK, StartupPending
<1>7. WritersOK' BY <1>1, InvFacts, WritersKept
<1> QED BY <1>2, <1>4, <1>5, <1>6, <1>7, SafeParts DEF ControlOK

\* A line is printed; an answer goes to whoever waits under its id.
LEMMA PrintSafe ==
    ASSUME ClientInv, UNCHANGED <<clientVars, process, wire>>, Prints, NEW l \in Lines,
           stdout' = Append(stdout, l), answered' \subseteq Requests,
           l[1] = "answer" => Belongs(l[3], l[2])
    PROVE  Safe
<1>1. UNCHANGED <<nextId, ops, queues>> /\ process = "up" BY DEF clientVars, Prints
<1>2. TrafficOK BY InvFacts
<1>3. /\ stdout' \in Seq(Lines) /\ Len(stdout') = Len(stdout) + 1 /\ Len(stdout) \in Nat
      /\ \A k \in 1 .. Len(stdout) : stdout'[k] = stdout[k]
      /\ stdout'[Len(stdout) + 1] = l
  BY <1>2, AppendProperties, LenProperties DEF TrafficOK
<1>4. ASSUME NEW k \in 1 .. Len(stdout'), stdout'[k][1] = "answer"
      PROVE  Belongs(stdout[k][3], stdout[k][2])'
  <2>1. CASE k \in 1 .. Len(stdout)
    <3>1. stdout'[k] = stdout[k] /\ Belongs(stdout[k][3], stdout[k][2])
      BY <1>2, <1>3, <1>4, <2>1 DEF TrafficOK, WireOK
    <3> QED BY <1>1, <3>1 DEF Belongs
  <2>2. CASE k = Len(stdout) + 1
    <3>1. stdout'[k] = l BY <1>3, <2>2
    <3>2. Belongs(l[3], l[2]) BY <1>4, <3>1
    <3> QED BY <1>1, <3>1, <3>2 DEF Belongs
  <2> QED BY <1>3, <2>1, <2>2
<1>5. \A m \in wire : Belongs(m[1], m[2])'
  BY <1>1, <1>2 DEF TrafficOK, WireOK, Belongs
<1>6. WireOK' BY <1>4, <1>5 DEF WireOK
<1>7. TrafficOK' BY <1>1, <1>2, <1>3, <1>6 DEF TrafficOK
<1> QED BY <1>1, <1>7, PeerSafe

LEMMA PeerStepSafe == ClientInv /\ (Peer \/ Notice) => Safe
<1> SUFFICES ASSUME ClientInv, Peer \/ Notice PROVE Safe
  OBVIOUS
<1>1. TrafficOK BY InvFacts
<1>2. ASSUME NEW m \in wire, PeerAnswers(m) PROVE Safe
  <2> DEFINE l == <<"answer", m[2], m[1]>>
  <2>1. /\ m[1] \in Requests /\ Prints /\ stdout' = Append(stdout, l)
        /\ answered' = answered \cup {m[1]} /\ UNCHANGED <<clientVars, process, wire>>
    BY <1>2 DEF PeerAnswers
  <2>2. m[2] \in Nat /\ Belongs(m[1], m[2]) BY <1>1, <1>2 DEF TrafficOK, WireOK
  <2>3. l \in Lines /\ l[2] = m[2] /\ l[3] = m[1] BY <2>1, <2>2 DEF Lines
  <2>4. answered' \subseteq Requests BY <1>1, <2>1 DEF TrafficOK
  <2> HIDE DEF l
  <2> QED BY <2>1, <2>2, <2>3, <2>4, PrintSafe
<1>3. ASSUME NEW l \in Lines, l[1] # "answer", PeerSpeaks(l) PROVE Safe
  <2>1. /\ Prints /\ stdout' = Append(stdout, l)
        /\ UNCHANGED <<clientVars, process, wire, answered>>
    BY <1>3 DEF PeerSpeaks
  <2>2. answered' \subseteq Requests BY <1>1, <2>1 DEF TrafficOK
  <2> QED BY <1>3, <2>1, <2>2, PrintSafe
<1>4. ASSUME PeerDies \/ Notice PROVE Safe
  <2>1. /\ process \in {"up", "dead"} /\ process' \in {"dead", "reaped"}
        /\ process' = "reaped" => process # "up"
        /\ UNCHANGED <<clientVars, wire, stdout, answered>>
    BY <1>4 DEF PeerDies, Notice
  <2>2. UNCHANGED <<nextId, ops, queues>> BY <2>1 DEF clientVars
  <2>3. IdsOK /\ OpsOK(ops', nextId') BY <2>2, InvFacts, SameIds
  <2>4. TrafficOK' BY <2>1, <2>2, <2>3, TrafficKept
  <2> QED BY <2>1, <2>4, PeerSafe
<1>5. \A q \in Queues : <<"message", q>> \in Lines /\ <<"message", q>>[1] # "answer"
  BY DEF Lines
<1>6. <<"garbage">> \in Lines /\ <<"garbage">>[1] # "answer"
  BY DEF Lines
<1> QED BY <1>2, <1>3, <1>4, <1>5, <1>6 DEF Peer

-----------------------------------------------------------------------------
(* The invariant, and what follows from it.                                  *)

LEMMA NextSafe == ClientInv /\ [Next]_vars => Safe
<1> SUFFICES ASSUME ClientInv, [Next]_vars PROVE Safe
  OBVIOUS
<1>1. CASE Start BY <1>1, StartSafe
<1>2. CASE Close BY <1>2, CloseSafe
<1>3. CASE Startup
  BY <1>3, SpawnSafe, SpawnFailsSafe, StartupResumesSafe DEF Startup
<1>4. CASE Cleanup
  BY <1>4, CancelTasksSafe, CancelDrainsSafe, AwaitWritesSafe, ReapSafe, MarkClosedSafe
     DEF Cleanup
<1>5. CASE Notice \/ Peer BY <1>5, PeerStepSafe
<1>6. CASE ReadLine BY <1>6, ReadLineSafe
<1>7. CASE \E t \in tasks : TaskSeesExit(t) BY <1>7, TaskSeesExitSafe
<1>8. CASE \E q \in Queues : Take(q) BY <1>8, TakeSafe
<1>9. CASE \E o \in Ops : Call(o) \/ Caller(o) \/ Cancel(o)
  BY <1>9, CallSafe, WriteSafe, DrainEndsSafe, EndsSafe, CancelSafe DEF Caller
<1>10. CASE UNCHANGED vars
  <2>1. UNCHANGED <<clientVars, process, wire, stdout, answered>> BY <1>10 DEF vars, peerVars
  <2>2. UNCHANGED <<lifecycle, explicit, error, nextId, ops, writers, draining, startup, held,
                    tasks, cleanup, queues, process, wire, stdout, answered>>
    BY <2>1 DEF clientVars
  <2>3. Data BY <2>2, InvFacts, SameOps, StepData
  <2>4. ClientInv'
    BY <2>2 DEF ClientInv, ControlOK, ControlTypeOK, LifeOK, CleanOK, WritersOK, TrafficOK, WireOK,
                Belongs, Untouched, Closing, StartupPending
  <2> QED BY <2>3, <2>4 DEF Safe, Data
<1> QED BY <1>1, <1>2, <1>3, <1>4, <1>5, <1>6, <1>7, <1>8, <1>9, <1>10 DEF Next

\* The inductive invariant: it holds at first and every step of the client, of its
\* callers and of the process keeps it.
THEOREM ClientInvCorrect == Spec => []ClientInv
<1>1. ClientInv /\ [Next]_vars => ClientInv'
  BY NextSafe DEF Safe
<1> QED BY InitOK, <1>1, PTL DEF Spec

\* Every field of the client keeps its type, and its queues their capacity.
THEOREM ClientTypeCorrect == Spec => []ClientTypeOK
<1>1. ClientInv => ClientTypeOK
  <2> SUFFICES ASSUME ClientInv PROVE ClientTypeOK
    OBVIOUS
  <2>1. writers \in Seq(Ops)
    BY InvFacts, SeqGrows DEF WritersOK, Entered
  <2>2. draining \in BOOLEAN /\ (draining => writers # <<>>)
    BY InvFacts, Zenon DEF WritersOK
  <2> QED BY <2>1, <2>2, InvFacts DEF ControlTypeOK, TrafficOK, ClientTypeOK
<1> QED BY <1>1, ClientInvCorrect, PTL

\* However many calls are under way and in whatever order their answers come, request
\* returns the answer to its own id or an error: a late answer finds nobody.
THEOREM OwnAnswerCorrect == Spec => []OwnAnswer
<1>1. ClientInv => OwnAnswer
  BY InvFacts, Words DEF OpsOK, OneOK, OwnAnswer
<1> QED BY <1>1, ClientInvCorrect, PTL

\* The coordinator reaches _mark_closed only when the process is reaped, its tasks are
\* gone, no write is queued and nobody waits, whatever made it start.
THEOREM ClosedQuiet == Spec => []ClosedIsQuiet
<1>1. ClientInv => ClosedIsQuiet
  <2> SUFFICES ASSUME ClientInv, lifecycle = "closed"
               PROVE  /\ process \in {"none", "reaped"} /\ ~ held
                      /\ tasks = {} /\ ~ StartupPending
                      /\ writers = <<>> /\ \A o \in Ops : ops[o].future # "undone"
    BY DEF ClosedIsQuiet
  <2>1. cleanup = "done" /\ Closing BY InvFacts DEF LifeOK, Closing
  <2>2. NobodyWaits(ops) BY <2>1, InvFacts
  <2> QED BY <2>1, <2>2, InvFacts DEF CleanOK, NobodyWaits
<1> QED BY <1>1, ClientInvCorrect, PTL

\* The client implements RpcLink: calls are taken only while the link is up, each is
\* settled once, and the moment it starts to close everybody who waits is released.
THEOREM ClientImplementsLink == Spec => LinkSpec
<1>1. Init => Link!Init
  <2> SUFFICES ASSUME Init PROVE Link!Init
    OBVIOUS
  <2>1. lifecycle = "new" /\ \A c \in Requests : ops[c].stage = "idle"
    BY Words DEF Init
  <2>2. States(ops) = [c \in Requests |-> "idle"] BY <2>1 DEF States, State
  <2> QED BY <2>1, <2>2, LinkCalls
<1>2. ClientInv /\ [Next]_vars => [Link!Next]_(Link!vars)
  BY NextSafe DEF Safe, LinkStep
<1> QED BY <1>1, <1>2, ClientInvCorrect, PTL DEF Spec, LinkSpec, Link!Spec

\* An error is recorded only where none is and nobody asked for the close, so what
\* wait_closed raises is what ended the link and nothing that followed from it.
THEOREM FirstCauseCorrect == Spec => FirstCauseStands
<1>1. ASSUME NEW p, NEW err, Only(p) \/ RecordError(err, p), explicit \/ error # None
      PROVE  UNCHANGED error
  BY <1>1 DEF Only, RecordError
<1>2. ASSUME [Next]_vars, explicit \/ error # None PROVE UNCHANGED error
  <2>1. CASE Start \/ Close \/ (\E q \in Queues : Take(q))
    BY <2>1 DEF Start, Close, Take
  <2>2. CASE Startup
    BY <1>1, <1>2, <2>2 DEF Startup, Spawn, SpawnFails, StartupResumes
  <2>3. CASE Cleanup
    BY <2>3 DEF Cleanup, CancelTasks, CancelDrains, AwaitWrites, Reap, MarkClosed
  <2>4. CASE Notice \/ Peer
    BY <2>4 DEF Notice, Peer, PeerAnswers, PeerSpeaks, PeerDies, clientVars
  <2>5. CASE ReadLine BY <1>1, <1>2, <2>5 DEF ReadLine
  <2>6. CASE \E t \in tasks : TaskSeesExit(t) BY <1>1, <1>2, <2>6 DEF TaskSeesExit
  <2>7. ASSUME NEW o, Call(o) PROVE UNCHANGED error BY <1>1, <1>2, <2>7 DEF Call
  <2>8. ASSUME NEW o, Write(o) \/ DrainEnds(o) PROVE UNCHANGED error
    BY <1>1, <1>2, <2>8 DEF Write, DrainEnds
  <2>9. ASSUME NEW o, CallReturns(o) \/ Timeout(o) \/ Cancel(o) PROVE UNCHANGED error
    BY <1>1, <1>2, <2>9 DEF CallReturns, Timeout, Cancel
  <2>10. CASE UNCHANGED vars BY <2>10 DEF vars, clientVars
  <2> QED
    BY <1>2, <2>1, <2>2, <2>3, <2>4, <2>5, <2>6, <2>7, <2>8, <2>9, <2>10 DEF Next, Caller
<1>3. [Next]_vars => [explicit \/ error # None => UNCHANGED error]_vars
  BY <1>2
<1> QED BY <1>3, PTL DEF Spec, FirstCauseStands

-----------------------------------------------------------------------------
(* The order of the handshake.                                               *)

Gone == process \in {"dead", "reaped"}
Greeted == Sent(Initialized) \/ Gone
InLine == {writers[k] : k \in 1 .. Len(writers)}

\* What a caller was answered, and what is on its way to one, was answered.
AnswersKnown == \A o \in Ops : ops[o].future \in Requests => ops[o].future \in answered
LinesKnown == \A k \in 1 .. Len(stdout) : stdout[k][1] = "answer" => stdout[k][3] \in answered

\* As long as "initialize" is being written, nothing else is, or was.
FirstInLine ==
    Initialize \in InLine =>
        /\ writers = <<Initialize>> /\ (~ draining => wire = {})
        /\ ops[Initialize].stage = "writing" /\ ops[Initialized].told # "sent"
        /\ lifecycle # "running"

\* Where the handshake has got to, as the queue of the lock and the process show it.
Hello ==
    /\ startup \in {"calling", "ok"} \/ writers # <<>> => process # "none"
    /\ FirstInLine
    /\ Initialized \in InLine => Initialize \in answered
    /\ InLine \subseteq {Initialize, Initialized} \/ Greeted
    /\ draining => Sent(Head(writers)) \/ Gone
    /\ ops[Initialized].told = "sent" \/ lifecycle = "running" => Greeted
    /\ AnswersKnown /\ LinesKnown

\* A process that has started dies, and does not come back.
Onward == process' = process \/ (process # "none" /\ Gone')

\* A step that writes nothing and queues nothing.
Calm ==
    /\ UNCHANGED wire /\ answered \subseteq answered' /\ Onward
    /\ startup' \in {"calling", "ok"} => startup \in {"calling", "ok"}
    /\ InLine' \subseteq InLine /\ (writers' # <<>> => writers # <<>>)
    /\ draining' => draining /\ Head(writers') = Head(writers)
    /\ ops'[Initialized].told = "sent" => ops[Initialized].told = "sent" \/ Greeted
    /\ lifecycle' = "running" => lifecycle = "running" \/ Greeted
    /\ Initialize \in InLine' => /\ UNCHANGED <<writers, draining>>
                                 /\ ops'[Initialize].stage = "writing"
                                 /\ ops'[Initialized].told # "sent"
                                 /\ lifecycle' # "running"

LEMMA CalmKeeps == ASSUME Hello, Calm, AnswersKnown', LinesKnown' PROVE Hello'
<1>1. process' = "none" => process = "none"
  BY DEF Calm, Onward, Gone
<1>2. (Gone => Gone') /\ \A o : Sent(o)' = Sent(o)
  BY DEF Calm, Onward, Gone, Sent
<1>3. Greeted => Greeted'
  BY <1>2 DEF Greeted
<1>4. /\ startup' \in {"calling", "ok"} \/ writers' # <<>> => process' # "none"
  BY <1>1 DEF Hello, Calm
<1>5. FirstInLine'
  BY DEF Hello, Calm, FirstInLine
<1>6. /\ Initialized \in InLine' => Initialize \in answered'
      /\ InLine' \subseteq {Initialize, Initialized} \/ Greeted'
  BY <1>3 DEF Hello, Calm
<1>7. draining' => Sent(Head(writers))' \/ Gone'
  BY <1>2 DEF Hello, Calm, Sent
<1>8. ops'[Initialized].told = "sent" \/ lifecycle' = "running" => Greeted'
  BY <1>3 DEF Hello, Calm
<1> QED BY <1>4, <1>5, <1>6, <1>7, <1>8 DEF Hello

\* Operations that know no more answers than before.
Mild(p) == \A o \in Ops : p[o].future \in Requests => p[o].future = ops[o].future

LEMMA MildKnown ==
    ASSUME AnswersKnown, Mild(ops'), answered \subseteq answered' PROVE AnswersKnown'
BY DEF AnswersKnown, Mild

LEMMA ReturnMild ==
    ASSUME ClientInv, NEW o \in Ops, NEW t \in Told \cup Requests, t \in Requests => t = o
    PROVE  /\ OpsOK(Return(ops, o, t), nextId) /\ Mild(Return(ops, o, t))
           /\ \A c \in Ops : c # o => Return(ops, o, t)[c] = ops[c]
           /\ Return(ops, o, t)[o].told = t
<1>1. /\ OpsOK(Return(ops, o, t), nextId)
      /\ \A c \in Ops : c # o => Return(ops, o, t)[c] = ops[c]
      /\ Return(ops, o, t)[o].told = t
  BY InvFacts, ReturnFacts
<1>2. Return(ops, o, t)[o].future \in {"failed", ops[o].future}
  BY InvFacts DEF Return
<1> QED BY <1>1, <1>2, Words DEF Mild

\* What a step does that returns to callers, or fails everybody.
LEMMA Fails ==
    ASSUME ClientInv, NEW p, OpsOK(p, nextId), Mild(p), NEW err, Only(p) \/ RecordError(err, p)
    PROVE  /\ Mild(ops') /\ (lifecycle' = "running" => lifecycle = "running")
           /\ \A c \in Ops : ops'[c].stage = p[c].stage /\ ops'[c].told = p[c].told
<1>1. /\ ops' = p \/ ops' = FailPending(p)
      /\ lifecycle' = "running" => lifecycle = "running"
  BY DEF Only, RecordError
<1>2. \A c \in Ops : /\ FailPending(p)[c].stage = p[c].stage
                     /\ FailPending(p)[c].told = p[c].told
  BY FailFacts
<1>3. Mild(FailPending(p))
  <2>1. ASSUME NEW c \in Ops, FailPending(p)[c].future \in Requests
        PROVE  FailPending(p)[c].future = ops[c].future
    <3>1. CASE p[c].future = "undone"
      <4>1. FailPending(p)[c] = [p[c] EXCEPT !.future = "failed"]
        BY <3>1 DEF FailPending
      <4>2. FailPending(p)[c].future = "failed"
        BY <4>1 DEF OpsOK, OneOK, Op
      <4> QED BY <2>1, <4>2, Words
    <3>2. CASE p[c].future # "undone"
      <4>1. FailPending(p)[c] = p[c]
        BY <3>2 DEF FailPending
      <4> QED BY <2>1, <4>1 DEF Mild
    <3> QED BY <3>1, <3>2
  <2> QED BY <2>1 DEF Mild
<1> QED BY <1>1, <1>2, <1>3

\* A step that leaves the queue of the lock alone and only returns to callers or fails them.
LEMMA Quiet ==
    ASSUME ClientInv, Hello, NEW p, OpsOK(p, nextId), Mild(p),
           \A c \in {Initialize, Initialized} : p[c].told = "sent" => ops[c].told = "sent",
           Initialize \in InLine => p[Initialize].stage = "writing",
           NEW err, Only(p) \/ RecordError(err, p),
           UNCHANGED <<writers, draining, process, wire, answered>>,
           startup' \in {"calling", "ok"} => startup \in {"calling", "ok"},
           LinesKnown'
    PROVE  Hello'
<1>1. /\ Mild(ops') /\ (lifecycle' = "running" => lifecycle = "running")
      /\ \A c \in Ops : ops'[c].stage = p[c].stage /\ ops'[c].told = p[c].told
  BY Fails
<1>2. Initialize \in Ops /\ Initialized \in Ops
  BY Words
<1>3. InLine' = InLine
  BY DEF InLine
<1>4. Calm
  BY <1>1, <1>2, <1>3 DEF Calm, Onward, Hello, FirstInLine
<1>5. AnswersKnown'
  BY <1>1, MildKnown DEF Hello
<1> QED BY <1>4, <1>5, CalmKeeps

LEMMA HelloInit == Init => Hello
BY Words DEF Init, Hello, FirstInLine, InLine, AnswersKnown, LinesKnown

\* The stages of start.
LEMMA SpawnHello == ASSUME ClientInv, Hello, Spawn PROVE Hello'
<1>1. /\ startup = "spawning" /\ process' = "up"
      /\ UNCHANGED <<draining, wire, stdout, answered>>
  BY DEF Spawn
<1>2. Untouched /\ lifecycle # "running"
  BY <1>1, InvFacts DEF LifeOK
<1>3. ~ Greeted /\ ops[Initialized].told # "sent"
  BY <1>2 DEF Untouched, Greeted, Sent, Gone, Hello
<1>4. LinesKnown' /\ ~ draining' /\ wire' = {}
  BY <1>1, <1>2 DEF Untouched, LinesKnown
<1>5. Initialize \in Ops /\ Initialized \in Ops /\ Initialize # Initialized
  BY Words
<1>6. CASE Closing
  <2>1. startup' = "failed" /\ RecordError("startup", ops) /\ UNCHANGED writers
    BY <1>6 DEF Spawn
  <2>2. Mild(ops) /\ OpsOK(ops, nextId)
    BY InvFacts DEF Mild
  <2>3. /\ Mild(ops') /\ (lifecycle' = "running" => lifecycle = "running")
        /\ \A c \in Ops : ops'[c].told = ops[c].told
    BY <2>1, <2>2, Fails
  <2>4. AnswersKnown'
    BY <1>1, <2>3, MildKnown DEF Hello
  <2>5. InLine' = {}
    BY <1>2, <2>1 DEF Untouched, InLine
  <2> QED BY <1>1, <1>2, <1>3, <1>4, <1>5, <2>3, <2>4, <2>5 DEF Hello, FirstInLine
<1>7. CASE ~ Closing
  <2>1. /\ Enqueue(Initialize, "undone") /\ UNCHANGED lifecycle
    BY <1>7 DEF Spawn
  <2>2. writers' = <<Initialize>> /\ InLine' = {Initialize}
    BY <1>2, <2>1 DEF Untouched, Enqueue, InLine
  <2>3. /\ ops'[Initialize].stage = "writing" /\ ops'[Initialize].future = "undone"
        /\ \A c \in Ops : c # Initialize => ops'[c] = ops[c]
    BY <1>5, <2>1, InvFacts DEF Enqueue
  <2>4. AnswersKnown'
    BY <1>1, <2>3, Words DEF Hello, AnswersKnown
  <2> QED BY <1>1, <1>2, <1>3, <1>4, <1>5, <2>1, <2>2, <2>3, <2>4 DEF Hello, FirstInLine
<1> QED BY <1>6, <1>7

LEMMA SpawnFailsHello == ASSUME ClientInv, Hello, SpawnFails PROVE Hello'
<1>1. /\ startup' = "failed" /\ RecordError("startup", ops)
      /\ UNCHANGED <<writers, draining, process, wire, answered, stdout>>
  BY DEF SpawnFails, peerVars
<1>2. OpsOK(ops, nextId) /\ Mild(ops)
  BY InvFacts DEF Mild
<1>3. LinesKnown'
  BY <1>1 DEF Hello, LinesKnown
<1>4. Initialize \in InLine => ops[Initialize].stage = "writing"
  BY DEF Hello, FirstInLine
<1> QED BY <1>1, <1>2, <1>3, <1>4, Quiet

\* The queue of the lock gets longer.
LEMMA Longer ==
    ASSUME NEW o, writers \in Seq(Ops), o \in Ops, writers' = Append(writers, o)
    PROVE  InLine' = InLine \cup {o} /\ writers' # <<>>
           /\ (writers # <<>> => Head(writers') = Head(writers))
<1>1. Len(writers') = Len(writers) + 1 /\ Len(writers) \in Nat
      /\ \A k \in 1 .. Len(writers) : writers'[k] = writers[k]
      /\ writers'[Len(writers) + 1] = o
  BY AppendProperties, LenProperties
<1>2. InLine' \subseteq InLine \cup {o}
  BY <1>1 DEF InLine
<1>3. InLine \subseteq InLine'
  BY <1>1 DEF InLine
<1>4. o \in InLine'
  BY <1>1 DEF InLine
<1>5. writers # <<>> => Head(writers') = Head(writers)
  OBVIOUS
<1> QED BY <1>1, <1>2, <1>3, <1>4, <1>5

LEMMA StartupResumesHello == ASSUME ClientInv, Hello, StartupResumes PROVE Hello'
<1> DEFINE p == Return(ops, Initialize, "failed")
           r == Return(ops, Initialize, Initialize)
           q == Staged(r, Initialized, "writing")
<1>0. /\ startup = "calling"
      /\ UNCHANGED <<draining, process, wire, stdout, answered>>
  BY DEF StartupResumes, peerVars
<1>1. /\ LinesKnown' /\ Initialize \in Ops /\ Initialized \in Ops /\ Initialize # Initialized
      /\ Initialize \in Requests /\ Initialized \notin Requests
  BY <1>0, Words DEF Hello, LinesKnown
<1>2. \/ /\ ops[Initialize].stage = "waiting" /\ ops[Initialize].future = Initialize
         /\ Only(q) /\ UNCHANGED startup /\ writers' = Append(writers, Initialized)
      \/ /\ ops[Initialize].stage = "waiting"
         /\ startup' = "failed" /\ RecordError("startup", p) /\ UNCHANGED writers
      \/ /\ ops[Initialized].told = "sent"
         /\ startup' = "ok" /\ lifecycle' = "running" /\ UNCHANGED <<ops, writers>>
      \/ startup' = "failed" /\ RecordError("startup", ops) /\ UNCHANGED writers
  BY DEF StartupResumes, Only, Staged
<1>3. OpsOK(ops, nextId) /\ Mild(ops)
  BY InvFacts DEF Mild
<1>4. Initialize \in InLine => ops[Initialize].stage = "writing" /\ ops[Initialized].told # "sent"
  BY DEF Hello, FirstInLine
<1>5. CASE /\ ops[Initialize].stage = "waiting" /\ ops[Initialize].future = Initialize
           /\ Only(q) /\ UNCHANGED startup /\ writers' = Append(writers, Initialized)
  <2>1. OpsOK(r, nextId) /\ Mild(r) /\ r[Initialized] = ops[Initialized]
    BY <1>1, ReturnMild
  <2>2. q[Initialized].told = ops[Initialized].told
        /\ \A c \in Ops : q[c].future = r[c].future
    <3>1. Initialized \in Entered(r) BY <1>1 DEF Entered
    <3>2. \A c \in Ops : q[c].future = r[c].future
      BY <2>1, <3>1, StageStep
    <3>3. r \in [Ops -> Op] BY <2>1 DEF OpsOK
    <3>4. q[Initialized].told = r[Initialized].told
      <4> HIDE DEF r
      <4> QED BY <1>1, <3>3 DEF Staged, Op
    <3> QED BY <2>1, <3>2, <3>4
  <2>3. ops' = q /\ UNCHANGED lifecycle
    BY <1>5 DEF Only
  <2> HIDE DEF q, r
  <2>4. AnswersKnown'
    BY <1>0, <2>1, <2>2, <2>3, MildKnown DEF Hello, Mild
  <2>5. writers \in Seq(Ops)
    BY InvFacts, SeqGrows DEF WritersOK, Entered
  <2>6. /\ InLine' = InLine \cup {Initialized}
        /\ writers # <<>> => Head(writers') = Head(writers)
    BY <1>1, <1>5, <2>5, Longer
  <2>7. Initialize \notin InLine /\ Initialize \in answered /\ process # "none"
    BY <1>0, <1>1, <1>4, <1>5 DEF Hello, AnswersKnown
  <2>8. draining => writers # <<>>
    BY InvFacts DEF WritersOK
  <2>9. \A o : Sent(o)' = Sent(o)
    BY <1>0 DEF Sent
  <2>10. (Gone' <=> Gone) /\ (Greeted' <=> Greeted)
    BY <1>0, <2>9 DEF Gone, Greeted
  <2>11. draining' => Sent(Head(writers))' \/ Gone'
    BY <1>0, <2>6, <2>8, <2>9, <2>10 DEF Hello
  <2>12. FirstInLine'
    BY <1>1, <2>6, <2>7 DEF FirstInLine
  <2>13. InLine' \subseteq {Initialize, Initialized} \/ Greeted'
    BY <2>6, <2>10 DEF Hello
  <2>14. ops'[Initialized].told = "sent" \/ lifecycle' = "running" => Greeted'
    BY <2>1, <2>2, <2>3, <2>10 DEF Hello
  <2> QED BY <1>0, <1>1, <2>4, <2>7, <2>11, <2>12, <2>13, <2>14 DEF Hello
<1>6. CASE /\ ops[Initialize].stage = "waiting"
           /\ startup' = "failed" /\ RecordError("startup", p) /\ UNCHANGED writers
  <2>1. /\ OpsOK(p, nextId) /\ Mild(p) /\ p[Initialized] = ops[Initialized]
        /\ p[Initialize].told = "failed"
    BY <1>1, ToldFacts, ReturnMild
  <2> HIDE DEF p
  <2> QED BY <1>0, <1>1, <1>4, <1>6, <2>1, Quiet
<1>7. CASE /\ ops[Initialized].told = "sent"
           /\ startup' = "ok" /\ lifecycle' = "running" /\ UNCHANGED <<ops, writers>>
  <2>1. Greeted /\ Initialize \notin InLine
    BY <1>4, <1>7 DEF Hello
  <2>2. InLine' = InLine
    BY <1>7 DEF InLine
  <2>3. Calm
    BY <1>0, <1>7, <2>1, <2>2 DEF Calm, Onward
  <2>4. AnswersKnown'
    BY <1>0, <1>7 DEF Hello, AnswersKnown
  <2> QED BY <1>1, <2>3, <2>4, CalmKeeps
<1>8. CASE startup' = "failed" /\ RecordError("startup", ops) /\ UNCHANGED writers
  BY <1>0, <1>1, <1>3, <1>4, <1>8, Quiet
<1> QED BY <1>2, <1>5, <1>6, <1>7, <1>8

\* An operation leaves the queue of the lock.
LEMMA Leaves ==
    ASSUME ClientInv, Hello, NEW o \in Ops, NEW p, OpsOK(p, nextId), Mild(p),
           \A c \in Ops : c # o => p[c] = ops[c],
           o = Initialized /\ p[o].told = "sent" => Greeted,
           NEW err, Only(p) \/ RecordError(err, p),
           writers # <<>>, InLine' \subseteq InLine \ {Initialize},
           draining' => draining /\ Head(writers') = Head(writers),
           UNCHANGED <<process, wire, answered, startup, stdout>>
    PROVE  Hello'
<1>1. /\ Mild(ops') /\ (lifecycle' = "running" => lifecycle = "running")
      /\ \A c \in Ops : ops'[c].stage = p[c].stage /\ ops'[c].told = p[c].told
  BY Fails
<1>2. ops'[Initialized].told = "sent" => ops[Initialized].told = "sent" \/ Greeted
  BY <1>1, Words
<1>3. Calm
  BY <1>1, <1>2 DEF Calm, Onward
<1>4. AnswersKnown' /\ LinesKnown'
  BY <1>1, MildKnown DEF Hello, LinesKnown
<1> QED BY <1>3, <1>4, CalmKeeps

\* The first leaves, and with "initialize" the queue is empty.
LEMMA FirstLeaves ==
    ASSUME Hello, writers \in Seq(Ops), writers # <<>>, writers' = Tail(writers)
    PROVE  InLine' \subseteq InLine \ {Initialize} /\ Head(writers) \in InLine
<1>1. /\ Len(writers) \in Nat \ {0} /\ Head(writers) = writers[1]
      /\ Len(writers') = Len(writers) - 1
      /\ \A k \in 1 .. Len(writers') : writers'[k] = writers[k + 1]
  BY HeadTailProperties, EmptySeq, LenProperties
<1>2. InLine' \subseteq InLine /\ Head(writers) \in InLine
  BY <1>1 DEF InLine
<1>3. CASE Initialize \in InLine
  <2>1. Len(writers) = 1
    BY <1>3 DEF Hello, FirstInLine
  <2>2. Len(writers') = 0
    BY <1>1, <2>1
  <2>3. ASSUME NEW k \in 1 .. Len(writers') PROVE FALSE
    BY <2>2, <2>3
  <2>4. InLine' = {}
    BY <2>3, Zenon DEF InLine
  <2> QED BY <1>2, <2>4, Zenon
<1> QED BY <1>2, <1>3

LEMMA Writers == ASSUME ClientInv PROVE writers \in Seq(Ops) /\ (draining => writers # <<>>)
<1>1. writers \in Seq(Entered(ops)) /\ (draining => writers # <<>>)
  BY InvFacts, Zenon DEF WritersOK
<1> QED BY <1>1, SeqGrows DEF Entered

LEMMA CallHello == ASSUME ClientInv, Hello, NEW o \in Ops, Call(o) PROVE Hello'
<1> DEFINE p == Return(ops, o, "failed")
<1>1. /\ ops[o].stage = "idle" /\ o \notin {Initialize, Initialized}
      /\ UNCHANGED <<draining, startup, process, wire, stdout, answered>>
  BY Words DEF Call, peerVars
<1>2. LinesKnown' /\ Initialize \in Ops /\ Initialized \in Ops
  BY <1>1, Words DEF Hello, LinesKnown
<1>3. CASE lifecycle = "running" /\ process # "reaped"
  <2> DEFINE f == IF o \in Calls THEN "undone" ELSE "none"
  <2>1. Enqueue(o, f) /\ UNCHANGED lifecycle
    BY <1>3 DEF Call
  <2>2. Greeted /\ Initialize \notin InLine
    BY <1>3 DEF Hello, FirstInLine
  <2>3. /\ InLine' = InLine \cup {o}
        /\ writers # <<>> => Head(writers') = Head(writers)
    BY <2>1, Writers, Longer DEF Enqueue
  <2>4. ops'[o].future \in {"none", "undone"} /\ \A c \in Ops : c # o => ops'[c] = ops[c]
    BY <2>1, InvFacts DEF Enqueue
  <2>5. AnswersKnown'
    BY <1>1, <2>4, Words DEF Hello, AnswersKnown
  <2>6. \A a : Sent(a)' = Sent(a)
    BY <1>1 DEF Sent
  <2>7. Greeted' /\ (Gone' <=> Gone)
    BY <1>1, <2>2, <2>6 DEF Greeted, Gone
  <2>8. draining' => Sent(Head(writers))' \/ Gone'
    BY <1>1, <2>3, <2>6, <2>7, Writers DEF Hello
  <2>9. startup = "ok"
    BY <1>3, InvFacts DEF LifeOK
  <2>10. FirstInLine' /\ (Initialized \in InLine' => Initialize \in answered')
    BY <1>1, <2>2, <2>3 DEF FirstInLine, Hello
  <2>11. process' # "none"
    BY <1>1, <2>9 DEF Hello
  <2> QED BY <1>2, <2>5, <2>7, <2>8, <2>10, <2>11 DEF Hello
<1>4. CASE ~ (lifecycle = "running" /\ process # "reaped")
  <2>1. (Only(p) \/ RecordError("exited", p)) /\ UNCHANGED writers
    BY <1>4 DEF Call
  <2>2. OpsOK(p, nextId) /\ Mild(p) /\ p[Initialize] = ops[Initialize]
        /\ p[Initialized] = ops[Initialized]
    BY <1>1, <1>2, ToldFacts, ReturnMild
  <2>3. Initialize \in InLine => ops[Initialize].stage = "writing"
    BY DEF Hello, FirstInLine
  <2> HIDE DEF p
  <2> QED BY <1>1, <1>2, <2>1, <2>2, <2>3, Quiet
<1> QED BY <1>3, <1>4

LEMMA WriteHello == ASSUME ClientInv, Hello, NEW o, Write(o) PROVE Hello'
<1> DEFINE p == Return(ops, o, "failed")
<1>1. /\ writers # <<>> /\ o = Head(writers) /\ ~ draining
      /\ UNCHANGED <<startup, process, stdout, answered>>
  BY DEF Write
<1>2. o \in Ops /\ o \in InLine
  BY <1>1, Writers, HeadTailProperties, EmptySeq, LenProperties DEF InLine
<1>3. CASE Closing \/ process = "reaped"
  <2>1. Only(p) /\ writers' = Tail(writers) /\ UNCHANGED <<draining, wire>>
    BY <1>3 DEF Write
  <2>2. /\ OpsOK(p, nextId) /\ Mild(p) /\ p[o].told = "failed"
        /\ \A c \in Ops : c # o => p[c] = ops[c]
    BY <1>2, ToldFacts, ReturnMild
  <2>3. InLine' \subseteq InLine \ {Initialize}
    BY <1>1, <2>1, Writers, FirstLeaves
  <2> HIDE DEF p
  <2> QED BY <1>1, <1>2, <2>1, <2>2, <2>3, Leaves
<1>4. CASE ~ (Closing \/ process = "reaped")
  <2>1. /\ UNCHANGED <<ops, writers, lifecycle>> /\ wire \subseteq wire'
        /\ process = "up" => <<o, ops[o].id>> \in wire'
    BY <1>4 DEF Write
  <2>2. process \in {"up", "dead"}
    BY <1>1, <1>4, InvFacts DEF Hello, ControlTypeOK
  <2>3. Sent(o)' \/ Gone'
    <3>1. CASE process = "up"
      BY <2>1, <3>1 DEF Sent
    <3>2. CASE process = "dead"
      BY <1>1, <3>2 DEF Gone
    <3> QED BY <2>2, <3>1, <3>2
  <2>4. InLine' = InLine
    BY <2>1 DEF InLine
  <2>5. Greeted => Greeted'
    BY <1>1, <2>1 DEF Greeted, Gone, Sent
  <2>6. FirstInLine'
    BY <1>4, <2>1, <2>4 DEF Hello, FirstInLine, Write
  <2>7. AnswersKnown' /\ LinesKnown'
    BY <1>1, <2>1 DEF Hello, AnswersKnown, LinesKnown
  <2>8. draining' => Sent(Head(writers))' \/ Gone'
    BY <1>1, <2>1, <2>3
  <2> QED BY <1>1, <2>1, <2>4, <2>5, <2>6, <2>7, <2>8 DEF Hello
<1> QED BY <1>3, <1>4

LEMMA DrainEndsHello == ASSUME ClientInv, Hello, NEW o, DrainEnds(o) PROVE Hello'
<1>1. /\ writers # <<>> /\ o = Head(writers) /\ draining /\ ~ draining'
      /\ writers' = Tail(writers)
      /\ UNCHANGED <<startup, process, wire, stdout, answered>>
  BY DEF DrainEnds, peerVars
<1>2. o \in Ops /\ InLine' \subseteq InLine \ {Initialize}
  BY <1>1, Writers, FirstLeaves, HeadTailProperties
<1>3. Sent(o) \/ Gone
  BY <1>1 DEF Hello
<1>4. CASE o \in Requests /\ Only(Staged(ops, o, "waiting"))
  <2> DEFINE p == Staged(ops, o, "waiting")
  <2>1. o \in Entered(ops)
    BY <1>1, InvFacts, HeadTailProperties DEF WritersOK
  <2>2. /\ OpsOK(p, nextId) /\ \A c \in Ops : p[c].future = ops[c].future
        /\ \A c \in Ops : c # o => p[c] = ops[c]
    BY <2>1, InvFacts, StageStep
  <2>3. Mild(p)
    BY <2>2 DEF Mild
  <2>4. o # Initialized
    BY <1>4, Words
  <2> HIDE DEF p
  <2>5. Only(p)
    BY <1>4 DEF p
  <2> QED BY <1>1, <1>2, <2>2, <2>3, <2>4, <2>5, Leaves
<1>5. ASSUME NEW t \in {"sent", "failed"},
             Only(Return(ops, o, t)) \/ RecordError("exited", Return(ops, o, t))
      PROVE  Hello'
  <2> DEFINE p == Return(ops, o, t)
  <2>1. /\ OpsOK(p, nextId) /\ Mild(p) /\ \A c \in Ops : c # o => p[c] = ops[c]
    BY <1>2, ToldFacts, ReturnMild
  <2>2. o = Initialized => Greeted
    BY <1>3 DEF Greeted
  <2>3. Only(p) \/ RecordError("exited", p)
    BY <1>5
  <2> HIDE DEF p
  <2> QED BY <1>1, <1>2, <2>1, <2>2, <2>3, Leaves
<1> QED BY <1>4, <1>5 DEF DrainEnds, Staged

\* Of the queue something is left when its k-th entry is taken out; the first stays.
LEMMA OneLess ==
    ASSUME NEW k \in 1 .. Len(writers), writers \in Seq(Ops),
           writers' = SubSeq(writers, 1, k - 1) \o SubSeq(writers, k + 1, Len(writers))
    PROVE  InLine' \subseteq InLine /\ (k # 1 => Head(writers') = Head(writers))
<1> DEFINE a == SubSeq(writers, 1, k - 1)
           b == SubSeq(writers, k + 1, Len(writers))
           n == Len(writers)
<1>1. n \in Nat /\ k \in Nat /\ 1 <= k /\ k <= n /\ \A i \in 1 .. n : writers[i] \in Ops
  BY ElementOfSeq, LenProperties
<1>2. /\ a \in Seq(Ops) /\ Len(a) = k - 1
      /\ \A i \in 1 .. k - 1 : a[i] = writers[i]
  <2>1. 1 \in Int /\ k - 1 \in Int /\ \A i \in 1 .. k - 1 : writers[i] \in Ops BY <1>1
  <2>2. /\ a \in Seq(Ops) /\ Len(a) = IF 1 <= k - 1 THEN (k - 1) - 1 + 1 ELSE 0
        /\ \A i \in 1 .. (k - 1) - 1 + 1 : a[i] = writers[1 + i - 1]
    BY <2>1, SubSeqProperties
  <2> QED BY <1>1, <2>2
<1>3. /\ b \in Seq(Ops) /\ Len(b) = n - k
      /\ \A i \in 1 .. n - k : b[i] = writers[k + i]
  <2>1. k + 1 \in Int /\ n \in Int /\ \A i \in k + 1 .. n : writers[i] \in Ops BY <1>1
  <2>2. /\ b \in Seq(Ops) /\ Len(b) = IF k + 1 <= n THEN n - (k + 1) + 1 ELSE 0
        /\ \A i \in 1 .. n - (k + 1) + 1 : b[i] = writers[(k + 1) + i - 1]
    BY <2>1, SubSeqProperties
  <2> HIDE DEF b, n
  <2>3. b \in Seq(Ops) /\ Len(b) = n - k
    BY <1>1, <2>2
  <2>4. ASSUME NEW i \in 1 .. n - k PROVE b[i] = writers[k + i]
    <3>1. i \in 1 .. n - (k + 1) + 1 /\ (k + 1) + i - 1 = k + i
      BY <1>1, <2>4
    <3>2. b[i] = writers[(k + 1) + i - 1]
      BY <2>2, <3>1
    <3> QED BY <3>1, <3>2
  <2> QED BY <2>3, <2>4
<1>4. writers' = a \o b
  OBVIOUS
<1> HIDE DEF a, b, n
<1>5. /\ Len(a \o b) = n - 1
      /\ \A i \in 1 .. n - 1 : (a \o b)[i] = IF i <= k - 1 THEN a[i] ELSE b[i - (k - 1)]
  <2>1. /\ Len(a \o b) = Len(a) + Len(b)
        /\ \A i \in 1 .. Len(a) + Len(b) : (a \o b)[i] =
                IF i <= Len(a) THEN a[i] ELSE b[i - Len(a)]
    BY <1>2, <1>3, ConcatProperties
  <2>2. Len(a) = k - 1 /\ Len(a) + Len(b) = n - 1
    BY <1>1, <1>2, <1>3
  <2> QED BY <2>1, <2>2
<1>6. \A i \in 1 .. Len(writers') : writers'[i] \in InLine
  <2> TAKE i \in 1 .. Len(writers')
  <2>1. i \in 1 .. n - 1
    BY <1>4, <1>5 DEF n
  <2>2. CASE i <= k - 1
    <3>1. writers'[i] = writers[i] /\ i \in 1 .. n
      BY <1>1, <1>2, <1>4, <1>5, <2>1, <2>2
    <3> QED BY <3>1 DEF InLine, n
  <2>3. CASE ~ (i <= k - 1)
    <3>1. i - (k - 1) \in 1 .. n - k /\ k + (i - (k - 1)) = i + 1 /\ i + 1 \in 1 .. n
      BY <1>1, <2>1, <2>3
    <3>2. writers'[i] = b[i - (k - 1)]
      BY <1>4, <1>5, <2>1, <2>3
    <3>3. b[i - (k - 1)] = writers[k + (i - (k - 1))]
      BY <1>3, <3>1
    <3> QED BY <3>1, <3>2, <3>3 DEF InLine, n
  <2> QED BY <2>2, <2>3
<1>7. k # 1 => Head(writers') = Head(writers)
  <2> SUFFICES ASSUME k # 1 PROVE Head(writers') = Head(writers)
    OBVIOUS
  <2>1. 1 \in 1 .. k - 1 /\ 1 \in 1 .. n - 1
    BY <1>1
  <2>2. writers'[1] = writers[1]
    BY <1>2, <1>4, <1>5, <2>1
  <2>3. a \o b \in Seq(Ops) /\ Len(a \o b) \in Nat \ {0}
    <3>1. a \o b \in Seq(Ops)
      BY <1>2, <1>3, ConcatProperties
    <3>2. n - 1 \in Nat \ {0}
      BY <1>1, <2>1
    <3> QED BY <1>5, <3>1, <3>2
  <2>4. Head(a \o b) = (a \o b)[1] /\ Head(writers) = writers[1]
    BY <2>3, HeadTailProperties, EmptySeq, LenProperties
  <2> QED BY <1>4, <2>2, <2>4
<1> QED BY <1>6, <1>7 DEF InLine

LEMMA CancelHello == ASSUME ClientInv, Hello, NEW o, Cancel(o) PROVE Hello'
<1> DEFINE p == Return(ops, o, "failed")
<1>1. /\ o \in Ops /\ o \notin {Initialize, Initialized} /\ Only(p)
      /\ UNCHANGED <<startup, process, wire, stdout, answered>>
  BY Words DEF Cancel, peerVars
<1>2. /\ OpsOK(p, nextId) /\ Mild(p) /\ \A c \in Ops : c # o => p[c] = ops[c]
  BY <1>1, ToldFacts, ReturnMild
<1>3. LinesKnown' /\ Initialize \in Ops /\ Initialized \in Ops
  BY <1>1, Words DEF Hello, LinesKnown
<1>4. Initialize \in InLine => ops[Initialize].stage = "writing"
  BY DEF Hello, FirstInLine
<1>5. \/ UNCHANGED <<writers, draining>>
      \/ \E k \in 1 .. Len(writers) :
            /\ writers[k] = o
            /\ writers' = SubSeq(writers, 1, k - 1) \o SubSeq(writers, k + 1, Len(writers))
            /\ draining' = (draining /\ k # 1)
  BY DEF Cancel
<1> HIDE DEF p
<1>6. CASE UNCHANGED <<writers, draining>>
  BY <1>1, <1>2, <1>3, <1>4, <1>6, Quiet
<1>7. ASSUME NEW k \in 1 .. Len(writers), writers[k] = o,
             writers' = SubSeq(writers, 1, k - 1) \o SubSeq(writers, k + 1, Len(writers)),
             draining' = (draining /\ k # 1)
      PROVE  Hello'
  <2>1. Initialize \notin InLine
    <3>1. o \in InLine
      BY <1>7 DEF InLine
    <3>2. ASSUME Initialize \in InLine PROVE FALSE
      <4>1. writers = <<Initialize>>
        BY <3>2 DEF Hello, FirstInLine
      <4>2. writers[k] = Initialize
        BY <1>7, <4>1
      <4> QED BY <1>1, <1>7, <4>2
    <3> QED BY <3>2
  <2>2. InLine' \subseteq InLine \ {Initialize} /\ (k # 1 => Head(writers') = Head(writers))
    BY <1>7, <2>1, Writers, OneLess
  <2>3. writers # <<>>
    BY <1>7
  <2>4. draining' => draining /\ k # 1
    BY <1>7, Zenon
  <2> QED BY <1>1, <1>2, <2>2, <2>3, <2>4, Leaves
<1> QED BY <1>5, <1>6, <1>7

LEMMA EndsHello == ASSUME ClientInv, Hello, NEW o, CallReturns(o) \/ Timeout(o) PROVE Hello'
<1>1. /\ o \in Calls /\ ops[o].stage = "waiting"
      /\ UNCHANGED <<writers, draining, startup, process, wire, stdout, answered>>
  BY DEF CallReturns, Timeout, peerVars
<1>2. PICK t : /\ Only(Return(ops, o, t))
               /\ t = "failed" \/ (t = ops[o].future /\ t # "undone")
  BY DEF CallReturns, Timeout
<1>3. o \in Ops /\ o \in Requests /\ o \notin {Initialize, Initialized}
      /\ Initialize \in Ops /\ Initialized \in Ops
  BY <1>1, Words
<1>4. OneOK(o, ops[o], nextId) /\ ops[o].future \in Futures
  BY <1>3, InvFacts, OpFields DEF OpsOK, OneOK
<1>5. t \in Told \cup Requests /\ (t \in Requests => t = o)
  BY <1>1, <1>2, <1>3, <1>4, ToldFacts DEF OneOK, Futures
<1> DEFINE p == Return(ops, o, t)
<1>6. OpsOK(p, nextId) /\ Mild(p) /\ \A c \in Ops : c # o => p[c] = ops[c]
  BY <1>3, <1>5, ReturnMild
<1>7. Only(p) BY <1>2
<1>8. LinesKnown' /\ (Initialize \in InLine => ops[Initialize].stage = "writing")
  BY <1>1 DEF Hello, LinesKnown, FirstInLine
<1> HIDE DEF p
<1> QED BY <1>1, <1>3, <1>6, <1>7, <1>8, Quiet


\* What is left of the lines of stdout was answered before.
LEMMA LinesLeft ==
    ASSUME ClientInv, Hello, stdout' = <<>> \/ (stdout # <<>> /\ stdout' = Tail(stdout)),
           UNCHANGED answered
    PROVE  LinesKnown'
<1>1. CASE stdout' = <<>>
  BY <1>1 DEF LinesKnown
<1>2. CASE stdout # <<>> /\ stdout' = Tail(stdout)
  <2>1. stdout \in Seq(Lines)
    BY InvFacts DEF TrafficOK
  <2>2. /\ Len(stdout') = Len(stdout) - 1 /\ Len(stdout) \in Nat
        /\ \A k \in 1 .. Len(stdout') : stdout'[k] = stdout[k + 1]
    BY <1>2, <2>1, HeadTailProperties, LenProperties
  <2> QED BY <2>2 DEF Hello, LinesKnown
<1> QED BY <1>1, <1>2

LEMMA ReadLineHello == ASSUME ClientInv, Hello, ReadLine PROVE Hello'
<1> DEFINE line == Head(stdout)
           p == Deliver(line[2], line[3])
<1>1. /\ stdout # <<>> /\ stdout' = Tail(stdout)
      /\ UNCHANGED <<writers, draining, startup, process, wire, answered>>
  BY DEF ReadLine
<1>2. \/ line[1] = "answer" /\ Only(p)
      \/ Only(ops) \/ RecordError("protocol", ops)
  BY DEF ReadLine
<1>3. OpsOK(ops, nextId) /\ Mild(ops) /\ LinesKnown'
  BY <1>1, InvFacts, LinesLeft DEF Mild
<1>4. Initialize \in InLine => ops[Initialize].stage = "writing" /\ lifecycle # "running"
  BY DEF Hello, FirstInLine
<1>5. CASE Only(ops) \/ RecordError("protocol", ops)
  BY <1>1, <1>3, <1>4, <1>5, Quiet
<1>6. CASE line[1] = "answer" /\ Only(p)
  <2>1. line = stdout[1] /\ 1 \in 1 .. Len(stdout) /\ line \in Lines
    BY <1>1, InvFacts, HeadTailProperties DEF TrafficOK
  <2>2. line[3] \in answered /\ Belongs(line[3], line[2]) /\ line[3] \in Requests
    BY <1>6, <2>1, InvFacts, LineFacts DEF Hello, LinesKnown, TrafficOK, WireOK
  <2> HIDE DEF line
  <2>3. \A c \in Ops : /\ ops[c] \in Op
                       /\ p[c] = IF ops[c].id = line[2] /\ ops[c].future = "undone"
                                 THEN [ops[c] EXCEPT !.future = line[3]] ELSE ops[c]
    BY InvFacts DEF Deliver
  <2>4. \A c \in Ops : /\ p[c].stage = ops[c].stage /\ p[c].told = ops[c].told
                       /\ p[c].future \in {ops[c].future, line[3]}
    BY <2>3 DEF Op
  <2> HIDE DEF p
  <2>5. ops' = p /\ UNCHANGED lifecycle
    BY <1>6 DEF Only
  <2>6. AnswersKnown'
    BY <1>1, <2>2, <2>4, <2>5 DEF Hello, AnswersKnown
  <2>7. InLine' = InLine
    BY <1>1 DEF InLine
  <2>8. Calm
    BY <1>1, <1>4, <2>4, <2>5, <2>7, Words DEF Calm, Onward, Hello, FirstInLine
  <2> QED BY <1>3, <2>6, <2>8, CalmKeeps
<1> QED BY <1>2, <1>5, <1>6

LEMMA ExitHello == ASSUME ClientInv, Hello, NEW t, TaskSeesExit(t) PROVE Hello'
<1>1. /\ RecordError("exited", ops)
      /\ UNCHANGED <<writers, draining, startup, process, wire, stdout, answered>>
  BY DEF TaskSeesExit, peerVars
<1>2. OpsOK(ops, nextId) /\ Mild(ops) /\ LinesKnown'
  BY <1>1, InvFacts DEF Mild, Hello, LinesKnown
<1>3. Initialize \in InLine => ops[Initialize].stage = "writing"
  BY DEF Hello, FirstInLine
<1> QED BY <1>1, <1>2, <1>3, Quiet

\* Steps of which the operations and the queue of the lock see nothing.
LEMMA Unseen ==
    ASSUME ClientInv, Hello, UNCHANGED <<ops, writers, draining, startup, wire>>,
           lifecycle' = "running" => lifecycle = "running",
           Onward, answered \subseteq answered', LinesKnown'
    PROVE  Hello'
<1>1. InLine' = InLine
  BY DEF InLine
<1>2. Calm
  BY <1>1 DEF Calm, Hello, FirstInLine
<1>3. AnswersKnown'
  BY DEF Hello, AnswersKnown
<1> QED BY <1>2, <1>3, CalmKeeps

\* Beginnings and ends that write nothing.
LEMMA LifeHello ==
    ASSUME ClientInv, Hello, Start \/ Close \/ (\E q \in Queues : Take(q)) \/ UNCHANGED vars
    PROVE  Hello'
<1>1. CASE Start
  <2>1. /\ startup' = "spawning" /\ lifecycle' = "starting"
        /\ UNCHANGED <<ops, writers, draining, process, wire, stdout, answered>>
    BY <1>1 DEF Start, peerVars
  <2>2. InLine' = InLine
    BY <2>1 DEF InLine
  <2>3. Calm
    BY <2>1, <2>2 DEF Calm, Onward, Hello, FirstInLine
  <2>4. AnswersKnown' /\ LinesKnown'
    BY <2>1 DEF Hello, AnswersKnown, LinesKnown
  <2> QED BY <2>3, <2>4, CalmKeeps
<1>2. CASE Close
  <2>1. /\ lifecycle' = "closing" /\ ops' = FailPending(ops)
        /\ UNCHANGED <<startup, writers, draining, process, wire, stdout, answered>>
    BY <1>2 DEF Close, peerVars
  <2>2. InLine' = InLine
    BY <2>1 DEF InLine
  <2>3. \A c \in Ops : /\ FailPending(ops)[c].stage = ops[c].stage
                       /\ FailPending(ops)[c].told = ops[c].told
    BY InvFacts, FailFacts
  <2>4. ASSUME NEW c \in Ops, ops'[c].future \in Requests
        PROVE  ops'[c].future = ops[c].future
    <3>1. CASE ops[c].future = "undone"
      <4>1. ops'[c] = [ops[c] EXCEPT !.future = "failed"]
        BY <2>1, <3>1 DEF FailPending
      <4>2. ops'[c].future = "failed"
        BY <4>1, InvFacts DEF Op
      <4> QED BY <2>4, <4>2, Words
    <3>2. CASE ops[c].future # "undone"
      BY <2>1, <3>2 DEF FailPending
    <3> QED BY <3>1, <3>2
  <2>5. AnswersKnown' /\ LinesKnown'
    BY <2>1, <2>4 DEF Hello, AnswersKnown, LinesKnown
  <2>6. Calm
    BY <2>1, <2>2, <2>3, Words DEF Calm, Onward, Hello, FirstInLine
  <2> QED BY <2>5, <2>6, CalmKeeps
<1>3. CASE (\E q \in Queues : Take(q)) \/ UNCHANGED vars
  <2>1. UNCHANGED <<lifecycle, ops, writers, draining, startup, process, wire, stdout, answered>>
    BY <1>3 DEF Take, peerVars, vars, clientVars
  <2>2. Onward /\ LinesKnown'
    BY <2>1 DEF Onward, Hello, LinesKnown
  <2> QED BY <2>1, <2>2, Unseen
<1> QED BY <1>1, <1>2, <1>3

LEMMA CleanupHello == ASSUME ClientInv, Hello, Cleanup PROVE Hello'
<1>1. CASE CancelTasks
  <2>1. UNCHANGED <<lifecycle, ops, writers, draining, startup, process, wire, answered>>
        /\ stdout' = <<>>
    BY <1>1 DEF CancelTasks
  <2>2. Onward /\ LinesKnown'
    BY <2>1 DEF Onward, LinesKnown
  <2> QED BY <2>1, <2>2, Unseen
<1>2. CASE AwaitWrites \/ Reap \/ MarkClosed
  <2>1. /\ UNCHANGED <<ops, writers, draining, startup, process, wire, stdout, answered>>
        /\ lifecycle' \in {lifecycle, "closed"}
    BY <1>2 DEF AwaitWrites, Reap, MarkClosed, peerVars
  <2>2. Onward /\ LinesKnown'
    BY <2>1 DEF Onward, Hello, LinesKnown
  <2> QED BY <2>1, <2>2, Unseen
<1>3. CASE CancelDrains
  <2>1. /\ ~ draining'
        /\ UNCHANGED <<lifecycle, startup, process, wire, stdout, answered>>
    BY <1>3 DEF CancelDrains, peerVars
  <2>2. LinesKnown'
    BY <2>1 DEF Hello, LinesKnown
  <2>3. CASE ~ draining
    <3>1. UNCHANGED <<ops, writers, draining>> /\ Onward
      BY <1>3, <2>1, <2>3, InvFacts DEF CancelDrains, Onward, WritersOK
    <3> QED BY <2>1, <2>2, <3>1, Unseen
  <2>4. CASE draining
    <3> DEFINE o == Head(writers)
               p == Return(ops, o, "failed")
    <3>1. ops' = p /\ writers' = Tail(writers) /\ writers # <<>>
      BY <1>3, <2>4, Writers DEF CancelDrains
    <3>2. o \in Ops /\ InLine' \subseteq InLine \ {Initialize}
      BY <3>1, Writers, FirstLeaves, HeadTailProperties
    <3>3. /\ OpsOK(p, nextId) /\ Mild(p) /\ \A c \in Ops : c # o => p[c] = ops[c]
          /\ p[o].told = "failed"
      BY <3>2, ToldFacts, ReturnMild
    <3> HIDE DEF o, p
    <3>4. ops'[Initialized].told = "sent" => ops[Initialized].told = "sent"
      BY <3>1, <3>3, Words
    <3>5. Calm
      BY <2>1, <3>1, <3>2, <3>4 DEF Calm, Onward
    <3>6. AnswersKnown'
      BY <2>1, <3>1, <3>3, MildKnown DEF Hello
    <3> QED BY <2>2, <3>5, <3>6, CalmKeeps
  <2> QED BY <2>3, <2>4
<1> QED BY <1>1, <1>2, <1>3 DEF Cleanup

LEMMA PeerHello == ASSUME ClientInv, Hello, Peer \/ Notice PROVE Hello'
<1>1. UNCHANGED <<lifecycle, ops, writers, draining, startup, wire>>
  BY DEF Peer, Notice, PeerAnswers, PeerSpeaks, PeerDies, clientVars
<1>2. CASE PeerDies \/ Notice
  <2>1. UNCHANGED <<stdout, answered>> /\ process # "none" /\ process' \in {"dead", "reaped"}
    BY <1>2 DEF PeerDies, Notice
  <2>2. Onward /\ LinesKnown'
    BY <2>1 DEF Onward, Gone, Hello, LinesKnown
  <2> QED BY <1>1, <2>1, <2>2, Unseen
<1>3. ASSUME NEW l \in Lines, UNCHANGED process, stdout' = Append(stdout, l),
             answered \subseteq answered', l[1] = "answer" => l[3] \in answered'
      PROVE  Hello'
  <2>1. stdout \in Seq(Lines)
    BY InvFacts DEF TrafficOK
  <2>2. /\ Len(stdout') = Len(stdout) + 1 /\ Len(stdout) \in Nat
        /\ \A k \in 1 .. Len(stdout) : stdout'[k] = stdout[k]
        /\ stdout'[Len(stdout) + 1] = l
    BY <1>3, <2>1, AppendProperties, LenProperties
  <2>3. \A k \in 1 .. Len(stdout') : k \in 1 .. Len(stdout) \/ k = Len(stdout) + 1
    BY <2>2
  <2>4. LinesKnown'
    BY <1>3, <2>2, <2>3 DEF Hello, LinesKnown
  <2>5. Onward
    BY <1>3 DEF Onward
  <2> QED BY <1>1, <1>3, <2>4, <2>5, Unseen
<1>4. ASSUME NEW m \in wire, PeerAnswers(m) PROVE Hello'
  <2> DEFINE l == <<"answer", m[2], m[1]>>
  <2>1. /\ m[1] \in Requests /\ UNCHANGED process /\ stdout' = Append(stdout, l)
        /\ answered' = answered \cup {m[1]}
    BY <1>4 DEF PeerAnswers
  <2>2. m[2] \in Nat
    BY <1>4, InvFacts DEF TrafficOK
  <2>3. l \in Lines /\ l[3] = m[1]
    BY <2>1, <2>2 DEF Lines
  <2> HIDE DEF l
  <2> QED BY <1>3, <2>1, <2>3
<1>5. ASSUME NEW l \in Lines, l[1] # "answer", PeerSpeaks(l) PROVE Hello'
  BY <1>3, <1>5 DEF PeerSpeaks
<1>6. \A q \in Queues : <<"message", q>> \in Lines /\ <<"message", q>>[1] # "answer"
  BY DEF Lines
<1>7. <<"garbage">> \in Lines /\ <<"garbage">>[1] # "answer"
  BY DEF Lines
<1> QED BY <1>2, <1>4, <1>5, <1>6, <1>7 DEF Peer

LEMMA HelloStep == ASSUME ClientInv, Hello, [Next]_vars PROVE Hello'
<1>1. CASE Startup
  BY <1>1, SpawnHello, SpawnFailsHello, StartupResumesHello DEF Startup
<1>2. CASE \E o \in Ops : Call(o) \/ Caller(o) \/ Cancel(o)
  BY <1>2, CallHello, WriteHello, DrainEndsHello, EndsHello, CancelHello DEF Caller
<1> QED
  BY <1>1, <1>2, LifeHello, CleanupHello, PeerHello, ReadLineHello, ExitHello DEF Next

\* Only a write sends anything, and then only what is first in line.
LEMMA OnlyWritesSend ==
    ASSUME ClientInv, [Next]_vars, wire' # wire
    PROVE  \E o \in Ops : /\ writers # <<>> /\ o = Head(writers) /\ ~ draining /\ process = "up"
                          /\ wire' = wire \cup {<<o, ops[o].id>>}
<1>1. \/ Start \/ Close \/ (\E q \in Queues : Take(q)) \/ ReadLine \/ Cleanup \/ Notice \/ Peer
      \/ (\E t \in tasks : TaskSeesExit(t)) \/ UNCHANGED vars
      => UNCHANGED wire
  BY DEF Start, Close, Take, ReadLine, Cleanup, CancelTasks, CancelDrains, AwaitWrites, Reap,
         MarkClosed, Notice, Peer, PeerAnswers, PeerSpeaks, PeerDies, TaskSeesExit, vars, peerVars
<1>2. Startup => UNCHANGED wire
  BY DEF Startup, Spawn, SpawnFails, StartupResumes, peerVars
<1>3. ASSUME NEW o \in Ops, Call(o) \/ DrainEnds(o) \/ CallReturns(o) \/ Timeout(o) \/ Cancel(o)
      PROVE  UNCHANGED wire
  BY <1>3 DEF Call, DrainEnds, CallReturns, Timeout, Cancel, peerVars
<1>4. PICK o \in Ops : Write(o)
  BY <1>1, <1>2, <1>3 DEF Next, Caller
<1> QED BY <1>4 DEF Write

\* The handshake comes first, in its order, on the wire as it is promised: "initialize"
\* before anything else, "initialized" after its answer, and every other message after
\* both, whoever waits for the lock and whatever ends meanwhile.
THEOREM HandshakeCorrect == Spec => HandshakeFirst
<1> DEFINE Right(o) == CASE o = Initialize  -> wire = {}
                         [] o = Initialized -> Initialize \in answered
                         [] OTHER -> Sent(Initialized)
<1>1. ASSUME ClientInv, Hello, [Next]_vars, NEW o \in Ops, Sent(o)', ~ Sent(o)
      PROVE  Right(o)
  <2>1. wire' # wire
    BY <1>1 DEF Sent
  <2>2. PICK w \in Ops : /\ writers # <<>> /\ w = Head(writers) /\ ~ draining /\ process = "up"
                         /\ wire' = wire \cup {<<w, ops[w].id>>}
    BY <1>1, <2>1, OnlyWritesSend
  <2>3. w = o
    BY <1>1, <2>2 DEF Sent
  <2>4. o \in InLine
    BY <1>1, <2>2, <2>3, Writers, HeadTailProperties, EmptySeq, LenProperties DEF InLine
  <2>5. CASE o = Initialize
    BY <1>1, <2>2, <2>4, <2>5 DEF Hello, FirstInLine
  <2>6. CASE o = Initialized
    BY <1>1, <2>4, <2>6, Words DEF Hello
  <2>7. CASE o \notin {Initialize, Initialized}
    BY <1>1, <2>2, <2>4, <2>7 DEF Hello, Greeted, Gone
  <2> QED BY <2>5, <2>6, <2>7
<1>2. ClientInv /\ Hello /\ [Next]_vars => [\A o \in Ops : Sent(o)' /\ ~ Sent(o) => Right(o)]_vars
  BY <1>1
<1>3. ClientInv /\ Hello /\ [Next]_vars => Hello'
  BY HelloStep
<1> QED BY <1>2, <1>3, HelloInit, ClientInvCorrect, PTL DEF Spec, HandshakeFirst

=============================================================================
