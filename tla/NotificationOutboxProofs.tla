--------------------- MODULE NotificationOutboxProofs ---------------------
(***************************************************************************)
(* Proofs about NotificationOutbox, for any number of sessions,            *)
(* interactions, hooks, rows and troubles.  An action does one of few      *)
(* things to the outbox, the chat and the worker (OutboxEffects) and to    *)
(* the rows of interactions (RowEffects); the invariants are proved from   *)
(* these.                                                                  *)
(***************************************************************************)
EXTENDS NotificationOutbox, CodexStoreProofs, FiniteSetTheorems, SequenceTheorems

-----------------------------------------------------------------------------
(* Rows of the outbox. *)

States == {"waiting", "due", "sent"}
SameMatter(x, y) == x.kind = y.kind /\ x.about = y.about

\* What kind a row is and what it is about belong together.
Apt(kind, x) ==
    \/ kind \in {"question", "news"} /\ x \in Interactions
    \/ kind = "session" /\ x \in Sessions
    \/ kind = "hook" /\ x \in Hooks

\* A new row waits, untried.
LEMMA NewRowFacts ==
    ASSUME NEW kind, NEW x, Apt(kind, x)
    PROVE  LET r == NewRow(kind, x) IN
           /\ r \in OutboxRow /\ r.kind = kind /\ r.about = x
           /\ r.state = "waiting" /\ r.attempts = 0
BY DEF Apt, NewRow, OutboxRow, RowsOf

\* The columns of a row.
LEMMA RowFacts ==
    ASSUME NEW r \in OutboxRow
    PROVE  r.state \in States /\ r.attempts \in Nat /\ Apt(r.kind, r.about)
BY DEF Apt, OutboxRow, RowsOf, States

\* The state of a row changes, nothing else of it.
LEMMA StateFacts ==
    ASSUME NEW r \in OutboxRow, NEW st \in States
    PROVE  LET y == [r EXCEPT !.state = st] IN
           /\ y \in OutboxRow /\ SameMatter(y, r)
           /\ y.state = st /\ y.attempts = r.attempts
BY DEF OutboxRow, RowsOf, States, SameMatter

\* A row that is tried again.
LEMMA RetryFacts ==
    ASSUME NEW r \in OutboxRow
    PROVE  LET y == Retried(r) IN
           /\ y \in OutboxRow /\ SameMatter(y, r)
           /\ y.state = "waiting" /\ y.attempts = r.attempts + 1
<1> DEFINE y == Retried(r)
<1>1. r.attempts \in Nat
  BY RowFacts
<1>2. y = [r EXCEPT !.state = "waiting", !.attempts = r.attempts + 1]
  BY DEF OutboxRow, RowsOf, Retried
<1>3. r.attempts + 1 \in Nat
  BY <1>1
<1>4. ASSUME NEW n \in Nat
      PROVE  LET z == [r EXCEPT !.state = "waiting", !.attempts = n] IN
             z \in OutboxRow /\ SameMatter(z, r) /\ z.state = "waiting" /\ z.attempts = n
  BY DEF OutboxRow, RowsOf, SameMatter
<1> HIDE DEF y
<1>5. y \in OutboxRow /\ SameMatter(y, r) /\ y.state = "waiting" /\ y.attempts = r.attempts + 1
  BY <1>2, <1>3, <1>4
<1> QED BY <1>5 DEF y

-----------------------------------------------------------------------------
(* The basis of the other invariants. *)

WorkerRow(R, D) ==
    [state : {"off", "idle", "sending", "dead"}, batch : SUBSET R,
     item : R \cup {0}, receipt : D \cup {0}]

\* Only a worker that sends has an item and a receipt, which is that of the item; only one
\* that runs has a batch; and what is in its hands is due.
WorkerOK ==
    /\ worker.state = "sending" =>
           /\ worker.item \in Rows \ worker.batch
           /\ outbox[worker.item].state = "due"
    /\ worker.state # "sending" => worker.item = 0 /\ worker.receipt = 0
    /\ worker.state \in {"off", "dead"} => worker.batch = {}
    /\ worker.receipt # 0 => posted[worker.receipt] = worker.item
    /\ \A o \in worker.batch : outbox[o].state = "due"

\* What was settled has been posted.
SentWasPosted == \A o \in Rows : outbox[o].state = "sent" => CopiesOf(o) # {}

Base == OutboxTypeOK /\ WorkerOK /\ SentWasPosted

\* The outbox and the chat are sequences.
LEMMA SequenceFacts ==
    ASSUME OutboxTypeOK
    PROVE  /\ Len(outbox) \in Nat /\ outbox \in [Rows -> OutboxRow]
           /\ Len(posted) \in Nat /\ DOMAIN posted = 1 .. Len(posted) /\ 0 \notin DOMAIN posted
           /\ \A m \in DOMAIN posted : posted[m] \in Rows
           /\ 0 \notin Rows /\ Rows \subseteq Nat
BY LenProperties, SMTT(30) DEF OutboxTypeOK, Rows

\* The parts of the worker.
LEMMA WorkerFacts ==
    ASSUME OutboxTypeOK
    PROVE  /\ worker \in WorkerRow(Rows, DOMAIN posted)
           /\ worker.state \in {"off", "idle", "sending", "dead"}
           /\ worker.batch \subseteq Rows /\ worker.item \in Rows \cup {0}
           /\ worker.receipt \in DOMAIN posted \cup {0}
BY DEF OutboxTypeOK, WorkerRow

\* The workers that actions make.
LEMMA WorkerValues ==
    ASSUME NEW R, NEW D
    PROVE  /\ Off \in WorkerRow(R, D) /\ Dead \in WorkerRow(R, D)
           /\ \A B \in SUBSET R : Idle(B) \in WorkerRow(R, D)
           /\ \A B \in SUBSET R, o \in R : Sending(o, B) \in WorkerRow(R, D)
BY DEF Off, Dead, Idle, Sending, WorkerRow

\* Their parts.
LEMMA WorkerParts ==
    /\ Off.state = "off" /\ Off.batch = {} /\ Off.item = 0 /\ Off.receipt = 0
    /\ Dead.state = "dead" /\ Dead.batch = {} /\ Dead.item = 0 /\ Dead.receipt = 0
    /\ \A B : Idle(B).state = "idle" /\ Idle(B).batch = B /\ Idle(B).item = 0
              /\ Idle(B).receipt = 0
    /\ \A B, o : Sending(o, B).state = "sending" /\ Sending(o, B).batch = B
                 /\ Sending(o, B).item = o /\ Sending(o, B).receipt = 0
BY DEF Off, Dead, Idle, Sending

-----------------------------------------------------------------------------
(* What actions do to the outbox, the chat and the worker. *)

\* Rows are appended, by an orchestrator, a hook or a start.
Growing ==
    /\ outbox' \in Seq(OutboxRow) /\ Len(outbox') \in Nat /\ Len(outbox') <= MaxRows
    /\ Rows \subseteq Rows'
    /\ \A o \in Rows : outbox'[o] = outbox[o]
    /\ \A o \in Rows' \ Rows : outbox'[o].state = "waiting" /\ outbox'[o].attempts = 0
    /\ posted' = posted
    /\ worker' = worker \/ (worker.state = "off" /\ worker' = Idle({}))
    /\ troubles' = troubles

\* Row o becomes r, which is about the same matter.
Becomes(o, r) ==
    /\ outbox' \in Seq(OutboxRow) /\ Len(outbox') = Len(outbox)
    /\ SameMatter(r, outbox[o])
    /\ outbox'[o] = r
    /\ \A p \in Rows \ {o} : outbox'[p] = outbox[p]

Due(o) == [outbox[o] EXCEPT !.state = "due"]
Sent(o) == [outbox[o] EXCEPT !.state = "sent"]
Again(o) == Retried(outbox[o])

Elapsing(o) ==
    /\ outbox[o].state = "waiting"
    /\ outbox[o].attempts = 0 =>
           \A p \in Rows : p < o /\ outbox[p].attempts = 0 => outbox[p].state # "waiting"
    /\ Becomes(o, Due(o))
    /\ UNCHANGED <<posted, worker, troubles>>

Acknowledging ==
    /\ worker.receipt # 0
    /\ Becomes(worker.item, Sent(worker.item))
    /\ worker' = Idle(worker.batch)
    /\ UNCHANGED <<posted, troubles>>

Retrying ==
    /\ worker.state = "sending"
    /\ Becomes(worker.item, Again(worker.item))
    /\ worker' = Idle(worker.batch)
    /\ posted' = posted /\ troubles'.stops = troubles.stops

Breaking ==
    /\ worker.state \in {"idle", "sending"} /\ worker' = Dead
    /\ UNCHANGED <<outbox, posted>> /\ troubles'.stops = troubles.stops

Stopping ==
    /\ worker' = Off
    /\ UNCHANGED <<outbox, posted>> /\ troubles'.stops = troubles.stops + 1

Resting == UNCHANGED outboxVars /\ troubles'.stops = troubles.stops

Listing ==
    /\ worker = Idle({}) /\ worker' = Idle(DueRows(Rows))
    /\ UNCHANGED <<outbox, posted, troubles>>

Taking(o) ==
    /\ worker.state = "idle" /\ o \in worker.batch
    /\ outbox[o].attempts = 0 =>
           \A p \in worker.batch : outbox[p].attempts = 0 => o <= p
    /\ worker' = Sending(o, worker.batch \ {o})
    /\ UNCHANGED <<outbox, posted, troubles>>

Posting ==
    /\ worker.state = "sending" /\ worker.receipt = 0
    /\ Len(posted) + 1 \in Messages
    /\ posted' = Append(posted, worker.item)
    /\ worker' = [worker EXCEPT !.receipt = Len(posted) + 1]
    /\ UNCHANGED <<outbox, troubles>>

Effect ==
    \/ Growing \/ Acknowledging \/ Retrying \/ Breaking \/ Stopping \/ Resting \/ Listing
    \/ Posting \/ \E o \in Rows : Elapsing(o) \/ Taking(o)

\* Rows that wait, untried, are appended.
LEMMA EnqueueGrows ==
    ASSUME Base, NEW rows \in Seq(OutboxRow), Enqueue(rows),
           \A n \in 1 .. Len(rows) : rows[n].state = "waiting" /\ rows[n].attempts = 0,
           posted' = posted, troubles' = troubles,
           worker' = worker \/ (worker.state = "off" /\ worker' = Idle({}))
    PROVE  /\ Growing
           /\ \A o \in Rows' \ Rows : o - Len(outbox) \in 1 .. Len(rows)
                                      /\ outbox'[o] = rows[o - Len(outbox)]
<1>1. outbox \in Seq(OutboxRow) /\ outbox' = outbox \o rows /\ Len(outbox) + Len(rows) <= MaxRows
  BY DEF Base, OutboxTypeOK, Enqueue
<1>2. /\ outbox' \in Seq(OutboxRow) /\ Len(outbox') = Len(outbox) + Len(rows)
      /\ \A i \in 1 .. Len(outbox) + Len(rows) :
            outbox'[i] = IF i <= Len(outbox) THEN outbox[i] ELSE rows[i - Len(outbox)]
  BY <1>1, ConcatProperties
<1>3. Len(outbox) \in Nat /\ Len(rows) \in Nat
  BY <1>1, LenProperties
<1>4. \A o \in Rows : o \in Rows' /\ outbox'[o] = outbox[o]
  BY <1>2, <1>3 DEF Rows
<1>5. \A o \in Rows' \ Rows : o - Len(outbox) \in 1 .. Len(rows)
                              /\ outbox'[o] = rows[o - Len(outbox)]
  BY <1>2, <1>3 DEF Rows
<1>6. Len(outbox') <= MaxRows
  BY <1>1, <1>2
<1>7. Len(outbox') \in Nat
  BY <1>2, <1>3
<1> QED BY <1>2, <1>4, <1>5, <1>6, <1>7 DEF Growing

\* One row is appended.
LEMMA EnqueueOne ==
    ASSUME Base, NEW kind, NEW x, Apt(kind, x), Enqueue(<<NewRow(kind, x)>>),
           posted' = posted, troubles' = troubles, worker' = worker
    PROVE  /\ Growing
           /\ \A o \in Rows' \ Rows : outbox'[o].kind = kind /\ outbox'[o].about = x
           /\ Len(outbox) + 1 \in Rows' \ Rows
<1> DEFINE rows == <<NewRow(kind, x)>>
<1>1. NewRow(kind, x) \in OutboxRow
  BY NewRowFacts
<1>2. rows \in Seq(OutboxRow) /\ Len(rows) = 1 /\ rows[1] = NewRow(kind, x)
  BY <1>1
<1>3. \A n \in 1 .. Len(rows) : rows[n] = NewRow(kind, x)
  BY <1>2
<1>4. \A n \in 1 .. Len(rows) : rows[n].state = "waiting" /\ rows[n].attempts = 0
  BY <1>3, NewRowFacts
<1>5. Enqueue(rows)
  OBVIOUS
<1>6. Len(outbox) \in Nat /\ Len(outbox') = Len(outbox) + 1
  <2>1. outbox \in Seq(OutboxRow) /\ outbox' = outbox \o rows
    BY DEF Base, OutboxTypeOK, Enqueue
  <2> QED BY <1>2, <2>1, ConcatProperties, LenProperties
<1> HIDE DEF rows
<1>7. Growing /\ \A o \in Rows' \ Rows : o - Len(outbox) \in 1 .. Len(rows)
                                         /\ outbox'[o] = rows[o - Len(outbox)]
  BY <1>2, <1>4, <1>5, EnqueueGrows
<1>8. \A o \in Rows' \ Rows : outbox'[o] = NewRow(kind, x)
  BY <1>3, <1>7
<1>9. \A o \in Rows' \ Rows : outbox'[o].kind = kind /\ outbox'[o].about = x
  BY <1>8, NewRowFacts
<1> QED BY <1>6, <1>7, <1>9 DEF Rows

\* One row changes.
LEMMA RowBecomes ==
    ASSUME Base, NEW o \in Rows, NEW r \in OutboxRow, SameMatter(r, outbox[o]),
           outbox' = [outbox EXCEPT ![o] = r]
    PROVE  Becomes(o, r)
<1>1. outbox \in Seq(OutboxRow) /\ o \in 1 .. Len(outbox)
  BY DEF Base, OutboxTypeOK, Rows
<1>2. /\ outbox' \in Seq(OutboxRow) /\ Len(outbox') = Len(outbox)
      /\ \A j \in 1 .. Len(outbox) : outbox'[j] = IF j = o THEN r ELSE outbox[j]
  BY <1>1, ExceptSeq
<1> QED BY <1>1, <1>2 DEF Becomes, Rows

\* A trouble counts.
LEMMA SufferFacts ==
    ASSUME OutboxTypeOK, NEW what \in {"failures", "stops", "errors"}, Suffer(what)
    PROVE  /\ troubles' \in [failures : Nat, stops : Nat, errors : Nat]
           /\ what = "stops" => troubles'.stops = troubles.stops + 1
           /\ what # "stops" => troubles'.stops = troubles.stops
<1> DEFINE T == [failures : Nat, stops : Nat, errors : Nat]
<1>1. troubles \in T
  BY DEF OutboxTypeOK
<1>2. troubles' = [troubles EXCEPT ![what] = troubles[what] + 1]
  BY DEF Suffer
<1>3. CASE what = "stops"
  BY <1>1, <1>2, <1>3
<1>4. CASE what = "failures"
  BY <1>1, <1>2, <1>4
<1>5. CASE what = "errors"
  BY <1>1, <1>2, <1>5
<1> QED BY <1>3, <1>4, <1>5

\* The rows that a start adds: each thing once.
LEMMA ListedFacts ==
    ASSUME NEW kind, NEW S, IsFiniteSet(S), \A x \in S : Apt(kind, x), NEW a \in Listed(kind, S)
    PROVE  /\ a \in Seq(OutboxRow)
           /\ \A n \in 1 .. Len(a) :
                 /\ a[n].kind = kind /\ a[n].about \in S
                 /\ a[n].state = "waiting" /\ a[n].attempts = 0
           /\ \A m, n \in 1 .. Len(a) : a[m].about = a[n].about => m = n
<1> DEFINE N == Cardinality(S)
<1>1. N \in Nat
  BY FS_CardinalityType
<1>2. PICK q \in [1 .. N -> S] :
          /\ \A m, n \in DOMAIN q : q[m] = q[n] => m = n
          /\ a = [n \in DOMAIN q |-> NewRow(kind, q[n])]
  BY DEF Listed
<1> HIDE DEF N
<1>3. DOMAIN q = 1 .. N /\ \A n \in 1 .. N : q[n] \in S
  BY <1>2
<1>4. a = [n \in 1 .. N |-> NewRow(kind, q[n])]
  BY <1>2, <1>3
<1>5. ASSUME NEW n \in 1 .. N
      PROVE  /\ a[n] \in OutboxRow /\ a[n].kind = kind /\ a[n].about = q[n]
             /\ a[n].state = "waiting" /\ a[n].attempts = 0
  <2>1. a[n] = NewRow(kind, q[n]) /\ Apt(kind, q[n])
    BY <1>3, <1>4
  <2> QED BY <2>1, NewRowFacts
<1>6. a \in [1 .. N -> OutboxRow]
  BY <1>4, <1>5
<1>7. a \in Seq(OutboxRow) /\ Len(a) = N
  BY <1>1, <1>6
<1>8. ASSUME NEW n \in 1 .. Len(a)
      PROVE  /\ a[n].kind = kind /\ a[n].about \in S
             /\ a[n].state = "waiting" /\ a[n].attempts = 0
  <2>1. n \in 1 .. N
    BY <1>7
  <2> QED BY <1>3, <1>5, <2>1
<1>9. ASSUME NEW m \in 1 .. Len(a), NEW n \in 1 .. Len(a), a[m].about = a[n].about
      PROVE  m = n
  <2>1. m \in 1 .. N /\ n \in 1 .. N
    BY <1>7
  <2>2. q[m] = q[n]
    BY <1>5, <1>9, <2>1
  <2> QED BY <1>2, <1>3, <2>1, <2>2
<1> QED BY <1>7, <1>8, <1>9

\* A start adds the hooks of the spool and the sessions it ends.
LEMMA StartRows ==
    ASSUME Base, NEW a \in Listed("hook", spool \ seen),
           NEW b \in Listed("session", {s \in Sessions : Active(s)}), Enqueue(a \o b),
           posted' = posted, troubles' = troubles, worker.state = "off", worker' = Idle({})
    PROVE  /\ Growing
           /\ \A o \in Rows' \ Rows :
                 /\ outbox'[o].kind \in {"hook", "session"}
                 /\ outbox'[o].kind = "hook" => outbox'[o].about \in spool \ seen
           /\ \A o, p \in Rows' \ Rows :
                 outbox'[o].kind = "hook" /\ outbox'[p].kind = "hook"
                 /\ outbox'[o].about = outbox'[p].about => o = p
<1>1. IsFiniteSet(spool \ seen) /\ \A h \in spool \ seen : Apt("hook", h)
  <2>1. spool \ seen \in SUBSET Hooks
    BY DEF Base, OutboxTypeOK
  <2> QED BY <2>1, OutboxAssumption, FS_Subset DEF Apt
<1>2. /\ IsFiniteSet({s \in Sessions : Active(s)})
      /\ \A s \in {x \in Sessions : Active(x)} : Apt("session", s)
  <2>1. {s \in Sessions : Active(s)} \in SUBSET Sessions
    OBVIOUS
  <2> QED BY <2>1, OutboxAssumption, FS_Subset DEF Apt
<1>3. /\ a \in Seq(OutboxRow)
      /\ \A n \in 1 .. Len(a) :
            /\ a[n].kind = "hook" /\ a[n].about \in spool \ seen
            /\ a[n].state = "waiting" /\ a[n].attempts = 0
      /\ \A m, n \in 1 .. Len(a) : a[m].about = a[n].about => m = n
  BY <1>1, ListedFacts
<1>4. /\ b \in Seq(OutboxRow)
      /\ \A n \in 1 .. Len(b) :
            /\ b[n].kind = "session" /\ b[n].state = "waiting" /\ b[n].attempts = 0
  BY <1>2, ListedFacts
<1> DEFINE rows == a \o b
<1>5. /\ rows \in Seq(OutboxRow) /\ Len(rows) = Len(a) + Len(b)
      /\ \A i \in 1 .. Len(rows) : rows[i] = IF i <= Len(a) THEN a[i] ELSE b[i - Len(a)]
  BY <1>3, <1>4, ConcatProperties
<1>6. Len(a) \in Nat /\ Len(b) \in Nat
  BY <1>3, <1>4, LenProperties
<1> HIDE DEF rows
<1>7. \A i \in 1 .. Len(rows) :
          \/ i \in 1 .. Len(a) /\ rows[i] = a[i]
          \/ i \notin 1 .. Len(a) /\ i - Len(a) \in 1 .. Len(b) /\ rows[i] = b[i - Len(a)]
  BY <1>5, <1>6
<1>8. \A i \in 1 .. Len(rows) :
          /\ rows[i].state = "waiting" /\ rows[i].attempts = 0
          /\ rows[i].kind \in {"hook", "session"}
          /\ rows[i].kind = "hook" => i \in 1 .. Len(a) /\ rows[i] = a[i]
  <2> SUFFICES ASSUME NEW i \in 1 .. Len(rows)
               PROVE  /\ rows[i].state = "waiting" /\ rows[i].attempts = 0
                      /\ rows[i].kind \in {"hook", "session"}
                      /\ rows[i].kind = "hook" => i \in 1 .. Len(a) /\ rows[i] = a[i]
    OBVIOUS
  <2>1. CASE i \in 1 .. Len(a) /\ rows[i] = a[i]
    BY <1>3, <2>1
  <2>2. CASE i - Len(a) \in 1 .. Len(b) /\ rows[i] = b[i - Len(a)]
    <3>1. rows[i].kind = "session" /\ rows[i].state = "waiting" /\ rows[i].attempts = 0
      BY <1>4, <2>2
    <3> QED BY <3>1
  <2> QED BY <1>7, <2>1, <2>2
<1>9. Enqueue(rows)
  BY DEF rows
<1>10. Growing /\ \A o \in Rows' \ Rows : o - Len(outbox) \in 1 .. Len(rows)
                                          /\ outbox'[o] = rows[o - Len(outbox)]
  BY <1>5, <1>8, <1>9, EnqueueGrows
<1>11. ASSUME NEW o \in Rows' \ Rows, outbox'[o].kind = "hook"
       PROVE  /\ outbox'[o] = a[o - Len(outbox)] /\ o - Len(outbox) \in 1 .. Len(a)
              /\ outbox'[o].about \in spool \ seen
  BY <1>3, <1>8, <1>10, <1>11
<1>12. ASSUME NEW o \in Rows' \ Rows, NEW p \in Rows' \ Rows,
              outbox'[o].kind = "hook", outbox'[p].kind = "hook",
              outbox'[o].about = outbox'[p].about
       PROVE  o = p
  <2>1. o - Len(outbox) = p - Len(outbox)
    BY <1>3, <1>11, <1>12
  <2>2. Len(outbox) \in Nat /\ o \in Nat /\ p \in Nat
    BY <1>10, SequenceFacts DEF Base, Growing, Rows
  <2> QED BY <2>1, <2>2
<1> QED BY <1>8, <1>10, <1>11, <1>12

\* Rescheduling a row makes it wait again.
LEMMA RescheduleBecomes ==
    ASSUME Base, NEW o \in Rows, Reschedule(o)
    PROVE  Becomes(o, Again(o))
<1>1. outbox[o] \in OutboxRow
  BY SequenceFacts DEF Base
<1>2. Again(o) \in OutboxRow /\ SameMatter(Again(o), outbox[o])
  BY <1>1, RetryFacts DEF Again
<1>4. outbox' = [outbox EXCEPT ![o] = Again(o)]
  BY DEF Reschedule, Again
<1> QED BY <1>2, <1>4, RowBecomes

\* Who sends has an item, and who has a receipt sends.
LEMMA ItemFacts ==
    ASSUME Base
    PROVE  /\ worker.state = "sending" => worker.item \in Rows
           /\ worker.receipt # 0 => worker.state = "sending"
BY DEF Base, WorkerOK

\* An acknowledged row is sent.
LEMMA AcknowledgeFacts == ASSUME Base, Acknowledge PROVE Acknowledging
<1>1. worker.receipt # 0 /\ worker.item \in Rows
  BY ItemFacts DEF Acknowledge
<1>2. outbox[worker.item] \in OutboxRow
  BY <1>1, SequenceFacts DEF Base
<1>3. Sent(worker.item) \in OutboxRow /\ SameMatter(Sent(worker.item), outbox[worker.item])
  BY <1>2, StateFacts DEF Sent, States
<1>4. outbox' = [outbox EXCEPT ![worker.item] = Sent(worker.item)]
  BY <1>1, SequenceFacts DEF Acknowledge, Sent, Base
<1>5. Becomes(worker.item, Sent(worker.item))
  BY <1>1, <1>3, <1>4, RowBecomes
<1> QED BY <1>1, <1>5 DEF Acknowledge, Acknowledging

\* Two ways to try again.
LEMMA RetryingFacts == ASSUME Base, MarkBreaks \/ SendFails PROVE Retrying
<1>0. OutboxTypeOK
  BY DEF Base
<1>1. worker.state = "sending" /\ worker.item \in Rows /\ Reschedule(worker.item)
  BY ItemFacts DEF MarkBreaks, SendFails
<1>2. Suffer("errors") \/ Suffer("failures")
  BY DEF MarkBreaks, SendFails, StoreRaises
<1>3. troubles'.stops = troubles.stops
  BY <1>0, <1>2, SufferFacts
<1>4. worker' = Idle(worker.batch) /\ posted' = posted
  BY DEF MarkBreaks, SendFails
<1> QED BY <1>1, <1>3, <1>4, RescheduleBecomes DEF Retrying

\* A delay that ends makes a row due.
LEMMA ElapseFacts == ASSUME Base, NEW o \in Rows, Elapse(o) PROVE Elapsing(o)
<1>1. outbox[o] \in OutboxRow
  BY SequenceFacts DEF Base
<1>2. Due(o) \in OutboxRow /\ SameMatter(Due(o), outbox[o])
  BY <1>1, StateFacts DEF Due, States
<1>3. outbox' = [outbox EXCEPT ![o] = Due(o)]
  BY SequenceFacts DEF Elapse, Due, Base
<1>4. Becomes(o, Due(o))
  BY <1>2, <1>3, RowBecomes
<1>5. outbox[o].attempts = 0 =>
          \A p \in Rows : p < o /\ outbox[p].attempts = 0 => outbox[p].state # "waiting"
  <2>1. \A p \in Rows : p < o => p \in 1 .. o - 1
    BY SequenceFacts DEF Base, Rows
  <2> QED BY <2>1 DEF Elapse, Fresh
<1> QED BY <1>4, <1>5 DEF Elapse, Elapsing

\* The next row of a batch.
LEMMA SendFacts == ASSUME Base, NEW o \in Rows, Send(o) PROVE Taking(o)
BY DEF Send, NextUp, Fresh, Taking

\* The ways in which the worker ends.
LEMMA BreakingFacts == ASSUME Base, ListBreaks \/ RescheduleBreaks PROVE Breaking
<1>1. OutboxTypeOK
  BY DEF Base
<1>2. troubles'.stops = troubles.stops
  BY <1>1, SufferFacts DEF ListBreaks, RescheduleBreaks, StoreRaises
<1>3. worker.state \in {"idle", "sending"}
  BY WorkerParts DEF ListBreaks, RescheduleBreaks
<1> QED BY <1>2, <1>3 DEF ListBreaks, RescheduleBreaks, Breaking

\* What the orchestrator does with the outbox.
LEMMA OrchestratorEffect == ASSUME Base, Orchestrator PROVE Effect
<1>1. ASSUME NEW s \in Sessions, NewSession(s) PROVE Effect
  BY <1>1 DEF NewSession, Effect, Resting
<1>2. ASSUME NEW s \in Sessions, NEW status \in Outcomes, EndSession(s, status) PROVE Effect
  <2>1. Apt("session", s)
    BY DEF Apt
  <2> QED BY <1>2, <2>1, EnqueueOne DEF EndSession, Effect
<1>3. ASSUME NEW i \in Interactions, NEW s \in Sessions, NEW r \in Requests, NEW k \in Kinds,
             Question(i, s, r, k)
      PROVE  Effect
  <2>1. Apt("question", i)
    BY DEF Apt
  <2> QED BY <1>3, <2>1, EnqueueOne DEF Question, Effect
<1>4. ASSUME NEW i \in Interactions, NEW d \in Decisions, NEW a \in Actors,
             DecideElsewhere(i, d, a)
      PROVE  Effect
  BY <1>4 DEF DecideElsewhere, Effect, Resting
<1>5. ASSUME NEW i \in Interactions, Withdraw(i) PROVE Effect
  BY <1>5 DEF Withdraw, Effect, Resting
<1>6. ASSUME NEW i \in Interactions, TellResolved(i) PROVE Effect
  <2>1. Apt("news", i)
    BY DEF Apt
  <2> QED BY <1>6, <2>1, EnqueueOne DEF TellResolved, Effect
<1> QED BY <1>1, <1>2, <1>3, <1>4, <1>5, <1>6 DEF Orchestrator

\* What hooks do with it.
LEMMA CallbackEffect == ASSUME Base, Callback PROVE Effect
<1>0. OutboxTypeOK
  BY DEF Base
<1>1. ASSUME NEW h \in Hooks, NEW heard \in BOOLEAN, Ingest(h, heard) PROVE Effect
  <2>1. Apt("hook", h)
    BY DEF Apt
  <2> QED BY <1>1, <2>1, EnqueueOne DEF Ingest, Effect
<1>2. ASSUME NEW h \in Hooks, IngestBreaks(h) \/ StartBreaks(h) PROVE Effect
  <2>1. Suffer("errors") /\ UNCHANGED outboxVars
    BY <1>2 DEF IngestBreaks, StartBreaks, StoreRaises
  <2> QED BY <1>0, <2>1, SufferFacts DEF Effect, Resting
<1>3. ASSUME NEW h \in Hooks, SpoolHook(h) PROVE Effect
  BY <1>3 DEF SpoolHook, Effect, Resting
<1> QED BY <1>1, <1>2, <1>3 DEF Callback

\* What the worker does.
LEMMA WorkerEffect == ASSUME Base, Worker PROVE Effect
<1>1. CASE ListDue
  BY <1>1 DEF ListDue, Listing, Effect
<1>2. CASE Acknowledge
  BY <1>2, AcknowledgeFacts DEF Effect
<1>3. CASE SendFails \/ MarkBreaks
  BY <1>3, RetryingFacts DEF Effect
<1>4. CASE ListBreaks \/ RescheduleBreaks
  BY <1>4, BreakingFacts DEF Effect
<1>5. ASSUME NEW o \in Rows, Send(o) PROVE Effect
  BY <1>5, SendFacts DEF Effect
<1> QED BY <1>1, <1>2, <1>3, <1>4, <1>5 DEF Worker

\* Every step does one of these things.
LEMMA OutboxEffects == ASSUME Base, [Next]_vars PROVE Effect
<1>0. OutboxTypeOK
  BY DEF Base
<1>1. CASE Orchestrator
  BY <1>1, OrchestratorEffect
<1>2. CASE Callback
  BY <1>2, CallbackEffect
<1>3. CASE Worker
  BY <1>3, WorkerEffect
<1>4. CASE Router
  BY <1>4 DEF Router, Reply, Effect, Resting
<1>5. CASE LarkPosts
  BY <1>5 DEF LarkPosts, Posting, Effect
<1>6. CASE Start
  <2>1. PICK a \in Listed("hook", spool \ seen),
             b \in Listed("session", {s \in Sessions : Active(s)}) : Enqueue(a \o b)
    BY <1>6 DEF Start
  <2>2. worker.state = "off"
    BY <1>6 DEF Start, Running
  <2> QED BY <1>6, <2>1, <2>2, StartRows DEF Start, Effect
<1>7. CASE Stop
  <2>1. troubles'.stops = troubles.stops + 1
    BY <1>0, <1>7, SufferFacts DEF Stop
  <2> QED BY <1>7, <2>1 DEF Stop, Stopping, Effect
<1>8. ASSUME NEW o \in Rows, Elapse(o) PROVE Effect
  BY <1>8, ElapseFacts DEF Effect
<1>9. CASE UNCHANGED vars
  BY <1>9 DEF vars, Effect, Resting
<1> QED BY <1>1, <1>2, <1>3, <1>4, <1>5, <1>6, <1>7, <1>8, <1>9 DEF Next

-----------------------------------------------------------------------------
(* The basis is kept. *)

\* The types of the tables of events and of the spool, and of what is counted.
EventOK ==
    /\ seen \subseteq Hooks \cup Events /\ spool \subseteq Hooks
    /\ hooks \in [Hooks -> {"new", "told"}]
    /\ troubles \in [failures : Nat, stops : Nat, errors : Nat]

\* Actions keep them.
LEMMA EventStep == ASSUME OutboxTypeOK, [Next]_vars PROVE EventOK'
<1>0. EventOK
  BY DEF OutboxTypeOK, EventOK
<1> DEFINE Calm == UNCHANGED <<seen, spool, hooks, troubles>>
           TypedTroubles == troubles' \in [failures : Nat, stops : Nat, errors : Nat]
<1>1. \A what \in {"failures", "stops", "errors"} : Suffer(what) => TypedTroubles
  BY SufferFacts
<1> HIDE DEF TypedTroubles
<1>2. CASE Orchestrator
  <2>1. Calm
    BY <1>2 DEF Orchestrator, NewSession, EndSession, Question, DecideElsewhere, Withdraw,
       TellResolved, eventVars
  <2> QED BY <1>0, <2>1 DEF EventOK
<1>3. CASE Callback
  <2>1. PICK h \in Hooks : (\E heard \in BOOLEAN : Ingest(h, heard)) \/ IngestBreaks(h)
                           \/ SpoolHook(h) \/ StartBreaks(h)
    BY <1>3 DEF Callback
  <2>2. /\ seen' = seen \cup {h} \/ seen' = seen
        /\ spool' = spool \cup {h} \/ spool' = spool
        /\ hooks' = [hooks EXCEPT ![h] = "told"] \/ hooks' = hooks
        /\ troubles' = troubles \/ Suffer("errors")
    BY <2>1 DEF Ingest, IngestBreaks, SpoolHook, StartBreaks, StoreRaises
  <2>3. TypedTroubles
    BY <1>0, <1>1, <2>2 DEF EventOK, TypedTroubles
  <2>4. hooks' \in [Hooks -> {"new", "told"}]
    BY <1>0, <2>2 DEF EventOK
  <2>5. seen' \subseteq Hooks \cup Events /\ spool' \subseteq Hooks
    BY <1>0, <2>2 DEF EventOK
  <2> QED BY <2>3, <2>4, <2>5 DEF EventOK, TypedTroubles
<1>4. CASE Worker
  <2>1. UNCHANGED <<seen, spool, hooks>>
        /\ (troubles' = troubles \/ Suffer("errors") \/ Suffer("failures"))
    BY <1>4 DEF Worker, ListDue, Acknowledge, SendFails, MarkBreaks, ListBreaks, RescheduleBreaks,
       Send, eventVars, StoreRaises
  <2> QED BY <1>0, <1>1, <2>1 DEF EventOK, TypedTroubles
<1>5. CASE Router
  <2>1. PICK e \in Events : seen' = seen \cup {e} /\ UNCHANGED <<hooks, spool, troubles>>
    BY <1>5 DEF Router, Reply
  <2> QED BY <1>0, <2>1 DEF EventOK
<1>6. CASE LarkPosts \/ \E o \in Rows : Elapse(o)
  <2>1. Calm
    BY <1>6 DEF LarkPosts, Elapse, eventVars
  <2> QED BY <1>0, <2>1 DEF EventOK
<1>7. CASE Start
  <2>1. spool' \subseteq spool /\ seen' = seen \cup spool /\ UNCHANGED <<hooks, troubles>>
    BY <1>7 DEF Start
  <2> QED BY <1>0, <2>1 DEF EventOK
<1>8. CASE Stop
  <2>1. UNCHANGED <<seen, spool, hooks>> /\ Suffer("stops")
    BY <1>8 DEF Stop, eventVars
  <2> QED BY <1>0, <1>1, <2>1 DEF EventOK, TypedTroubles
<1>9. CASE UNCHANGED vars
  <2>1. Calm
    BY <1>9 DEF vars, eventVars
  <2> QED BY <1>0, <2>1 DEF EventOK
<1> QED BY <1>2, <1>3, <1>4, <1>5, <1>6, <1>7, <1>8, <1>9 DEF Next

\* The types of the rest.
ShapeOK ==
    /\ outbox \in Seq(OutboxRow) /\ Len(outbox) <= MaxRows
    /\ posted \in Seq(Rows) /\ DOMAIN posted \subseteq Messages
    /\ worker \in WorkerRow(Rows, DOMAIN posted)

\* A longer outbox has room for what pointed into the shorter one.
LEMMA WiderWorker ==
    ASSUME NEW R, NEW Q, R \subseteq Q, NEW D, NEW w \in WorkerRow(R, D)
    PROVE  w \in WorkerRow(Q, D)
BY DEF WorkerRow

\* Rows that are appended disturb nobody.
LEMMA GrowingKeeps == ASSUME Base, Growing PROVE (ShapeOK /\ WorkerOK /\ SentWasPosted)'
<1>1. posted \in Seq(Rows) /\ DOMAIN posted \subseteq Messages
  BY DEF Base, OutboxTypeOK
<1>2. posted' \in Seq(Rows') /\ DOMAIN posted' \subseteq Messages
  BY <1>1, SeqMonotonic DEF Growing
<1>3. worker' \in WorkerRow(Rows', DOMAIN posted')
  <2>1. worker \in WorkerRow(Rows', DOMAIN posted)
    BY WorkerFacts, WiderWorker DEF Base, Growing
  <2>2. Idle({}) \in WorkerRow(Rows', DOMAIN posted)
    BY WorkerValues
  <2> QED BY <2>1, <2>2 DEF Growing
<1>4. ShapeOK'
  BY <1>2, <1>3 DEF ShapeOK, Growing
<1>5. WorkerOK'
  <2>1. CASE worker' = worker
    <3>1. worker.batch \subseteq Rows
      BY WorkerFacts DEF Base
    <3>2. \A o \in Rows : o \in Rows' /\ outbox'[o] = outbox[o]
      BY DEF Growing
    <3> QED BY <2>1, <3>1, <3>2 DEF Base, WorkerOK, Growing
  <2>2. CASE worker' = Idle({})
    BY <2>2, WorkerParts DEF WorkerOK
  <2> QED BY <2>1, <2>2 DEF Growing
<1>6. SentWasPosted'
  <2> SUFFICES ASSUME NEW o \in Rows', outbox'[o].state = "sent" PROVE (CopiesOf(o))' # {}
    BY DEF SentWasPosted
  <2>1. o \in Rows /\ outbox'[o] = outbox[o]
    BY DEF Growing
  <2> QED BY <2>1 DEF Base, SentWasPosted, CopiesOf, Growing
<1> QED BY <1>4, <1>5, <1>6

\* A row that changes stays in its place.
LEMMA BecomesKeeps ==
    ASSUME Base, NEW o \in Rows, NEW r, Becomes(o, r), posted' = posted
    PROVE  /\ Rows' = Rows
           /\ outbox' \in Seq(OutboxRow) /\ Len(outbox') <= MaxRows
           /\ posted' \in Seq(Rows') /\ DOMAIN posted' \subseteq Messages
           /\ \A p \in Rows : (CopiesOf(p))' = CopiesOf(p)
<1>1. Rows' = Rows
  BY DEF Becomes, Rows
<1> QED BY <1>1 DEF Becomes, Base, OutboxTypeOK, CopiesOf

\* The receipt of the item is a copy of it.
LEMMA ReceiptIsCopy ==
    ASSUME Base, worker.receipt # 0
    PROVE  worker.receipt \in CopiesOf(worker.item)
BY WorkerFacts DEF Base, WorkerOK, CopiesOf

\* A row becomes due.
LEMMA ElapsingKeeps ==
    ASSUME Base, NEW o \in Rows, Elapsing(o) PROVE (ShapeOK /\ WorkerOK /\ SentWasPosted)'
<1>1. /\ Rows' = Rows /\ outbox' \in Seq(OutboxRow) /\ Len(outbox') <= MaxRows
      /\ posted' \in Seq(Rows') /\ DOMAIN posted' \subseteq Messages
      /\ \A p \in Rows : (CopiesOf(p))' = CopiesOf(p)
  BY BecomesKeeps DEF Elapsing
<1>2. outbox'[o].state = "due"
  <2>1. outbox[o] \in OutboxRow
    BY SequenceFacts DEF Base
  <2>2. Due(o).state = "due"
    BY <2>1, StateFacts DEF Due, States
  <2> QED BY <2>2 DEF Elapsing, Becomes
<1>3. \A p \in Rows \ {o} : outbox'[p] = outbox[p]
  BY DEF Elapsing, Becomes
<1>4. worker' = worker /\ posted' = posted
  BY DEF Elapsing
<1>5. ShapeOK'
  BY <1>1, <1>4, WorkerFacts DEF ShapeOK, Base
<1>6. WorkerOK'
  <2>1. worker.batch \subseteq Rows
    BY WorkerFacts DEF Base
  <2>2. \A p \in Rows : outbox[p].state = "due" => outbox'[p].state = "due"
    BY <1>2, <1>3
  <2> QED BY <1>1, <1>4, <2>1, <2>2 DEF Base, WorkerOK
<1>7. SentWasPosted'
  <2>1. \A p \in Rows : outbox'[p].state = "sent" => outbox[p].state = "sent"
    BY <1>2, <1>3
  <2> QED BY <1>1, <2>1 DEF Base, SentWasPosted
<1> QED BY <1>5, <1>6, <1>7

\* The worker lays the item down: the row is sent, or waits to be tried again.
LEMMA SettlingKeeps ==
    ASSUME Base, NEW r, worker.state = "sending", Becomes(worker.item, r),
           r.state = "waiting" \/ (r.state = "sent" /\ worker.receipt # 0),
           worker' = Idle(worker.batch), posted' = posted
    PROVE  (ShapeOK /\ WorkerOK /\ SentWasPosted)'
<1>0. worker.item \in Rows /\ worker.item \notin worker.batch /\ worker.batch \subseteq Rows
  BY WorkerFacts DEF Base, WorkerOK
<1>1. /\ Rows' = Rows /\ outbox' \in Seq(OutboxRow) /\ Len(outbox') <= MaxRows
      /\ posted' \in Seq(Rows') /\ DOMAIN posted' \subseteq Messages
      /\ \A p \in Rows : (CopiesOf(p))' = CopiesOf(p)
  BY <1>0, BecomesKeeps
<1>2. outbox'[worker.item] = r /\ \A p \in Rows \ {worker.item} : outbox'[p] = outbox[p]
  BY DEF Becomes
<1>3. ShapeOK'
  BY <1>0, <1>1, WorkerValues DEF ShapeOK
<1>4. WorkerOK'
  BY <1>0, <1>2, WorkerParts DEF Base, WorkerOK
<1>5. SentWasPosted'
  <2> SUFFICES ASSUME NEW p \in Rows, outbox'[p].state = "sent" PROVE (CopiesOf(p))' # {}
    BY <1>1 DEF SentWasPosted
  <2>1. CASE p = worker.item
    BY <1>1, <1>2, <2>1, ReceiptIsCopy
  <2>2. CASE p # worker.item
    BY <1>1, <1>2, <2>2 DEF Base, SentWasPosted
  <2> QED BY <2>1, <2>2
<1> QED BY <1>3, <1>4, <1>5

\* A new message.
LEMMA PostingFacts ==
    ASSUME Base, Posting
    PROVE  /\ worker.item \in Rows /\ Rows' = Rows /\ outbox' = outbox
           /\ Len(posted) \in Nat /\ DOMAIN posted' = DOMAIN posted \cup {Len(posted) + 1}
           /\ Len(posted) + 1 \notin DOMAIN posted /\ \A m \in DOMAIN posted : m < Len(posted) + 1
           /\ posted'[Len(posted) + 1] = worker.item
           /\ \A m \in DOMAIN posted : posted'[m] = posted[m]
           /\ posted' \in Seq(Rows)
           /\ worker'.state = "sending" /\ worker'.batch = worker.batch
           /\ worker'.item = worker.item /\ worker'.receipt = Len(posted) + 1
<1>1. worker.item \in Rows /\ posted \in Seq(Rows)
  BY ItemFacts DEF Posting, Base, OutboxTypeOK
<1>2. posted' = Append(posted, worker.item) /\ outbox' = outbox
  BY DEF Posting
<1>3. /\ posted' \in Seq(Rows) /\ Len(posted') = Len(posted) + 1
      /\ \A i \in 1 .. Len(posted) : posted'[i] = posted[i]
      /\ posted'[Len(posted) + 1] = worker.item
  BY <1>1, <1>2, AppendProperties
<1>4. Len(posted) \in Nat /\ DOMAIN posted = 1 .. Len(posted) /\ DOMAIN posted' = 1 .. Len(posted')
  BY <1>1, <1>3, LenProperties
<1>5. /\ DOMAIN posted' = DOMAIN posted \cup {Len(posted) + 1} /\ Len(posted) + 1 \notin DOMAIN posted
      /\ \A m \in DOMAIN posted : m < Len(posted) + 1
  BY <1>3, <1>4
<1>6. worker'.state = "sending" /\ worker'.batch = worker.batch
      /\ worker'.item = worker.item /\ worker'.receipt = Len(posted) + 1
  <2>1. worker \in WorkerRow(Rows, DOMAIN posted)
    BY WorkerFacts DEF Base
  <2> QED BY <2>1 DEF Posting, WorkerRow
<1>7. Rows' = Rows
  BY <1>2 DEF Rows
<1> QED BY <1>1, <1>2, <1>3, <1>4, <1>5, <1>6, <1>7

\* Copies after a message was posted.
LEMMA PostingCopies ==
    ASSUME Base, Posting, NEW o \in Rows
    PROVE  (CopiesOf(o))' = IF o = worker.item THEN CopiesOf(o) \cup {Len(posted) + 1} ELSE CopiesOf(o)
BY PostingFacts DEF CopiesOf

\* A message is posted.
LEMMA PostingKeeps == ASSUME Base, Posting PROVE (ShapeOK /\ WorkerOK /\ SentWasPosted)'
<1>1. posted' \in Seq(Rows') /\ DOMAIN posted' \subseteq Messages
  BY PostingFacts DEF Posting, Base, OutboxTypeOK
<1>2. worker' \in WorkerRow(Rows', DOMAIN posted')
  <2>1. worker \in WorkerRow(Rows, DOMAIN posted)
    BY WorkerFacts DEF Base
  <2>2. worker \in WorkerRow(Rows, DOMAIN posted') /\ Len(posted) + 1 \in DOMAIN posted'
    BY <2>1, PostingFacts DEF WorkerRow
  <2>3. \A D : \A m \in D : worker \in WorkerRow(Rows, D)
            => [worker EXCEPT !.receipt = m] \in WorkerRow(Rows, D)
    BY DEF WorkerRow
  <2> QED BY <2>2, <2>3, PostingFacts DEF Posting
<1>3. ShapeOK'
  BY <1>1, <1>2, PostingFacts DEF ShapeOK, Base, OutboxTypeOK
<1>4. WorkerOK'
  BY PostingFacts DEF Base, WorkerOK, Posting
<1>5. SentWasPosted'
  <2> SUFFICES ASSUME NEW p \in Rows, outbox[p].state = "sent" PROVE (CopiesOf(p))' # {}
    BY PostingFacts DEF SentWasPosted
  <2>1. CopiesOf(p) # {}
    BY DEF Base, SentWasPosted
  <2> QED BY <2>1, PostingCopies
<1> QED BY <1>3, <1>4, <1>5

\* The worker turns to something else, and nothing happens to the outbox and the chat.
LEMMA TurningKeeps ==
    ASSUME Base, UNCHANGED <<outbox, posted>>,
           worker' \in WorkerRow(Rows, DOMAIN posted),
           \/ worker' = worker
           \/ /\ worker'.receipt = 0
              /\ worker'.state # "sending" => worker'.item = 0
              /\ \A o \in worker'.batch : outbox[o].state = "due"
              /\ worker'.state \in {"off", "dead"} => worker'.batch = {}
              /\ worker'.state = "sending" =>
                     worker'.item \in Rows \ worker'.batch /\ outbox[worker'.item].state = "due"
    PROVE  (ShapeOK /\ WorkerOK /\ SentWasPosted)'
<1>1. Rows' = Rows /\ \A o : (CopiesOf(o))' = CopiesOf(o)
  BY DEF Rows, CopiesOf
<1>2. ShapeOK'
  BY <1>1 DEF ShapeOK, Base, OutboxTypeOK
<1>3. WorkerOK'
  <2>1. CASE worker' = worker
    BY <1>1, <2>1 DEF WorkerOK, Base
  <2>2. CASE worker'.receipt = 0 /\ worker' # worker
    BY <1>1, <2>2 DEF WorkerOK
  <2> QED BY <2>1, <2>2
<1>4. SentWasPosted'
  BY <1>1 DEF SentWasPosted, Base
<1> QED BY <1>2, <1>3, <1>4

\* Every step keeps the outbox, the chat and the worker in shape.
LEMMA ShapeStep == ASSUME Base, [Next]_vars PROVE (ShapeOK /\ WorkerOK /\ SentWasPosted)'
<1>0. OutboxTypeOK /\ worker \in WorkerRow(Rows, DOMAIN posted)
  BY WorkerFacts DEF Base
<1>1. CASE Growing
  BY <1>1, GrowingKeeps
<1>2. CASE Acknowledging
  <2>1. worker.state = "sending" /\ worker.item \in Rows
    BY <1>2, ItemFacts DEF Acknowledging
  <2>2. Sent(worker.item).state = "sent"
    <3>1. outbox[worker.item] \in OutboxRow
      BY <1>0, <2>1, SequenceFacts
    <3> QED BY <3>1, StateFacts DEF Sent, States
  <2> QED BY <1>2, <2>1, <2>2, SettlingKeeps DEF Acknowledging
<1>3. CASE Retrying
  <2>1. worker.item \in Rows
    BY <1>3, ItemFacts DEF Retrying
  <2>2. Again(worker.item).state = "waiting"
    <3>1. outbox[worker.item] \in OutboxRow
      BY <1>0, <2>1, SequenceFacts
    <3> QED BY <3>1, RetryFacts DEF Again
  <2> QED BY <1>3, <2>2, SettlingKeeps DEF Retrying
<1>4. CASE Breaking
  BY <1>4, TurningKeeps, WorkerValues, WorkerParts DEF Breaking
<1>5. CASE Stopping
  BY <1>5, TurningKeeps, WorkerValues, WorkerParts DEF Stopping
<1>6. CASE Resting
  BY <1>0, <1>6, TurningKeeps DEF Resting, outboxVars
<1>7. CASE Listing
  <2>1. DueRows(Rows) \in SUBSET Rows /\ \A o \in DueRows(Rows) : outbox[o].state = "due"
    BY DEF DueRows
  <2> QED BY <1>7, <2>1, TurningKeeps, WorkerValues, WorkerParts DEF Listing
<1>8. CASE Posting
  BY <1>8, PostingKeeps
<1>9. CASE \E o \in Rows : Elapsing(o)
  BY <1>9, ElapsingKeeps
<1>10. CASE \E o \in Rows : Taking(o)
  <2>0. PICK o \in Rows : Taking(o)
    BY <1>10
  <2>1. worker.batch \ {o} \in SUBSET Rows /\ \A p \in worker.batch : outbox[p].state = "due"
    BY <1>0, WorkerFacts DEF Base, WorkerOK
  <2>2. worker' \in WorkerRow(Rows, DOMAIN posted)
    BY <2>0, <2>1, WorkerValues DEF Taking
  <2> QED BY <2>0, <2>1, <2>2, TurningKeeps, WorkerParts DEF Taking
<1> QED
  BY <1>1, <1>2, <1>3, <1>4, <1>5, <1>6, <1>7, <1>8, <1>9, <1>10, OutboxEffects DEF Effect

\* The basis is kept by every step.
LEMMA BaseStep == ASSUME Base, [Next]_vars PROVE Base'
<1>1. EventOK'
  BY EventStep DEF Base
<1>2. (ShapeOK /\ WorkerOK /\ SentWasPosted)'
  BY ShapeStep
<1> QED BY <1>1, <1>2 DEF Base, OutboxTypeOK, ShapeOK, EventOK, WorkerRow

\* The basis holds at first.
LEMMA InitBase == Init => Base
<1> SUFFICES ASSUME Init PROVE Base
  OBVIOUS
<1>1. Rows = {} /\ DOMAIN posted = {} /\ posted \in Seq(Rows) /\ outbox \in Seq(OutboxRow)
  BY EmptySeq DEF Init, Rows
<1>2. Len(outbox) <= MaxRows
  BY OutboxAssumption DEF Init
<1>3. worker \in WorkerRow(Rows, DOMAIN posted)
  BY WorkerValues DEF Init
<1>4. EventOK
  BY DEF Init, EventOK
<1>5. WorkerOK
  BY WorkerParts DEF Init, WorkerOK
<1> QED BY <1>1, <1>2, <1>3, <1>4, <1>5
    DEF Base, OutboxTypeOK, EventOK, WorkerRow, SentWasPosted

\* The tables, the worker and the chat keep to their shape (notification_outbox,
\* codex_event_dedupe, _outbox_worker).
THEOREM OutboxTypeCorrect == Spec => []OutboxTypeOK
<1>1. Base => OutboxTypeOK
  BY DEF Base
<1> QED BY <1>1, InitBase, BaseStep, PTL DEF Spec

-----------------------------------------------------------------------------
(* At least once, and again only for a reason. *)

\* Copies can be counted, and those of a row that is yet to come there are none.
LEMMA CopiesFinite ==
    ASSUME Base, NEW o
    PROVE  /\ IsFiniteSet(CopiesOf(o)) /\ Cardinality(CopiesOf(o)) \in Nat
           /\ o \notin Rows => CopiesOf(o) = {}
<1>1. CopiesOf(o) \in SUBSET (1 .. Len(posted)) /\ Len(posted) \in Nat
  BY SequenceFacts DEF Base, CopiesOf
<1>2. IsFiniteSet(CopiesOf(o))
  <2>1. IsFiniteSet(1 .. Len(posted))
    BY <1>1, FS_Interval
  <2> QED BY <1>1, <2>1, FS_Subset
<1>3. o \notin Rows => CopiesOf(o) = {}
  BY SequenceFacts DEF Base, CopiesOf
<1> QED BY <1>2, <1>3, FS_CardinalityType

\* What a row looks like after one of the steps in which a single row changes.
LEMMA BecomesFacts ==
    ASSUME Base, NEW o \in Rows, NEW r, Becomes(o, r)
    PROVE  /\ Rows' = Rows /\ outbox'[o] = r
           /\ \A p \in Rows \ {o} : outbox'[p] = outbox[p]
BY DEF Becomes, Rows

\* The attempts and the state of rows.
LEMMA RowsTyped ==
    ASSUME Base, NEW o \in Rows
    PROVE  outbox[o] \in OutboxRow /\ outbox[o].attempts \in Nat /\ outbox[o].state \in States
BY SequenceFacts, RowFacts DEF Base

\* The rows that steps make of a row.
LEMMA NextRowFacts ==
    ASSUME Base, NEW o \in Rows
    PROVE  /\ Due(o).state = "due" /\ Due(o).attempts = outbox[o].attempts
           /\ Sent(o).state = "sent" /\ Sent(o).attempts = outbox[o].attempts
           /\ Again(o).state = "waiting" /\ Again(o).attempts = outbox[o].attempts + 1
BY RowsTyped, StateFacts, RetryFacts DEF Due, Sent, Again, States

\* The copy that has no failed attempt and no stop to account for it: that of a row that is
\* sent, or was just posted, or of one the worker died over.
Unpaid(o) ==
    \/ outbox[o].state = "sent" \/ worker.state = "dead"
    \/ worker.item = o /\ worker.receipt # 0

CopiesPaid ==
    \A o \in Rows :
        Cardinality(CopiesOf(o)) <= outbox[o].attempts + troubles.stops + (IF Unpaid(o) THEN 1 ELSE 0)

\* Every step pays for the copies there are.
LEMMA PaidStep == ASSUME Base, CopiesPaid, [Next]_vars PROVE CopiesPaid'
<1>0. OutboxTypeOK /\ troubles.stops \in Nat
  BY DEF Base, OutboxTypeOK
<1> DEFINE Paid(o, n) ==
        (Cardinality(CopiesOf(o)))' <= outbox'[o].attempts + troubles'.stops + n
<1>1. \A o \in Rows :
          /\ Cardinality(CopiesOf(o)) \in Nat /\ outbox[o].attempts \in Nat
          /\ Cardinality(CopiesOf(o)) <= outbox[o].attempts + troubles.stops
                                         + (IF Unpaid(o) THEN 1 ELSE 0)
  BY CopiesFinite, RowsTyped DEF CopiesPaid
<1>2. Base'
  BY BaseStep
<1>3. CASE Growing
  <2> SUFFICES ASSUME NEW o \in Rows'
               PROVE  (Cardinality(CopiesOf(o)))' <= outbox'[o].attempts + troubles'.stops
                                                     + (IF (Unpaid(o))' THEN 1 ELSE 0)
    BY DEF CopiesPaid
  <2>1. (CopiesOf(o))' = CopiesOf(o) /\ troubles' = troubles
    BY <1>3 DEF CopiesOf, Growing
  <2>2. CASE o \in Rows
    <3>1. outbox'[o] = outbox[o]
      BY <1>3, <2>2 DEF Growing
    <3>2. Unpaid(o) => (Unpaid(o))'
      BY <1>3, <3>1, WorkerParts DEF Unpaid, Growing, Base, WorkerOK
    <3> QED BY <1>0, <1>1, <2>1, <2>2, <3>1, <3>2
  <2>3. CASE o \notin Rows
    <3>1. Cardinality(CopiesOf(o)) = 0 /\ outbox'[o].attempts = 0
      BY <1>3, <2>3, CopiesFinite, FS_EmptySet DEF Growing
    <3> QED BY <1>0, <2>1, <3>1
  <2> QED BY <2>2, <2>3
<1>4. CASE Acknowledging
  <2>1. worker.item \in Rows /\ worker.receipt # 0
    BY <1>4, ItemFacts DEF Acknowledging
  <2>2. /\ Rows' = Rows /\ outbox'[worker.item] = Sent(worker.item)
        /\ \A p \in Rows \ {worker.item} : outbox'[p] = outbox[p]
        /\ troubles' = troubles /\ \A o : (CopiesOf(o))' = CopiesOf(o)
    BY <1>4, <2>1, BecomesFacts DEF Acknowledging, CopiesOf
  <2>3. ASSUME NEW o \in Rows
        PROVE  outbox'[o].attempts = outbox[o].attempts /\ (Unpaid(o) => (Unpaid(o))')
    <3>1. CASE o = worker.item
      BY <2>1, <2>2, <3>1, NextRowFacts DEF Unpaid
    <3>2. CASE o # worker.item
      BY <1>4, <2>1, <2>2, <3>2, ItemFacts DEF Unpaid
    <3> QED BY <3>1, <3>2
  <2> QED BY <1>0, <1>1, <2>2, <2>3 DEF CopiesPaid
<1>5. CASE Retrying
  <2>1. worker.item \in Rows
    BY <1>5, ItemFacts DEF Retrying
  <2>2. /\ Rows' = Rows /\ outbox'[worker.item] = Again(worker.item)
        /\ \A p \in Rows \ {worker.item} : outbox'[p] = outbox[p]
        /\ troubles'.stops = troubles.stops /\ \A o : (CopiesOf(o))' = CopiesOf(o)
    BY <1>5, <2>1, BecomesFacts DEF Retrying, CopiesOf
  <2>3. ASSUME NEW o \in Rows
        PROVE  \/ outbox'[o].attempts = outbox[o].attempts + 1
               \/ outbox'[o].attempts = outbox[o].attempts /\ (Unpaid(o) => (Unpaid(o))')
    <3>1. CASE o = worker.item
      BY <2>1, <2>2, <3>1, NextRowFacts
    <3>2. CASE o # worker.item
      BY <1>5, <2>1, <2>2, <3>2 DEF Unpaid, Retrying
    <3> QED BY <3>1, <3>2
  <2> QED BY <1>0, <1>1, <2>2, <2>3 DEF CopiesPaid
<1>6. CASE Breaking
  <2>1. /\ Rows' = Rows /\ outbox' = outbox /\ troubles'.stops = troubles.stops
        /\ \A o : (CopiesOf(o))' = CopiesOf(o) /\ (Unpaid(o))'
    BY <1>6, WorkerParts DEF Breaking, CopiesOf, Unpaid, Rows
  <2> QED BY <1>0, <1>1, <2>1 DEF CopiesPaid
<1>7. CASE Stopping
  <2>1. /\ Rows' = Rows /\ outbox' = outbox /\ troubles'.stops = troubles.stops + 1
        /\ \A o : (CopiesOf(o))' = CopiesOf(o)
    BY <1>7 DEF Stopping, CopiesOf, Rows
  <2> QED BY <1>0, <1>1, <2>1 DEF CopiesPaid
<1>8. CASE Resting
  <2>1. /\ Rows' = Rows /\ outbox' = outbox /\ troubles'.stops = troubles.stops
        /\ \A o : (CopiesOf(o))' = CopiesOf(o) /\ (Unpaid(o))' = Unpaid(o)
    BY <1>8 DEF Resting, CopiesOf, Rows, Unpaid, outboxVars
  <2> QED BY <1>0, <1>1, <2>1 DEF CopiesPaid
<1>9. CASE Listing \/ \E o \in Rows : Taking(o)
  <2>1. /\ Rows' = Rows /\ outbox' = outbox /\ troubles' = troubles
        /\ \A o : (CopiesOf(o))' = CopiesOf(o)
    BY <1>9 DEF Listing, Taking, CopiesOf, Rows
  <2>2. worker.receipt = 0 /\ worker.state # "dead"
    BY <1>9, WorkerParts DEF Listing, Taking, Base, WorkerOK
  <2>3. \A o \in Rows : Unpaid(o) => (Unpaid(o))'
    BY <2>1, <2>2 DEF Unpaid
  <2> QED BY <1>0, <1>1, <2>1, <2>3 DEF CopiesPaid
<1>10. CASE Posting
  <2>1. /\ Rows' = Rows /\ outbox' = outbox /\ troubles' = troubles
        /\ worker.item \in Rows /\ worker'.item = worker.item /\ worker'.receipt # 0
        /\ Len(posted) + 1 \notin DOMAIN posted /\ worker.receipt = 0
        /\ worker.state = "sending"
    BY <1>10, PostingFacts DEF Posting
  <2>2. ASSUME NEW o \in Rows
        PROVE  (Cardinality(CopiesOf(o)))' <= outbox[o].attempts + troubles.stops
                                              + (IF (Unpaid(o))' THEN 1 ELSE 0)
    <3>1. CASE o = worker.item
      <4>1. ~Unpaid(o)
        BY <2>1, <3>1 DEF Unpaid, Base, WorkerOK
      <4>2. (Unpaid(o))'
        BY <2>1, <3>1 DEF Unpaid
      <4>3. (CopiesOf(o))' = CopiesOf(o) \cup {Len(posted) + 1}
            /\ Len(posted) + 1 \notin CopiesOf(o)
        BY <1>10, <2>1, <3>1, PostingCopies DEF CopiesOf
      <4>4. (Cardinality(CopiesOf(o)))' = Cardinality(CopiesOf(o)) + 1
        <5>1. IsFiniteSet(CopiesOf(o))
          BY CopiesFinite
        <5>2. \A S, x : IsFiniteSet(S) /\ x \notin S => Cardinality(S \cup {x}) = Cardinality(S) + 1
          BY FS_AddElement
        <5> QED BY <4>3, <5>1, <5>2
      <4> QED BY <1>0, <1>1, <4>1, <4>2, <4>4
    <3>2. CASE o # worker.item
      <4>1. (CopiesOf(o))' = CopiesOf(o)
        BY <1>10, <3>2, PostingCopies
      <4>2. Unpaid(o) => (Unpaid(o))'
        BY <2>1, <3>2 DEF Unpaid
      <4> QED BY <1>0, <1>1, <4>1, <4>2
    <3> QED BY <3>1, <3>2
  <2> QED BY <2>1, <2>2 DEF CopiesPaid
<1>11. CASE \E o \in Rows : Elapsing(o)
  <2>1. PICK o \in Rows : Elapsing(o)
    BY <1>11
  <2>2. /\ Rows' = Rows /\ outbox'[o] = Due(o)
        /\ \A p \in Rows \ {o} : outbox'[p] = outbox[p]
        /\ troubles' = troubles /\ worker' = worker /\ \A p : (CopiesOf(p))' = CopiesOf(p)
    BY <2>1, BecomesFacts DEF Elapsing, CopiesOf
  <2>3. outbox[o].state = "waiting"
    BY <2>1 DEF Elapsing
  <2>4. ASSUME NEW p \in Rows
        PROVE  outbox'[p].attempts = outbox[p].attempts /\ (Unpaid(p) => (Unpaid(p))')
    BY <2>2, <2>3, NextRowFacts DEF Unpaid
  <2> QED BY <1>0, <1>1, <2>2, <2>4 DEF CopiesPaid
<1> QED
  BY <1>3, <1>4, <1>5, <1>6, <1>7, <1>8, <1>9, <1>10, <1>11, OutboxEffects DEF Effect

-----------------------------------------------------------------------------
(* Which steps append rows, and which rows. *)

\* All others leave the outbox as long as it is.
LEMMA Appending ==
    ASSUME Base, [Next]_vars
    PROVE  \/ Rows' = Rows
           \/ Start
           \/ \E h \in Hooks, heard \in BOOLEAN : Ingest(h, heard)
           \/ \E s \in Sessions, status \in Outcomes : EndSession(s, status)
           \/ \E i \in Interactions, s \in Sessions, r \in Requests, k \in Kinds :
                 Question(i, s, r, k)
           \/ \E i \in Interactions : TellResolved(i)
<1>1. ASSUME UNCHANGED outboxVars \/ outbox' = outbox PROVE Rows' = Rows
  BY <1>1 DEF Rows, outboxVars
<1>2. ASSUME NEW o, NEW r, Becomes(o, r) PROVE Rows' = Rows
  BY <1>2 DEF Becomes, Rows
<1>3. CASE Orchestrator
  BY <1>1, <1>3 DEF Orchestrator, NewSession, DecideElsewhere, Withdraw
<1>4. CASE Callback
  BY <1>1, <1>4 DEF Callback, IngestBreaks, SpoolHook, StartBreaks
<1>5. CASE Worker
  <2>1. CASE ListDue \/ ListBreaks \/ RescheduleBreaks \/ \E o \in Rows : Send(o)
    BY <1>1, <2>1 DEF ListDue, ListBreaks, RescheduleBreaks, Send
  <2>2. CASE Acknowledge
    BY <1>2, <2>2, AcknowledgeFacts DEF Acknowledging
  <2>3. CASE SendFails \/ MarkBreaks
    BY <1>2, <2>3, RetryingFacts DEF Retrying
  <2> QED BY <1>5, <2>1, <2>2, <2>3 DEF Worker
<1>6. CASE Router \/ LarkPosts \/ Stop
  BY <1>1, <1>6 DEF Router, Reply, LarkPosts, Stop
<1>7. CASE \E o \in Rows : Elapse(o)
  BY <1>2, <1>7, ElapseFacts DEF Elapsing
<1>8. CASE UNCHANGED vars
  BY <1>1, <1>8 DEF vars
<1> QED BY <1>3, <1>4, <1>5, <1>6, <1>7, <1>8 DEF Next

\* Rows are never withdrawn, and stay about the same matter.
LEMMA RowsStay ==
    ASSUME Base, [Next]_vars
    PROVE  \A o \in Rows : o \in Rows' /\ SameMatter(outbox'[o], outbox[o])
<1>1. ASSUME NEW o \in Rows, NEW r, Becomes(o, r)
      PROVE  \A p \in Rows : p \in Rows' /\ SameMatter(outbox'[p], outbox[p])
  BY <1>1, BecomesFacts DEF SameMatter, Becomes
<1>2. CASE Growing
  BY <1>2 DEF Growing, SameMatter
<1>3. CASE Acknowledging \/ Retrying
  BY <1>1, <1>3, ItemFacts DEF Acknowledging, Retrying
<1>4. CASE \E o \in Rows : Elapsing(o)
  BY <1>1, <1>4 DEF Elapsing
<1>5. CASE Breaking \/ Stopping \/ Resting \/ Listing \/ Posting \/ \E o \in Rows : Taking(o)
  <2>1. outbox' = outbox
    BY <1>5 DEF Breaking, Stopping, Resting, Listing, Posting, Taking, outboxVars
  <2> QED BY <2>1 DEF Rows, SameMatter
<1> QED BY <1>2, <1>3, <1>4, <1>5, OutboxEffects DEF Effect

\* The steps that append rows, and theirs.
LEMMA QuestionRows ==
    ASSUME Base, NEW i \in Interactions, NEW s \in Sessions, NEW r \in Requests, NEW k \in Kinds,
           Question(i, s, r, k)
    PROVE  /\ Growing /\ Len(outbox) + 1 \in Rows' \ Rows
           /\ \A o \in Rows' \ Rows : outbox'[o].kind = "question" /\ outbox'[o].about = i
<1>1. Apt("question", i)
  BY DEF Apt
<1> QED BY <1>1, EnqueueOne DEF Question

LEMMA NewsRows ==
    ASSUME Base, NEW i \in Interactions, TellResolved(i)
    PROVE  /\ Growing
           /\ \A o \in Rows' \ Rows : outbox'[o].kind = "news" /\ outbox'[o].about = i
<1>1. Apt("news", i)
  BY DEF Apt
<1> QED BY <1>1, EnqueueOne DEF TellResolved

LEMMA SessionRows ==
    ASSUME Base, NEW s \in Sessions, NEW status \in Outcomes, EndSession(s, status)
    PROVE  /\ Growing
           /\ \A o \in Rows' \ Rows : outbox'[o].kind = "session"
<1>1. Apt("session", s)
  BY DEF Apt
<1> QED BY <1>1, EnqueueOne DEF EndSession

LEMMA HookRows ==
    ASSUME Base, NEW h \in Hooks, NEW heard \in BOOLEAN, Ingest(h, heard)
    PROVE  /\ Growing /\ h \notin seen /\ seen' = seen \cup {h}
           /\ \A o \in Rows' \ Rows : outbox'[o].kind = "hook" /\ outbox'[o].about = h
           /\ \A o, p \in Rows' \ Rows : o = p
<1>1. Apt("hook", h) /\ Enqueue(<<NewRow("hook", h)>>)
  BY DEF Apt, Ingest
<1>2. Growing /\ \A o \in Rows' \ Rows : outbox'[o].kind = "hook" /\ outbox'[o].about = h
  BY <1>1, EnqueueOne DEF Ingest
<1>3. Len(outbox') = Len(outbox) + 1 /\ Len(outbox) \in Nat
  <2>1. outbox \in Seq(OutboxRow) /\ NewRow("hook", h) \in OutboxRow
    BY <1>1, NewRowFacts DEF Base, OutboxTypeOK
  <2> DEFINE rows == <<NewRow("hook", h)>>
  <2>2. rows \in Seq(OutboxRow) /\ Len(rows) = 1 /\ outbox' = outbox \o rows
    BY <1>1, <2>1 DEF Enqueue
  <2> HIDE DEF rows
  <2>3. Len(outbox \o rows) = Len(outbox) + Len(rows)
    BY <2>1, <2>2, ConcatProperties
  <2> QED BY <2>1, <2>2, <2>3, LenProperties
<1> QED BY <1>2, <1>3 DEF Ingest, Rows

LEMMA StartingRows ==
    ASSUME Base, Start
    PROVE  /\ Growing /\ seen' = seen \cup spool
           /\ \A o \in Rows' \ Rows :
                 /\ outbox'[o].kind \in {"hook", "session"}
                 /\ outbox'[o].kind = "hook" => outbox'[o].about \in spool \ seen
           /\ \A o, p \in Rows' \ Rows :
                 outbox'[o].kind = "hook" /\ outbox'[p].kind = "hook"
                 /\ outbox'[o].about = outbox'[p].about => o = p
<1>1. PICK a \in Listed("hook", spool \ seen),
           b \in Listed("session", {s \in Sessions : Active(s)}) : Enqueue(a \o b)
  BY DEF Start
<1>2. worker.state = "off" /\ posted' = posted /\ troubles' = troubles /\ worker' = Idle({})
      /\ seen' = seen \cup spool
  BY DEF Start, Running
<1> QED BY <1>1, <1>2, StartRows

\* The events that were seen stay seen.
LEMMA SeenGrows == ASSUME [Next]_vars PROVE seen \subseteq seen'
<1>1. CASE Orchestrator
  BY <1>1 DEF Orchestrator, NewSession, EndSession, Question, DecideElsewhere, Withdraw,
     TellResolved, eventVars
<1>2. CASE Callback
  BY <1>2 DEF Callback, Ingest, IngestBreaks, SpoolHook, StartBreaks
<1>3. CASE Worker
  BY <1>3 DEF Worker, ListDue, Acknowledge, SendFails, MarkBreaks, ListBreaks, RescheduleBreaks,
     Send, eventVars
<1>4. CASE Router \/ LarkPosts \/ Start \/ Stop \/ \E o \in Rows : Elapse(o)
  BY <1>4 DEF Router, Reply, LarkPosts, Start, Stop, Elapse, eventVars
<1>5. CASE UNCHANGED vars
  BY <1>5 DEF vars, eventVars
<1> QED BY <1>1, <1>2, <1>3, <1>4, <1>5 DEF Next

-----------------------------------------------------------------------------
(* One notification for a hook. *)

\* A hook that has a row was seen.
HooksSeen == \A o \in Rows : outbox[o].kind = "hook" => outbox[o].about \in seen

Once == HookOnce /\ HooksSeen

\* Only a hook that was not seen gets a row, and is seen from then on.
LEMMA OnceStep == ASSUME Base, Once, [Next]_vars PROVE Once'
<1>1. \A o \in Rows : /\ o \in Rows' /\ outbox'[o].kind = outbox[o].kind
                      /\ outbox'[o].about = outbox[o].about
  BY RowsStay DEF SameMatter
<1>2. seen \subseteq seen'
  BY SeenGrows
<1>3. /\ \A o \in Rows' \ Rows : outbox'[o].kind = "hook" => outbox'[o].about \in seen' \ seen
      /\ \A o, p \in Rows' \ Rows :
            outbox'[o].kind = "hook" /\ outbox'[p].kind = "hook"
            /\ outbox'[o].about = outbox'[p].about => o = p
  <2>1. CASE Rows' = Rows
    BY <2>1
  <2>2. CASE Start
    BY <2>2, StartingRows
  <2>3. CASE \E h \in Hooks, heard \in BOOLEAN : Ingest(h, heard)
    BY <2>3, HookRows
  <2>4. CASE \E s \in Sessions, status \in Outcomes : EndSession(s, status)
    BY <2>4, SessionRows
  <2>5. CASE \E i \in Interactions, s \in Sessions, r \in Requests, k \in Kinds :
                Question(i, s, r, k)
    BY <2>5, QuestionRows
  <2>6. CASE \E i \in Interactions : TellResolved(i)
    BY <2>6, NewsRows
  <2> QED BY <2>1, <2>2, <2>3, <2>4, <2>5, <2>6, Appending
<1>4. HooksSeen'
  BY <1>1, <1>2, <1>3 DEF Once, HooksSeen
<1>5. HookOnce'
  <2> SUFFICES ASSUME NEW o \in Rows', NEW p \in Rows',
                      outbox'[o].kind = "hook", outbox'[p].kind = "hook",
                      outbox'[o].about = outbox'[p].about
               PROVE  o = p
    BY DEF HookOnce
  <2>1. CASE o \in Rows /\ p \in Rows
    BY <1>1, <2>1 DEF Once, HookOnce
  <2>2. CASE o \in Rows /\ p \notin Rows
    BY <1>1, <1>3, <2>2 DEF Once, HooksSeen
  <2>3. CASE o \notin Rows /\ p \in Rows
    BY <1>1, <1>3, <2>3 DEF Once, HooksSeen
  <2>4. CASE o \notin Rows /\ p \notin Rows
    BY <1>3, <2>4
  <2> QED BY <2>1, <2>2, <2>3, <2>4
<1> QED BY <1>4, <1>5 DEF Once

\* Each further copy of a notification has a failed attempt or a stop to account for it,
\* and a hook that comes by HTTP and by the spool is notified once
\* (record_event_once, record_outbox_failure, _outbox_worker).
THEOREM RepeatsExcused == Spec => []RepeatsAreExcused
<1>1. Init => CopiesPaid /\ Once
  BY DEF Init, CopiesPaid, Once, HookOnce, HooksSeen, Rows
<1>2. Base /\ CopiesPaid /\ Once => RepeatsAreExcused
  <2> SUFFICES ASSUME Base, CopiesPaid, Once, NEW o \in Rows
               PROVE  Cardinality(CopiesOf(o)) <= 1 + outbox[o].attempts + troubles.stops
    BY DEF RepeatsAreExcused, Once
  <2>1. outbox[o].attempts \in Nat /\ troubles.stops \in Nat /\ Cardinality(CopiesOf(o)) \in Nat
    BY RowsTyped, CopiesFinite DEF Base, OutboxTypeOK
  <2>2. Cardinality(CopiesOf(o)) <= outbox[o].attempts + troubles.stops
                                    + (IF Unpaid(o) THEN 1 ELSE 0)
    BY DEF CopiesPaid
  <2> QED BY <2>1, <2>2
<1> QED BY <1>1, <1>2, InitBase, BaseStep, PaidStep, OnceStep, PTL DEF Spec

-----------------------------------------------------------------------------
(* The outbox is a queue that delivers at least once. *)

Phase(o) ==
    IF o \notin Rows THEN "none" ELSE IF outbox[o].state = "sent" THEN "settled" ELSE "owed"

\* The rows are among the items of the queue.
LEMMA RowsAreItems == ASSUME OutboxTypeOK PROVE Rows \subseteq 1 .. MaxRows
BY SequenceFacts, OutboxAssumption DEF Rows, OutboxTypeOK

\* What the queue shows of a step.
LEMMA QueueStutters ==
    ASSUME \A o \in 1 .. MaxRows : (Phase(o))' = Phase(o),
           \A o \in 1 .. MaxRows : (CopiesOf(o))' = CopiesOf(o)
    PROVE  UNCHANGED Queue!vars
<1>1. \A o \in 1 .. MaxRows : (Cardinality(CopiesOf(o)))' = Cardinality(CopiesOf(o))
  OBVIOUS
<1> QED BY <1>1 DEF Queue!vars, Phase

LEMMA QueueSettles ==
    ASSUME NEW o \in 1 .. MaxRows, Phase(o) = "owed", (Phase(o))' = "settled",
           Cardinality(CopiesOf(o)) > 0,
           \A p : p # o => (Phase(p))' = Phase(p),
           \A p : (CopiesOf(p))' = CopiesOf(p)
    PROVE  Queue!Settle(o)
<1> DEFINE St == [p \in 1 .. MaxRows |-> Phase(p)]
           Cp == [p \in 1 .. MaxRows |-> Cardinality(CopiesOf(p))]
<1>1. Queue!Settle(o) <=> /\ St[o] = "owed" /\ Cp[o] > 0
                          /\ St' = [St EXCEPT ![o] = "settled"]
                          /\ Cp' = Cp
  BY DEF Queue!Settle, Phase
<1>2. \A p \in 1 .. MaxRows : (Cardinality(CopiesOf(p)))' = Cardinality(CopiesOf(p))
  OBVIOUS
<1>3. St[o] = "owed" /\ Cp[o] > 0 /\ Cp' = Cp
  BY <1>2
<1>4. St' = [St EXCEPT ![o] = "settled"]
  OBVIOUS
<1> HIDE DEF St, Cp
<1> QED BY <1>1, <1>3, <1>4

LEMMA QueueDelivers ==
    ASSUME NEW o \in 1 .. MaxRows, Phase(o) = "owed", \A p : (Phase(p))' = Phase(p),
           (Cardinality(CopiesOf(o)))' = Cardinality(CopiesOf(o)) + 1,
           \A p : p # o => (CopiesOf(p))' = CopiesOf(p)
    PROVE  Queue!Deliver(o)
<1> DEFINE St == [p \in 1 .. MaxRows |-> Phase(p)]
           Cp == [p \in 1 .. MaxRows |-> Cardinality(CopiesOf(p))]
<1>1. Queue!Deliver(o) <=> /\ St[o] = "owed" /\ St' = St
                           /\ Cp' = [Cp EXCEPT ![o] = Cp[o] + 1]
  BY DEF Queue!Deliver, Phase
<1>2. \A p \in 1 .. MaxRows : p # o => (Cardinality(CopiesOf(p)))' = Cardinality(CopiesOf(p))
  OBVIOUS
<1>3. St[o] = "owed" /\ St' = St
  OBVIOUS
<1>4. Cp' = [Cp EXCEPT ![o] = Cp[o] + 1]
  BY <1>2
<1> HIDE DEF St, Cp
<1> QED BY <1>1, <1>3, <1>4

\* Every step is one of the queue, or does not show in it.
LEMMA QueueStep == ASSUME Base, [Next]_vars PROVE [Queue!Next]_(Queue!vars)
<1>0. Rows \subseteq 1 .. MaxRows
  BY RowsAreItems DEF Base
<1>1. CASE Growing
  <2>1. /\ \A o : (CopiesOf(o))' = CopiesOf(o)
        /\ \A o \in Rows : o \in Rows' /\ (Phase(o))' = Phase(o)
        /\ \A o \in Rows' \ Rows : Phase(o) = "none" /\ (Phase(o))' = "owed"
        /\ \A o : o \notin Rows' => Phase(o) = "none" /\ (Phase(o))' = "none"
    BY <1>1 DEF Growing, CopiesOf, Phase
  <2> DEFINE S == Rows' \ Rows
  <2>0. Rows' \subseteq 1 .. MaxRows
    BY <1>1, OutboxAssumption DEF Growing, Rows
  <2>2. S \in SUBSET {o \in 1 .. MaxRows : Phase(o) = "none"}
    BY <2>0, <2>1
  <2>3. \A o \in 1 .. MaxRows : (Phase(o))' = IF o \in S THEN "owed" ELSE Phase(o)
    BY <2>1
  <2>4. \A o \in 1 .. MaxRows : (Cardinality(CopiesOf(o)))' = Cardinality(CopiesOf(o))
    BY <2>1
  <2> HIDE DEF S
  <2>5. Queue!Accept
    BY <2>2, <2>3, <2>4 DEF Queue!Accept, Phase
  <2> QED BY <2>5 DEF Queue!Next
<1>2. CASE Acknowledging
  <2>0. PICK o \in Rows : o = worker.item
    BY <1>2, ItemFacts DEF Acknowledging
  <2>1. outbox[o].state = "due" /\ worker.receipt \in CopiesOf(o)
    BY <1>2, <2>0, ItemFacts, ReceiptIsCopy DEF Acknowledging, Base, WorkerOK
  <2>2. /\ Rows' = Rows /\ outbox'[o] = Sent(o)
        /\ \A p \in Rows \ {o} : outbox'[p] = outbox[p]
        /\ \A p : (CopiesOf(p))' = CopiesOf(p)
    BY <1>2, <2>0, BecomesFacts DEF Acknowledging, CopiesOf
  <2>3. /\ Phase(o) = "owed" /\ (Phase(o))' = "settled"
        /\ \A p : p # o => (Phase(p))' = Phase(p)
    BY <2>1, <2>2, NextRowFacts DEF Phase
  <2>4. Cardinality(CopiesOf(o)) > 0
    <3>1. IsFiniteSet(CopiesOf(o)) /\ CopiesOf(o) # {} /\ Cardinality(CopiesOf(o)) \in Nat
      BY <2>1, CopiesFinite
    <3>2. Cardinality(CopiesOf(o)) # 0
      BY <3>1, FS_EmptySet
    <3> QED BY <3>1, <3>2
  <2>5. o \in 1 .. MaxRows
    BY <1>0
  <2>6. Queue!Settle(o)
    BY <2>2, <2>3, <2>4, <2>5, QueueSettles
  <2> QED BY <2>5, <2>6 DEF Queue!Next
<1>3. CASE Retrying
  <2>0. PICK o \in Rows : o = worker.item
    BY <1>3, ItemFacts DEF Retrying
  <2>1. outbox[o].state = "due"
    BY <1>3, <2>0 DEF Retrying, Base, WorkerOK
  <2>2. /\ Rows' = Rows /\ outbox'[o] = Again(o)
        /\ \A p \in Rows \ {o} : outbox'[p] = outbox[p]
        /\ \A p : (CopiesOf(p))' = CopiesOf(p)
    BY <1>3, <2>0, BecomesFacts DEF Retrying, CopiesOf
  <2>3. \A p : (Phase(p))' = Phase(p)
    BY <2>1, <2>2, NextRowFacts DEF Phase
  <2> QED BY <2>2, <2>3, QueueStutters
<1>4. CASE \E o \in Rows : Elapsing(o)
  <2>1. PICK o \in Rows : Elapsing(o)
    BY <1>4
  <2>2. /\ Rows' = Rows /\ outbox'[o] = Due(o) /\ outbox[o].state = "waiting"
        /\ \A p \in Rows \ {o} : outbox'[p] = outbox[p]
        /\ \A p : (CopiesOf(p))' = CopiesOf(p)
    BY <2>1, BecomesFacts DEF Elapsing, CopiesOf
  <2>3. \A p : (Phase(p))' = Phase(p)
    BY <2>1, <2>2, NextRowFacts DEF Phase
  <2> QED BY <2>2, <2>3, QueueStutters
<1>5. CASE Breaking \/ Stopping \/ Resting \/ Listing \/ \E o \in Rows : Taking(o)
  <2>1. outbox' = outbox /\ posted' = posted
    BY <1>5 DEF Breaking, Stopping, Resting, Listing, Taking, outboxVars
  <2>2. \A o : (Phase(o))' = Phase(o) /\ (CopiesOf(o))' = CopiesOf(o)
    BY <2>1 DEF Phase, CopiesOf, Rows
  <2> QED BY <2>2, QueueStutters
<1>6. CASE Posting
  <2>0. PICK o \in Rows : o = worker.item
    BY <1>6, ItemFacts DEF Posting
  <2>1. outbox[o].state = "due" /\ Rows' = Rows /\ outbox' = outbox
        /\ Len(posted) + 1 \notin CopiesOf(o)
    BY <1>6, <2>0, PostingFacts DEF Posting, Base, WorkerOK, CopiesOf
  <2>2. Phase(o) = "owed" /\ \A p : (Phase(p))' = Phase(p)
    BY <2>1 DEF Phase
  <2>3. (CopiesOf(o))' = CopiesOf(o) \cup {Len(posted) + 1}
        /\ \A p \in Rows : p # o => (CopiesOf(p))' = CopiesOf(p)
    <3>1. ASSUME NEW p \in Rows
          PROVE  (CopiesOf(p))' = IF p = worker.item THEN CopiesOf(p) \cup {Len(posted) + 1}
                                                     ELSE CopiesOf(p)
      BY <1>6, PostingCopies
    <3> QED BY <2>0, <3>1
  <2>4. ASSUME NEW p, p \notin Rows PROVE (CopiesOf(p))' = CopiesOf(p)
    <3>1. CopiesOf(p) = {}
      BY <2>4, CopiesFinite
    <3>2. (CopiesOf(p))' = {}
      BY <1>6, <2>0, <2>4, <3>1, PostingFacts DEF CopiesOf
    <3> QED BY <3>1, <3>2
  <2>5. (Cardinality(CopiesOf(o)))' = Cardinality(CopiesOf(o)) + 1
    <3>1. IsFiniteSet(CopiesOf(o))
      BY CopiesFinite
    <3>2. \A S, x : IsFiniteSet(S) /\ x \notin S => Cardinality(S \cup {x}) = Cardinality(S) + 1
      BY FS_AddElement
    <3> QED BY <2>1, <2>3, <3>1, <3>2
  <2>6. \A p : p # o => (CopiesOf(p))' = CopiesOf(p)
    BY <2>3, <2>4
  <2>7. o \in 1 .. MaxRows
    BY <1>0
  <2>8. Queue!Deliver(o)
    BY <2>2, <2>5, <2>6, <2>7, QueueDelivers
  <2> QED BY <2>7, <2>8 DEF Queue!Next
<1> QED BY <1>1, <1>2, <1>3, <1>4, <1>5, <1>6, OutboxEffects DEF Effect

\* The outbox delivers at least once: a row stays owed until it was posted, and is never
\* posted again once it was marked (enqueue_outbox, mark_outbox_sent).
THEOREM Delivery == Spec => QueueSpec
<1>1. Init => Queue!Init
  <2> SUFFICES ASSUME Init PROVE Queue!Init
    OBVIOUS
  <2>1. Rows = {} /\ \A o : CopiesOf(o) = {}
    BY DEF Init, Rows, CopiesOf
  <2>2. \A o \in 1 .. MaxRows : Cardinality(CopiesOf(o)) = 0
    BY <2>1, FS_EmptySet
  <2> QED BY <2>1, <2>2 DEF Queue!Init
<1> QED BY <1>1, InitBase, BaseStep, QueueStep, PTL DEF Spec, QueueSpec, Queue!Spec

-----------------------------------------------------------------------------
(* The tables under the outbox. *)

\* Attaching a message, or not, is a transaction of the store.
LEMMA AttachIsStore ==
    ASSUME Base, worker.receipt # 0
    PROVE  /\ worker.receipt \in Messages
           /\ outbox[worker.item].kind \in {"question", "news"}
                  => outbox[worker.item].about \in Interactions
           /\ Attach(worker.item, worker.receipt) => [StoreNext]_storeVars
<1>1. worker.receipt \in Messages /\ worker.item \in Rows
  BY WorkerFacts, ItemFacts DEF Base, OutboxTypeOK
<1>2. Apt(outbox[worker.item].kind, outbox[worker.item].about)
  <2>1. outbox[worker.item] \in OutboxRow
    BY <1>1, SequenceFacts DEF Base
  <2> QED BY <2>1, RowFacts
<1>3. outbox[worker.item].kind \in {"question", "news"}
          => outbox[worker.item].about \in Interactions
  BY <1>2 DEF Apt
<1>4. ASSUME NEW i \in Interactions, AttachMessage(i, worker.receipt) PROVE StoreNext
  BY <1>1, <1>4 DEF StoreNext, InteractionStep
<1> QED BY <1>1, <1>3, <1>4 DEF Attach

\* Every step runs one transaction of the store, or none.
LEMMA StoreStep == ASSUME Base, [Next]_vars PROVE [StoreNext]_storeVars
<1>1. CASE Orchestrator
  <2>1. ASSUME NEW s \in Sessions, NewSession(s) PROVE StoreNext
    BY <2>1 DEF NewSession, StoreNext, SessionStep
  <2>2. ASSUME NEW s \in Sessions, NEW status \in Outcomes, EndSession(s, status) PROVE StoreNext
    <3>1. {s} \in SUBSET Sessions /\ status \in TerminalStatus
      BY OutboxAssumption
    <3>2. ClaimTerminal({s}, status, "cancelled")
      BY <2>2 DEF EndSession
    <3> QED BY <3>1, <3>2 DEF StoreNext, ClaimStep
  <2>3. ASSUME NEW i \in Interactions, NEW s \in Sessions, NEW r \in Requests, NEW k \in Kinds,
               Question(i, s, r, k)
        PROVE  StoreNext
    BY <2>3 DEF Question, StoreNext, InteractionStep
  <2>4. ASSUME NEW i \in Interactions, NEW d \in Decisions, NEW a \in Actors,
               DecideElsewhere(i, d, a)
        PROVE  StoreNext
    <3>1. PICK st \in {"resolved", "expired"} : Resolve(i, d, a, st)
      BY <2>4 DEF DecideElsewhere
    <3> QED BY <3>1 DEF StoreNext, InteractionStep
  <2>5. ASSUME NEW i \in Interactions, Withdraw(i) PROVE StoreNext
    BY <2>5 DEF Withdraw, StoreNext, InteractionStep
  <2>6. ASSUME NEW i \in Interactions, TellResolved(i) PROVE UNCHANGED storeVars
    BY <2>6 DEF TellResolved
  <2> QED BY <1>1, <2>1, <2>2, <2>3, <2>4, <2>5, <2>6 DEF Orchestrator
<1>2. CASE Callback \/ LarkPosts \/ \E o \in Rows : Elapse(o)
  BY <1>2 DEF Callback, Ingest, IngestBreaks, SpoolHook, StartBreaks, LarkPosts, Elapse
<1>3. CASE Worker
  <2>1. CASE ListDue \/ SendFails \/ ListBreaks \/ RescheduleBreaks \/ \E o \in Rows : Send(o)
    BY <2>1 DEF ListDue, SendFails, ListBreaks, RescheduleBreaks, Send
  <2>2. CASE Acknowledge \/ MarkBreaks
    <3>1. worker.receipt # 0
          /\ (Attach(worker.item, worker.receipt) \/ UNCHANGED storeVars)
      BY <2>2 DEF Acknowledge, MarkBreaks
    <3> QED BY <3>1, AttachIsStore
  <2> QED BY <1>3, <2>1, <2>2 DEF Worker
<1>4. CASE Router
  <2>1. PICK m \in DOMAIN posted, d \in Decisions :
            UNCHANGED storeVars \/ \E i \in Answerable(m) : Resolve(i, d, "lark", "resolved")
    BY <1>4 DEF Router, Reply
  <2>2. ASSUME NEW i \in Answerable(m), Resolve(i, d, "lark", "resolved") PROVE StoreNext
    <3>1. i \in Interactions /\ "lark" \in Actors
      BY OutboxAssumption DEF Answerable
    <3> QED BY <2>2, <3>1 DEF StoreNext, InteractionStep
  <2> QED BY <2>1, <2>2
<1>5. CASE Start
  BY <1>5 DEF Start, StoreNext
<1>6. CASE Stop
  <2>1. CASE UNCHANGED storeVars
    BY <2>1
  <2>2. CASE /\ worker.receipt # 0 /\ outbox[worker.item].kind \in {"question", "news"}
             /\ AttachMessage(outbox[worker.item].about, worker.receipt)
    BY <2>2, AttachIsStore DEF StoreNext, InteractionStep
  <2> QED BY <1>6, <2>1, <2>2 DEF Stop
<1>7. CASE UNCHANGED vars
  BY <1>7 DEF vars, storeVars
<1> QED BY <1>1, <1>2, <1>3, <1>4, <1>5, <1>6, <1>7 DEF Next

\* The outbox and its worker keep to the transactions of the store.
LEMMA UsesStore == Spec => StoreSpec
<1>1. Init => StoreInit
  BY DEF Init
<1> QED BY <1>1, InitBase, BaseStep, StoreStep, PTL DEF Spec, StoreSpec

\* The tables stay consistent under notifications, replies, failures and restarts
\* (resolve_interaction_and_refresh_session, attach_lark_message_id, reconcile_startup).
THEOREM OutboxTables == Spec => []TablesOK
BY UsesStore, Tables, PTL

\* What Lark answers and what a terminal answers: the first response that commits decides.
THEOREM OutboxFirstResponse == Spec => FirstResponseWins
BY UsesStore, FirstResponse, PTL

-----------------------------------------------------------------------------
(* What steps do to the message, the actor and the status of an interaction. *)

\* The columns of rows that transactions make.
LEMMA ClosedColumns ==
    ASSUME NEW x \in InteractionRow, NEW st
    PROVE  LET y == [x EXCEPT !.status = st] IN
           y.status = st /\ y.message = x.message /\ y.actor = x.actor
BY DEF InteractionRow

LEMMA DecidedColumns ==
    ASSUME NEW x \in InteractionRow, NEW st, NEW d, NEW a
    PROVE  LET y == [x EXCEPT !.status = st, !.decision = d, !.actor = a] IN
           y.status = st /\ y.message = x.message /\ y.actor = a
BY DEF InteractionRow

LEMMA AttachedColumns ==
    ASSUME NEW x \in InteractionRow, NEW m
    PROVE  LET y == [x EXCEPT !.message = m] IN
           y.status = x.status /\ y.message = m /\ y.actor = x.actor
BY DEF InteractionRow

\* Row i keeps its message, no "lark" signs it without one, and it does not go back.
RowKept(i) ==
    /\ interactions'[i].message = interactions[i].message
    /\ interactions'[i].actor = "lark" =>
           interactions[i].actor = "lark" \/ interactions[i].message # NoValue
    /\ interactions[i].status \in ClosedStatus => interactions'[i].status \in ClosedStatus
    /\ interactions[i].status = "absent" => interactions'[i].status = "absent"

RowOpened(i) ==
    /\ interactions[i].status = "absent"
    /\ interactions'[i].message = NoValue /\ interactions'[i].actor = NoValue
    /\ \E o \in Rows' : outbox'[o].kind = "question" /\ outbox'[o].about = i

RowAttached(i) ==
    /\ worker.receipt # 0
    /\ outbox[worker.item].kind \in {"question", "news"} /\ outbox[worker.item].about = i
    /\ interactions[i].status = "pending" /\ interactions'[i].status = "pending"
    /\ interactions'[i].message = worker.receipt
    /\ interactions'[i].actor = interactions[i].actor

RowEffect ==
    \/ \A i \in Interactions : RowKept(i)
    \/ \E i \in Interactions :
          /\ RowOpened(i) \/ RowAttached(i)
          /\ \A j \in Interactions \ {i} : RowKept(j)

\* A row that stays is kept.
LEMMA SameRowKept ==
    ASSUME NEW i \in Interactions, interactions'[i] = interactions[i]
    PROVE  RowKept(i)
BY DEF RowKept

\* A row that is closed without a decision is kept.
LEMMA ClosedRowKept ==
    ASSUME TypeOK, NEW i \in Interactions, NEW st \in ClosedStatus, Pending(i),
           interactions'[i] = [interactions[i] EXCEPT !.status = st]
    PROVE  RowKept(i)
<1>1. interactions[i] \in InteractionRow
  BY DEF TypeOK
<1>2. /\ interactions'[i].status = st
      /\ interactions'[i].message = interactions[i].message
      /\ interactions'[i].actor = interactions[i].actor
  BY <1>1, ClosedColumns
<1> QED BY <1>2 DEF RowKept, Pending

LEMMA ClosePendingKeeps ==
    ASSUME TypeOK, NEW S, NEW st \in ClosedStatus, ClosePendingOf(S, st)
    PROVE  \A i \in Interactions : RowKept(i)
<1> SUFFICES ASSUME NEW i \in Interactions PROVE RowKept(i)
  OBVIOUS
<1>1. CASE Pending(i) /\ interactions[i].session \in S
  <2>1. interactions'[i] = [interactions[i] EXCEPT !.status = st]
    BY <1>1 DEF ClosePendingOf
  <2> QED BY <1>1, <2>1, ClosedRowKept
<1>2. CASE ~ (Pending(i) /\ interactions[i].session \in S)
  <2>1. interactions'[i] = interactions[i]
    BY <1>2 DEF ClosePendingOf
  <2> QED BY <2>1, SameRowKept
<1> QED BY <1>1, <1>2

LEMMA ReconcileKeeps ==
    ASSUME TypeOK, ReconcileStartup
    PROVE  \A i \in Interactions : RowKept(i)
<1> SUFFICES ASSUME NEW i \in Interactions PROVE RowKept(i)
  OBVIOUS
<1>1. CASE Pending(i)
  <2>1. interactions'[i] = [interactions[i] EXCEPT !.status = "expired"]
    BY <1>1 DEF ReconcileStartup
  <2>2. "expired" \in ClosedStatus
    BY DEF ClosedStatus
  <2> QED BY <1>1, <2>1, <2>2, ClosedRowKept
<1>2. CASE ~ Pending(i)
  <2>1. interactions'[i] = interactions[i]
    BY <1>2 DEF ReconcileStartup
  <2> QED BY <2>1, SameRowKept
<1> QED BY <1>1, <1>2

\* Only a reply to the message of an interaction signs it with "lark".
LEMMA ResolveKeeps ==
    ASSUME TypeOK, NEW i \in Interactions, NEW d, NEW a, NEW st, Resolve(i, d, a, st),
           a # "lark" \/ interactions[i].message # NoValue
    PROVE  \A j \in Interactions : RowKept(j)
<1> DEFINE y == [interactions[i] EXCEPT !.status = st, !.decision = d, !.actor = a]
<1>1. Pending(i) /\ interactions' = [interactions EXCEPT ![i] = y] /\ st \in ClosedStatus
  BY DEF Resolve, CloseAndRefresh, ClosedStatus
<1>2. interactions[i] \in InteractionRow
  BY DEF TypeOK
<1>3. y.status = st /\ y.message = interactions[i].message /\ y.actor = a
  BY <1>2, DecidedColumns
<1> HIDE DEF y
<1>4. interactions'[i] = y /\ \A j \in Interactions \ {i} : interactions'[j] = interactions[j]
  BY <1>1 DEF TypeOK
<1>5. RowKept(i)
  BY <1>1, <1>3, <1>4 DEF RowKept, Pending
<1> QED BY <1>4, <1>5, SameRowKept

LEMMA CancelKeeps ==
    ASSUME TypeOK, NEW i \in Interactions, CancelInteraction(i)
    PROVE  \A j \in Interactions : RowKept(j)
<1> DEFINE y == [interactions[i] EXCEPT !.status = "cancelled"]
<1>1. Pending(i) /\ interactions' = [interactions EXCEPT ![i] = y]
  BY DEF CancelInteraction, CloseAndRefresh
<1>2. interactions'[i] = y /\ \A j \in Interactions \ {i} : interactions'[j] = interactions[j]
  BY <1>1 DEF TypeOK
<1>3. RowKept(i)
  <2>1. "cancelled" \in ClosedStatus
    BY DEF ClosedStatus
  <2> QED BY <1>1, <1>2, <2>1, ClosedRowKept
<1> QED BY <1>2, <1>3, SameRowKept

\* A question opens its interaction.
LEMMA QuestionOpens ==
    ASSUME Base, TypeOK, NEW i \in Interactions, NEW s \in Sessions, NEW r \in Requests,
           NEW k \in Kinds, Question(i, s, r, k)
    PROVE  RowOpened(i) /\ \A j \in Interactions \ {i} : RowKept(j)
<1> DEFINE y == [NoInteraction EXCEPT !.status = "pending", !.session = s, !.request = r,
                                      !.kind = k]
<1>1. interactions[i].status = "absent" /\ interactions' = [interactions EXCEPT ![i] = y]
  BY DEF Question, OpenInteraction
<1>2. y.message = NoValue /\ y.actor = NoValue
  BY DEF NoInteraction
<1> HIDE DEF y
<1>3. interactions'[i] = y /\ \A j \in Interactions \ {i} : interactions'[j] = interactions[j]
  BY <1>1 DEF TypeOK
<1>4. \E o \in Rows' : outbox'[o].kind = "question" /\ outbox'[o].about = i
  BY QuestionRows
<1> QED BY <1>1, <1>2, <1>3, <1>4, SameRowKept DEF RowOpened

\* The receipt is attached to the interaction of the item.
LEMMA AttachAttaches ==
    ASSUME Base, TypeOK, worker.receipt # 0, NEW i \in Interactions,
           outbox[worker.item].kind \in {"question", "news"}, outbox[worker.item].about = i,
           AttachMessage(i, worker.receipt)
    PROVE  RowAttached(i) /\ \A j \in Interactions \ {i} : RowKept(j)
<1> DEFINE y == [interactions[i] EXCEPT !.message = worker.receipt]
<1>1. Pending(i) /\ interactions' = [interactions EXCEPT ![i] = y]
  BY DEF AttachMessage
<1>2. interactions[i] \in InteractionRow
  BY DEF TypeOK
<1>3. y.status = interactions[i].status /\ y.message = worker.receipt
      /\ y.actor = interactions[i].actor
  BY <1>2, AttachedColumns
<1> HIDE DEF y
<1>4. interactions'[i] = y /\ \A j \in Interactions \ {i} : interactions'[j] = interactions[j]
  BY <1>1 DEF TypeOK
<1> QED BY <1>1, <1>3, <1>4, SameRowKept DEF RowAttached, Pending

\* Every step keeps the rows, opens one with a question, or attaches the receipt.
LEMMA RowEffects == ASSUME Base, TypeOK, [Next]_vars PROVE RowEffect
<1>0. ASSUME UNCHANGED storeVars \/ UNCHANGED interactions PROVE RowEffect
  <2>1. interactions' = interactions
    BY <1>0 DEF storeVars
  <2> QED BY <2>1, SameRowKept DEF RowEffect
<1>a. ASSUME worker.receipt # 0, outbox[worker.item].kind \in {"question", "news"},
             AttachMessage(outbox[worker.item].about, worker.receipt)
      PROVE  RowEffect
  <2>1. PICK i \in Interactions : outbox[worker.item].about = i
    BY <1>a, AttachIsStore
  <2> QED BY <1>a, <2>1, AttachAttaches DEF RowEffect
<1>1. CASE Orchestrator
  <2>1. ASSUME NEW s \in Sessions, NewSession(s) PROVE RowEffect
    BY <1>0, <2>1 DEF NewSession, CreateSession
  <2>2. ASSUME NEW s \in Sessions, NEW status \in Outcomes, EndSession(s, status) PROVE RowEffect
    <3>1. ClosePendingOf({s}, "cancelled") /\ "cancelled" \in ClosedStatus
      BY <2>2 DEF EndSession, ClaimTerminal, ClosedStatus
    <3> QED BY <3>1, ClosePendingKeeps DEF RowEffect
  <2>3. ASSUME NEW i \in Interactions, NEW s \in Sessions, NEW r \in Requests, NEW k \in Kinds,
               Question(i, s, r, k)
        PROVE  RowEffect
    BY <2>3, QuestionOpens DEF RowEffect
  <2>4. ASSUME NEW i \in Interactions, NEW d \in Decisions, NEW a \in Actors,
               DecideElsewhere(i, d, a)
        PROVE  RowEffect
    <3>1. a # "lark" /\ \E st : Resolve(i, d, a, st)
      BY <2>4 DEF DecideElsewhere
    <3> QED BY <3>1, ResolveKeeps DEF RowEffect
  <2>5. ASSUME NEW i \in Interactions, Withdraw(i) PROVE RowEffect
    BY <2>5, CancelKeeps DEF Withdraw, RowEffect
  <2>6. ASSUME NEW i \in Interactions, TellResolved(i) PROVE RowEffect
    BY <1>0, <2>6 DEF TellResolved
  <2> QED BY <1>1, <2>1, <2>2, <2>3, <2>4, <2>5, <2>6 DEF Orchestrator
<1>2. CASE Callback \/ LarkPosts \/ \E o \in Rows : Elapse(o)
  BY <1>0, <1>2 DEF Callback, Ingest, IngestBreaks, SpoolHook, StartBreaks, LarkPosts, Elapse
<1>3. CASE Worker
  <2>1. CASE ListDue \/ SendFails \/ ListBreaks \/ RescheduleBreaks \/ \E o \in Rows : Send(o)
    BY <1>0, <2>1 DEF ListDue, SendFails, ListBreaks, RescheduleBreaks, Send
  <2>2. CASE Acknowledge \/ MarkBreaks
    <3>1. worker.receipt # 0
          /\ (Attach(worker.item, worker.receipt) \/ UNCHANGED storeVars)
      BY <2>2 DEF Acknowledge, MarkBreaks
    <3> QED BY <1>0, <1>a, <3>1 DEF Attach
  <2> QED BY <1>3, <2>1, <2>2 DEF Worker
<1>4. CASE Router
  <2>1. PICK m \in DOMAIN posted, d \in Decisions :
            UNCHANGED storeVars \/ \E i \in Answerable(m) : Resolve(i, d, "lark", "resolved")
    BY <1>4 DEF Router, Reply
  <2>2. m # NoValue
    BY NoValueAssumption DEF Base, OutboxTypeOK
  <2>3. ASSUME NEW i \in Answerable(m), Resolve(i, d, "lark", "resolved") PROVE RowEffect
    <3>1. i \in Interactions /\ interactions[i].message # NoValue
      BY <2>2 DEF Answerable
    <3> QED BY <2>3, <3>1, ResolveKeeps DEF RowEffect
  <2> QED BY <1>0, <2>1, <2>3
<1>5. CASE Start
  BY <1>5, ReconcileKeeps DEF Start, RowEffect
<1>6. CASE Stop
  BY <1>0, <1>a, <1>6 DEF Stop
<1>7. CASE UNCHANGED vars
  BY <1>0, <1>7 DEF vars, storeVars
<1> QED BY <1>1, <1>2, <1>3, <1>4, <1>5, <1>6, <1>7 DEF Next

-----------------------------------------------------------------------------
(* Replies reach what the message asks. *)

\* Messages of the chat stay, and show the row they showed.
LEMMA ChatStays ==
    ASSUME Base, [Next]_vars
    PROVE  \A m \in DOMAIN posted : m \in DOMAIN posted' /\ posted'[m] = posted[m]
<1>1. CASE Posting
  BY <1>1, PostingFacts
<1>2. CASE ~ Posting
  <2>1. posted' = posted
    BY <1>2, OutboxEffects DEF Effect, Growing, Acknowledging, Retrying, Breaking, Stopping,
       Resting, Listing, Elapsing, Taking, outboxVars
  <2> QED BY <2>1
<1> QED BY <1>1, <1>2

\* The news of an end comes after the end.
NewsClosed ==
    \A o \in Rows : outbox[o].kind = "news" => interactions[outbox[o].about].status \in ClosedStatus

\* The basis, with the tables and what they say of news and messages.
Answers == Base /\ TypeOK /\ NewsClosed /\ LarkAnswersWhatItAsked

\* Whatever was closed stays closed.
LEMMA ClosedStays ==
    ASSUME Base, TypeOK, [Next]_vars, NEW i \in Interactions, interactions[i].status \in ClosedStatus
    PROVE  interactions'[i].status \in ClosedStatus
BY RowEffects DEF RowEffect, RowKept, RowOpened, RowAttached, ClosedStatus

LEMMA NewsStep == ASSUME Base, TypeOK, NewsClosed, [Next]_vars PROVE NewsClosed'
<1> SUFFICES ASSUME NEW o \in Rows', outbox'[o].kind = "news"
             PROVE  interactions'[outbox'[o].about].status \in ClosedStatus
  BY DEF NewsClosed
<1>1. CASE o \in Rows
  <2>1. outbox[o].kind = "news" /\ outbox'[o].about = outbox[o].about
    BY <1>1, RowsStay DEF SameMatter
  <2>2. interactions[outbox[o].about].status \in ClosedStatus
    BY <1>1, <2>1 DEF NewsClosed
  <2>3. outbox[o].about \in Interactions
    <3>1. Apt("news", outbox[o].about)
      BY <1>1, <2>1, RowsTyped, RowFacts
    <3> QED BY <3>1 DEF Apt
  <2> QED BY <2>1, <2>2, <2>3, ClosedStays
<1>2. CASE o \notin Rows
  <2>1. PICK i \in Interactions : TellResolved(i)
    BY <1>2, Appending, StartingRows, HookRows, SessionRows, QuestionRows
  <2>2. outbox'[o].about = i
    BY <1>2, <2>1, NewsRows
  <2>3. interactions' = interactions /\ interactions[i].status \in ClosedStatus
    BY <2>1 DEF TellResolved, storeVars, ClosedStatus
  <2> QED BY <2>2, <2>3
<1> QED BY <1>1, <1>2

\* What LarkAnswersWhatItAsked says of one interaction.
Asked(i) ==
    /\ interactions[i].message # NoValue =>
           /\ interactions[i].message \in DOMAIN posted
           /\ outbox[posted[interactions[i].message]].kind = "question"
           /\ outbox[posted[interactions[i].message]].about = i
    /\ interactions[i].actor = "lark" => interactions[i].message # NoValue

LEMMA AskedMeans == LarkAnswersWhatItAsked <=> \A i \in Interactions : Asked(i)
BY DEF LarkAnswersWhatItAsked, Asked

\* The receipt that is attached is that of the question of the interaction.
LEMMA AnswersStep == ASSUME Answers, [Next]_vars PROVE LarkAnswersWhatItAsked'
<1>0. Base /\ TypeOK /\ NewsClosed /\ \A i \in Interactions : Asked(i)
  BY AskedMeans DEF Answers
<1>1. \A o \in Rows : o \in Rows' /\ SameMatter(outbox'[o], outbox[o])
  BY <1>0, RowsStay
<1>2. \A m \in DOMAIN posted : /\ m \in DOMAIN posted' /\ posted'[m] = posted[m]
                               /\ posted[m] \in Rows
  BY <1>0, ChatStays, SequenceFacts DEF Base
<1>3. ASSUME NEW i \in Interactions, RowKept(i) PROVE (Asked(i))'
  BY <1>0, <1>1, <1>2, <1>3 DEF Asked, RowKept, SameMatter
<1>4. ASSUME NEW i \in Interactions, RowOpened(i) PROVE (Asked(i))'
  <2>1. NoValue # "lark"
    BY NoValueAssumption, OutboxAssumption
  <2> QED BY <1>4, <2>1 DEF Asked, RowOpened
<1>5. ASSUME NEW i \in Interactions, RowAttached(i) PROVE (Asked(i))'
  <2>1. /\ worker.receipt \in DOMAIN posted /\ posted[worker.receipt] = worker.item
        /\ worker.item \in Rows /\ worker.receipt \in Messages
    BY <1>0, <1>5, WorkerFacts, ItemFacts, AttachIsStore DEF Base, WorkerOK, RowAttached
  <2>2. outbox[worker.item].kind = "question"
    BY <1>0, <1>5, <2>1 DEF RowAttached, NewsClosed, ClosedStatus
  <2>3. interactions'[i].message = worker.receipt /\ worker.receipt # NoValue
    BY <1>5, <2>1, NoValueAssumption DEF RowAttached
  <2>4. /\ worker.receipt \in DOMAIN posted' /\ posted'[worker.receipt] = posted[worker.receipt]
        /\ SameMatter(outbox'[worker.item], outbox[worker.item])
    BY <1>1, <1>2, <2>1
  <2> QED BY <1>5, <2>1, <2>2, <2>3, <2>4 DEF Asked, SameMatter, RowAttached
<1>6. \A i \in Interactions : (Asked(i))'
  BY <1>0, <1>3, <1>4, <1>5, RowEffects DEF RowEffect
<1> QED BY <1>6 DEF LarkAnswersWhatItAsked, Asked

LEMMA AnswersInit == Init => Answers
<1> SUFFICES ASSUME Init PROVE Answers
  OBVIOUS
<1>1. TypeOK
  BY InitType DEF Init
<1>2. NewsClosed
  BY DEF Init, NewsClosed, Rows
<1>3. ASSUME NEW i \in Interactions PROVE interactions[i] = NoInteraction
  BY DEF Init, StoreInit
<1>4. NoInteraction.message = NoValue /\ NoInteraction.actor = NoValue /\ NoValue # "lark"
  BY NoValueAssumption, OutboxAssumption DEF NoInteraction
<1>5. \A i \in Interactions : Asked(i)
  BY <1>3, <1>4 DEF Asked
<1> QED BY <1>1, <1>2, <1>5, InitBase, AskedMeans DEF Answers

LEMMA AnswersKept == Answers /\ [Next]_vars => Answers'
<1> SUFFICES ASSUME Answers, [Next]_vars PROVE Answers'
  OBVIOUS
<1>1. Base /\ TypeOK /\ NewsClosed
  BY DEF Answers
<1>2. TypeOK'
  <2>1. CASE StoreNext
    BY <1>1, <2>1, StepType
  <2>2. CASE UNCHANGED storeVars
    BY <1>1, <2>2 DEF TypeOK, storeVars
  <2> QED BY <1>1, <2>1, <2>2, StoreStep
<1> QED BY <1>1, <1>2, BaseStep, NewsStep, AnswersStep DEF Answers

\* A reply reaches the interaction that its message asks about (attach_lark_message_id,
\* handle_text).
THEOREM LarkAnswers == Spec => []LarkAnswersWhatItAsked
<1>1. Answers => LarkAnswersWhatItAsked
  BY DEF Answers
<1> QED BY <1>1, AnswersInit, AnswersKept, PTL DEF Spec

-----------------------------------------------------------------------------
(* The question comes before the news. *)

\* The news n was not tried, and is behind its question o at every stage on its way.
Behind(o, n) ==
    /\ outbox[n].attempts = 0 /\ CopiesOf(n) = {} /\ worker.item # n
    /\ outbox[n].state # "waiting" => outbox[o].state # "waiting"
    /\ n \in worker.batch => o \in worker.batch \/ worker.item = o

Ahead(o, n) == outbox[o].attempts > 0 \/ CopiesOf(o) # {} \/ Behind(o, n)

IsQuestion(o, i) == outbox[o].kind = "question" /\ outbox[o].about = i

\* An interaction has a question, and its news has one ahead of it.
Ordered ==
    /\ \A i \in Interactions :
          interactions[i].status # "absent" => \E o \in Rows : IsQuestion(o, i)
    /\ \A n \in Rows : outbox[n].kind = "news" =>
          \E o \in Rows : o < n /\ IsQuestion(o, outbox[n].about) /\ Ahead(o, n)

\* Attempts and copies only become more.
LEMMA MoreTries ==
    ASSUME Base, [Next]_vars, NEW o \in Rows
    PROVE  /\ outbox[o].attempts > 0 => outbox'[o].attempts > 0
           /\ CopiesOf(o) \subseteq (CopiesOf(o))'
<1>1. CopiesOf(o) \subseteq (CopiesOf(o))'
  BY ChatStays DEF CopiesOf
<1>2. outbox[o].attempts \in Nat
  BY RowsTyped
<1>3. CASE Growing
  BY <1>1, <1>3 DEF Growing
<1>4. CASE Acknowledging
  <2>1. /\ worker.item \in Rows /\ outbox'[worker.item] = Sent(worker.item)
        /\ \A p \in Rows \ {worker.item} : outbox'[p] = outbox[p]
    BY <1>4, ItemFacts, BecomesFacts DEF Acknowledging
  <2> QED BY <1>1, <2>1, NextRowFacts
<1>5. CASE Retrying
  <2>1. /\ worker.item \in Rows /\ outbox'[worker.item] = Again(worker.item)
        /\ \A p \in Rows \ {worker.item} : outbox'[p] = outbox[p]
    BY <1>5, ItemFacts, BecomesFacts DEF Retrying
  <2> QED BY <1>1, <1>2, <2>1, NextRowFacts
<1>6. CASE \E p \in Rows : Elapsing(p)
  <2>1. PICK p \in Rows : Elapsing(p)
    BY <1>6
  <2>2. outbox'[p] = Due(p) /\ \A q \in Rows \ {p} : outbox'[q] = outbox[q]
    BY <2>1, BecomesFacts DEF Elapsing
  <2> QED BY <1>1, <2>2, NextRowFacts
<1>7. CASE Breaking \/ Stopping \/ Resting \/ Listing \/ Posting \/ \E p \in Rows : Taking(p)
  <2>1. outbox' = outbox
    BY <1>7 DEF Breaking, Stopping, Resting, Listing, Posting, Taking, outboxVars
  <2> QED BY <1>1, <2>1
<1> QED BY <1>3, <1>4, <1>5, <1>6, <1>7, OutboxEffects DEF Effect

\* The news stays behind, until the question was tried.
LEMMA AheadStep ==
    ASSUME Base, [Next]_vars, NEW o \in Rows, NEW n \in Rows, o < n, Ahead(o, n)
    PROVE  (Ahead(o, n))'
<1>0. CASE outbox[o].attempts > 0 \/ CopiesOf(o) # {}
  BY <1>0, MoreTries DEF Ahead
<1> SUFFICES ASSUME ~ (outbox[o].attempts > 0 \/ CopiesOf(o) # {})
             PROVE  (Ahead(o, n))'
  BY <1>0
<1>a. Behind(o, n) /\ CopiesOf(o) = {}
  BY DEF Ahead
<1>b. /\ outbox[o].attempts = 0 /\ outbox[o].state # "sent" /\ outbox[n].state # "sent"
      /\ worker.receipt # 0 => worker.item # o
      /\ OutboxTypeOK /\ o # n /\ ~ (n <= o)
  <2>1. outbox[o].attempts \in Nat /\ o \in Nat /\ n \in Nat
    BY RowsTyped, SequenceFacts DEF Base
  <2>2. worker.receipt # 0 => worker.item # o
    BY <1>a, ReceiptIsCopy
  <2> QED BY <1>a, <2>1, <2>2 DEF Behind, Base, SentWasPosted
<1>1. CASE Growing
  <2>1. /\ outbox'[o] = outbox[o] /\ outbox'[n] = outbox[n] /\ (CopiesOf(n))' = CopiesOf(n)
        /\ worker' = worker \/ worker' = Idle({})
    BY <1>1 DEF Growing, CopiesOf
  <2>2. n # 0
    BY <1>b, SequenceFacts
  <2>3. (Behind(o, n))'
    BY <1>a, <2>1, <2>2, WorkerParts DEF Behind
  <2> QED BY <2>3 DEF Ahead
<1>2. CASE Acknowledging
  <2>1. /\ worker.item \in Rows /\ worker.item # n /\ worker.item # o
    BY <1>2, <1>a, <1>b, ItemFacts DEF Acknowledging, Behind
  <2>2. /\ outbox'[o] = outbox[o] /\ outbox'[n] = outbox[n] /\ (CopiesOf(n))' = CopiesOf(n)
        /\ worker' = Idle(worker.batch)
    BY <1>2, <2>1, BecomesFacts DEF Acknowledging, CopiesOf
  <2>3. n # 0
    BY <1>b, SequenceFacts
  <2>4. (Behind(o, n))'
    BY <1>a, <2>1, <2>2, <2>3, WorkerParts DEF Behind
  <2> QED BY <2>4 DEF Ahead
<1>3. CASE Retrying
  <2>1. worker.item \in Rows /\ worker.item # n
    BY <1>3, <1>a, ItemFacts DEF Retrying, Behind
  <2>2. /\ outbox'[worker.item] = Again(worker.item)
        /\ \A p \in Rows \ {worker.item} : outbox'[p] = outbox[p]
        /\ (CopiesOf(n))' = CopiesOf(n) /\ worker' = Idle(worker.batch)
    BY <1>3, <2>1, BecomesFacts DEF Retrying, CopiesOf
  <2>3. CASE worker.item = o
    <3>1. outbox'[o].attempts = outbox[o].attempts + 1
      BY <2>2, <2>3, NextRowFacts
    <3>2. outbox'[o].attempts > 0
      BY <1>b, <3>1
    <3> QED BY <3>2 DEF Ahead
  <2>4. CASE worker.item # o
    <3>1. n # 0
      BY <1>b, SequenceFacts
    <3>2. (Behind(o, n))'
      BY <1>a, <2>1, <2>2, <2>4, <3>1, WorkerParts DEF Behind
    <3> QED BY <3>2 DEF Ahead
  <2> QED BY <2>3, <2>4
<1>4. CASE Breaking \/ Stopping
  <2>1. /\ outbox' = outbox /\ (CopiesOf(n))' = CopiesOf(n)
        /\ worker' = Dead \/ worker' = Off
    BY <1>4 DEF Breaking, Stopping, CopiesOf
  <2>2. n # 0
    BY <1>b, SequenceFacts
  <2>3. (Behind(o, n))'
    BY <1>a, <2>1, <2>2, WorkerParts DEF Behind
  <2> QED BY <2>3 DEF Ahead
<1>5. CASE Resting
  <2>1. (Behind(o, n))'
    BY <1>5, <1>a DEF Resting, Behind, CopiesOf, outboxVars
  <2> QED BY <2>1 DEF Ahead
<1>6. CASE Listing
  <2>1. /\ outbox' = outbox /\ (CopiesOf(n))' = CopiesOf(n)
        /\ worker' = Idle(DueRows(Rows))
    BY <1>6 DEF Listing, CopiesOf
  <2>2. n \in DueRows(Rows) => o \in DueRows(Rows)
    <3>1. outbox[o].state \in {"waiting", "due", "sent"}
      BY RowsTyped DEF States
    <3> QED BY <1>a, <1>b, <3>1 DEF DueRows, Behind
  <2>3. n # 0
    BY <1>b, SequenceFacts
  <2>4. (Behind(o, n))'
    BY <1>a, <2>1, <2>2, <2>3, WorkerParts DEF Behind
  <2> QED BY <2>4 DEF Ahead
<1>7. CASE Posting
  <2>1. /\ outbox' = outbox /\ worker'.item = worker.item /\ worker'.batch = worker.batch
        /\ worker.item # n
    BY <1>7, <1>a, PostingFacts DEF Behind
  <2>2. (CopiesOf(n))' = CopiesOf(n)
    BY <1>7, <2>1, PostingCopies
  <2>3. (Behind(o, n))'
    BY <1>a, <2>1, <2>2 DEF Behind
  <2> QED BY <2>3 DEF Ahead
<1>8. CASE \E p \in Rows : Elapsing(p)
  <2>1. PICK p \in Rows : Elapsing(p)
    BY <1>8
  <2>2. /\ outbox'[p] = Due(p) /\ \A q \in Rows \ {p} : outbox'[q] = outbox[q]
        /\ (CopiesOf(n))' = CopiesOf(n) /\ worker' = worker
    BY <2>1, BecomesFacts DEF Elapsing, CopiesOf
  <2>3. outbox'[n].attempts = 0
    BY <1>a, <2>2, NextRowFacts DEF Behind
  <2>4. outbox'[n].state # "waiting" => outbox'[o].state # "waiting"
    <3>1. CASE p = n
      <4>1. outbox[o].state # "waiting"
        BY <1>a, <1>b, <2>1, <3>1 DEF Elapsing, Behind
      <4> QED BY <1>b, <2>2, <3>1, <4>1
    <3>2. CASE p = o
      BY <2>2, <3>2, NextRowFacts
    <3>3. CASE p # n /\ p # o
      BY <1>a, <2>2, <3>3 DEF Behind
    <3> QED BY <3>1, <3>2, <3>3
  <2>5. (Behind(o, n))'
    BY <1>a, <2>2, <2>3, <2>4 DEF Behind
  <2> QED BY <2>5 DEF Ahead
<1>9. CASE \E p \in Rows : Taking(p)
  <2>1. PICK p \in Rows : Taking(p)
    BY <1>9
  <2>2. /\ outbox' = outbox /\ (CopiesOf(n))' = CopiesOf(n)
        /\ worker' = Sending(p, worker.batch \ {p})
    BY <2>1 DEF Taking, CopiesOf
  <2>3. worker.item = 0 /\ o # 0
    BY <1>b, <2>1, SequenceFacts DEF Taking, Base, WorkerOK
  <2>4. p # n
    BY <1>a, <1>b, <2>1, <2>3 DEF Taking, Behind
  <2>5. (Behind(o, n))'
    BY <1>a, <2>2, <2>3, <2>4, WorkerParts DEF Behind
  <2> QED BY <2>5 DEF Ahead
<1> QED
  BY <1>1, <1>2, <1>3, <1>4, <1>5, <1>6, <1>7, <1>8, <1>9, OutboxEffects DEF Effect

\* Questions come with their interactions, news after their questions.
LEMMA OrderedStep ==
    ASSUME Base, TypeOK, NewsClosed, Ordered, [Next]_vars PROVE Ordered'
<1>1. \A o \in Rows : o \in Rows' /\ SameMatter(outbox'[o], outbox[o])
  BY RowsStay
<1>2. ASSUME NEW i \in Interactions, interactions'[i].status # "absent"
      PROVE  \E o \in Rows' : (IsQuestion(o, i))'
  <2>1. CASE interactions[i].status # "absent"
    <3>1. PICK o \in Rows : IsQuestion(o, i)
      BY <2>1 DEF Ordered
    <3> QED BY <1>1, <3>1 DEF IsQuestion, SameMatter
  <2>2. CASE RowOpened(i)
    BY <2>2 DEF RowOpened, IsQuestion
  <2>3. CASE RowKept(i) \/ RowAttached(i)
    BY <1>2, <2>1, <2>3 DEF RowKept, RowAttached
  <2> QED BY <2>2, <2>3, RowEffects DEF RowEffect
<1>3. ASSUME NEW n \in Rows', outbox'[n].kind = "news"
      PROVE  \E o \in Rows' : o < n /\ (IsQuestion(o, outbox[n].about))' /\ (Ahead(o, n))'
  <2>1. CASE n \in Rows
    <3>1. outbox[n].kind = "news" /\ outbox'[n].about = outbox[n].about
      BY <1>1, <1>3, <2>1 DEF SameMatter
    <3>2. PICK o \in Rows : o < n /\ IsQuestion(o, outbox[n].about) /\ Ahead(o, n)
      BY <2>1, <3>1 DEF Ordered
    <3>3. (Ahead(o, n))'
      BY <2>1, <3>2, AheadStep
    <3> QED BY <1>1, <3>1, <3>2, <3>3 DEF IsQuestion, SameMatter
  <2>2. CASE n \notin Rows
    <3>1. PICK i \in Interactions : TellResolved(i)
      BY <1>3, <2>2, Appending, StartingRows, HookRows, SessionRows, QuestionRows
    <3>2. Growing /\ outbox'[n].about = i
      BY <2>2, <3>1, NewsRows
    <3>3. PICK o \in Rows : IsQuestion(o, i)
      BY <3>1 DEF TellResolved, Ordered
    <3>4. o < n
      BY <2>2, SequenceFacts DEF Rows, Base
    <3>5. /\ outbox'[n].attempts = 0 /\ outbox'[n].state = "waiting"
          /\ worker' = worker
      BY <2>2, <3>1, <3>2 DEF Growing, TellResolved
    <3>6. (CopiesOf(n))' = {}
      <4>1. (CopiesOf(n))' = CopiesOf(n)
        BY <3>2 DEF Growing, CopiesOf
      <4> QED BY <2>2, <4>1, CopiesFinite
    <3>7. worker.item # n /\ n \notin worker.batch
      <4>1. n # 0
        BY <2>2, <3>4, SequenceFacts DEF Base, Rows
      <4> QED BY <2>2, <4>1, WorkerFacts DEF Base
    <3>8. (Ahead(o, n))'
      BY <3>5, <3>6, <3>7 DEF Ahead, Behind
    <3> QED BY <1>1, <3>2, <3>3, <3>4, <3>8 DEF IsQuestion, SameMatter
  <2> QED BY <2>1, <2>2
<1> QED BY <1>2, <1>3 DEF Ordered

\* What QuestionBeforeNews says of one message.
Told(m) ==
    outbox[posted[m]].kind = "news" =>
        \E o \in Rows :
            /\ IsQuestion(o, outbox[posted[m]].about)
            /\ outbox[o].attempts > 0 \/ \E n \in CopiesOf(o) : n < m

LEMMA ToldMeans == QuestionBeforeNews <=> \A m \in DOMAIN posted : Told(m)
BY DEF QuestionBeforeNews, Told, IsQuestion

\* News is posted when its question was tried.
LEMMA ToldStep == ASSUME Base, Ordered, QuestionBeforeNews, [Next]_vars PROVE QuestionBeforeNews'
<1>1. \A o \in Rows : o \in Rows' /\ SameMatter(outbox'[o], outbox[o])
  BY RowsStay
<1>2. \A m \in DOMAIN posted : /\ m \in DOMAIN posted' /\ posted'[m] = posted[m]
                               /\ posted[m] \in Rows
  BY ChatStays, SequenceFacts DEF Base
<1>3. ASSUME NEW m \in DOMAIN posted PROVE (Told(m))'
  <2> SUFFICES ASSUME outbox'[posted'[m]].kind = "news"
               PROVE  \E o \in Rows' :
                         /\ (IsQuestion(o, outbox[posted[m]].about))'
                         /\ outbox'[o].attempts > 0 \/ \E n \in (CopiesOf(o))' : n < m
    BY DEF Told
  <2>1. /\ outbox[posted[m]].kind = "news" /\ posted'[m] = posted[m]
        /\ outbox'[posted[m]].about = outbox[posted[m]].about
    BY <1>1, <1>2 DEF SameMatter
  <2>2. PICK o \in Rows : /\ IsQuestion(o, outbox[posted[m]].about)
                          /\ outbox[o].attempts > 0 \/ \E n \in CopiesOf(o) : n < m
    BY <2>1, ToldMeans DEF Told
  <2>3. outbox'[o].attempts > 0 \/ \E n \in (CopiesOf(o))' : n < m
    BY <2>2, MoreTries
  <2> QED BY <1>1, <2>1, <2>2, <2>3 DEF IsQuestion, SameMatter
<1>4. ASSUME NEW m \in DOMAIN posted', m \notin DOMAIN posted PROVE (Told(m))'
  <2>1. Posting
    <3>1. CASE ~ Posting
      <4>1. posted' = posted
        BY <3>1, OutboxEffects DEF Effect, Growing, Acknowledging, Retrying, Breaking, Stopping,
           Resting, Listing, Elapsing, Taking, outboxVars
      <4> QED BY <1>4, <4>1
    <3> QED BY <3>1
  <2>2. /\ posted'[m] = worker.item /\ worker.item \in Rows /\ outbox' = outbox
        /\ \A n \in DOMAIN posted : n < m
    BY <1>4, <2>1, PostingFacts
  <2> SUFFICES ASSUME outbox[worker.item].kind = "news"
               PROVE  \E o \in Rows' :
                         /\ (IsQuestion(o, outbox[posted[m]].about))'
                         /\ outbox'[o].attempts > 0 \/ \E n \in (CopiesOf(o))' : n < m
    BY <2>2 DEF Told
  <2>3. PICK o \in Rows : IsQuestion(o, outbox[worker.item].about) /\ Ahead(o, worker.item)
    BY <2>2 DEF Ordered
  <2>4. outbox[o].attempts > 0 \/ CopiesOf(o) # {}
    BY <2>3 DEF Ahead, Behind
  <2>5. outbox'[o].attempts > 0 \/ \E n \in (CopiesOf(o))' : n < m
    <3>1. \A n \in CopiesOf(o) : n \in (CopiesOf(o))' /\ n < m
      BY <2>2, MoreTries DEF CopiesOf
    <3> QED BY <2>4, <3>1, MoreTries
  <2> QED BY <1>1, <2>2, <2>3, <2>5 DEF IsQuestion, SameMatter
<1>5. \A m \in DOMAIN posted' : (Told(m))'
  BY <1>3, <1>4
<1> QED BY <1>5 DEF QuestionBeforeNews, Told, IsQuestion

\* The chat does not read "resolved" before the question, unless the question was tried in
\* vain (list_due_outbox, _outbox_worker).
THEOREM QuestionFirst == Spec => []QuestionBeforeNews
<1> DEFINE All == Answers /\ Ordered /\ QuestionBeforeNews
<1>1. Init => All
  <2> SUFFICES ASSUME Init PROVE All
    OBVIOUS
  <2>1. Rows = {} /\ DOMAIN posted = {}
    BY DEF Init, Rows
  <2>2. \A i \in Interactions : interactions[i].status = "absent"
    BY DEF Init, StoreInit, NoInteraction
  <2> QED BY <2>1, <2>2, AnswersInit DEF Ordered, QuestionBeforeNews
<1>2. All /\ [Next]_vars => All'
  BY AnswersKept, OrderedStep, ToldStep DEF Answers
<1>3. All => QuestionBeforeNews
  OBVIOUS
<1> QED BY <1>1, <1>2, <1>3, PTL DEF Spec
=============================================================================
