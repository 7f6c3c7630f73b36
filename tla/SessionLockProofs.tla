------------------------- MODULE SessionLockProofs -------------------------
(***************************************************************************)
(* Proof, for any finite number of calls and any cancellations, that calls *)
(* of one session exclude each other and that the table holds exactly the  *)
(* sessions in use.                                                        *)
(***************************************************************************)
EXTENDS SessionLock, FiniteSetTheorems, TLAPS

Using(e) == {t \in Tasks : stage[t] \in InUse /\ entry[t] = e}
Woken(t) == stage[t] \in {"woken", "stopped"}

\* All calls of a session share its entry, which is named after one of them.
Shared ==
    /\ \A t \in Tasks : stage[t] \in InUse => entry[t] \in Tasks /\ table[SessionOf[t]] = entry[t]
    /\ \A s \in LockSessions : table[s] \in Tasks => SessionOf[table[s]] = s
    /\ \A t \in Tasks : stage[t] = "idle" =>
          /\ ~locked[t]
          /\ \A u \in Tasks : stage[u] \in InUse => entry[u] # t
          /\ \A s \in LockSessions : table[s] # t

\* users counts them, and an entry without users is not in the table.
Counted ==
    /\ \A e \in Tasks : users[e] = Cardinality(Using(e))
    /\ \A s \in LockSessions : table[s] \in Tasks => Using(table[s]) # {}

\* A lock is held by the one call that runs.  While it is free at most one call has been woken
\* for it, and that is the first in the queue.
Exclusive ==
    /\ \A t \in Tasks : stage[t] = "running" => locked[entry[t]]
    /\ \A t, u \in Tasks :
          stage[t] = "running" /\ stage[u] = "running" /\ entry[t] = entry[u] => t = u
    /\ \A e \in Tasks : locked[e] => \E t \in Tasks : stage[t] = "running" /\ entry[t] = e
    /\ \A t \in Tasks : Woken(t) => ~locked[entry[t]]
    /\ \A t, u \in Tasks :
          Woken(t) /\ stage[u] \in Queued /\ entry[t] = entry[u] => ticket[t] <= ticket[u]
    /\ \A t \in Tasks : stage[t] \in Queued => ticket[t] < tickets
    /\ \A t, u \in Tasks :
          stage[t] \in Queued /\ stage[u] \in Queued /\ ticket[t] = ticket[u] => t = u

LockInv == LockTypeOK /\ Shared /\ Counted /\ Exclusive

\* Sets of calls are finite.
LEMMA UsingFinite == ASSUME NEW e PROVE IsFiniteSet(Using(e))
<1>1. Using(e) \subseteq Tasks
  BY DEF Using
<1> QED BY <1>1, LockAssumption, FS_Subset

\* It holds at first.
LEMMA LockInitInv == LockInit => LockInv
<1> SUFFICES ASSUME LockInit PROVE LockInv
  OBVIOUS
<1>1. \A e \in Tasks : Using(e) = {}
  BY DEF LockInit, Using, InUse, Queued
<1>2. \A e \in Tasks : Cardinality(Using(e)) = 0
  BY <1>1, FS_EmptySet
<1>3. LockTypeOK
  BY DEF LockInit, LockTypeOK, Stages
<1>4. Shared /\ Exclusive
  BY LockAssumption DEF LockInit, Shared, Exclusive, InUse, Queued, Woken
<1>5. Counted
  BY <1>2, LockAssumption DEF LockInit, Counted
<1> QED BY <1>3, <1>4, <1>5 DEF LockInv

\* A call that enters an entry is counted once more.
LEMMA UsingMore ==
    ASSUME LockTypeOK, Counted, NEW t \in Tasks, NEW e \in Tasks, stage[t] \notin InUse,
           users'[e] = users[e] + 1, \A d \in Tasks \ {e} : users'[d] = users[d],
           Using(e)' = Using(e) \cup {t}, \A d \in Tasks \ {e} : Using(d)' = Using(d)
    PROVE  \A d \in Tasks : users'[d] = Cardinality(Using(d))'
<1>1. t \notin Using(e)
  BY DEF Using
<1>2. Cardinality(Using(e) \cup {t}) = Cardinality(Using(e)) + 1
  BY <1>1, UsingFinite, FS_AddElement
<1>3. \A d \in Tasks \ {e} : users'[d] = Cardinality(Using(d))'
  BY DEF Counted
<1>4. users'[e] = Cardinality(Using(e))'
  BY <1>2 DEF Counted
<1> QED BY <1>3, <1>4

\* One that leaves, once less, and none is left when the count is zero.
LEMMA UsingLess ==
    ASSUME LockTypeOK, Counted, NEW t \in Tasks, NEW e \in Tasks, t \in Using(e),
           users' \in [Tasks -> Int],
           users'[e] = users[e] - 1, \A d \in Tasks \ {e} : users'[d] = users[d],
           Using(e)' = Using(e) \ {t}, \A d \in Tasks \ {e} : Using(d)' = Using(d)
    PROVE  /\ \A d \in Tasks : users'[d] = Cardinality(Using(d))'
           /\ users' \in [Tasks -> Nat]
           /\ users'[e] = 0 <=> Using(e)' = {}
<1>1. Cardinality(Using(e) \ {t}) = Cardinality(Using(e)) - 1
  BY UsingFinite, FS_RemoveElement
<1>2. IsFiniteSet(Using(e) \ {t})
  BY UsingFinite, FS_RemoveElement
<1>3. Cardinality(Using(e) \ {t}) \in Nat /\ (Cardinality(Using(e) \ {t}) = 0 <=> Using(e) \ {t} = {})
  BY <1>2, FS_CardinalityType, FS_EmptySet
<1>4. \A d \in Tasks \ {e} : users'[d] = Cardinality(Using(d))'
  BY DEF Counted
<1>5. users'[e] = Cardinality(Using(e) \ {t}) /\ users'[e] = Cardinality(Using(e))'
  BY <1>1 DEF Counted
<1>6. users' \in [Tasks -> Nat]
  BY <1>3, <1>5 DEF LockTypeOK
<1> QED BY <1>3, <1>4, <1>5, <1>6

\* A call that enters with entry e, and starts or waits.
Enters(t, e) ==
    /\ stage[t] = "idle" /\ e = IF table[SessionOf[t]] = NoEntry THEN t ELSE table[SessionOf[t]]
    /\ entry' = [entry EXCEPT ![t] = e]
    /\ table' = [table EXCEPT ![SessionOf[t]] = e]
    /\ users' = [users EXCEPT ![e] = @ + 1]
Starts(t, e) ==
    /\ ~locked[e] /\ \A u \in Queue(e) : stage[u] = "cancelled"
    /\ stage' = [stage EXCEPT ![t] = "running"]
    /\ locked' = [locked EXCEPT ![e] = TRUE]
    /\ UNCHANGED <<ticket, tickets>>
Waits(t, e) ==
    /\ stage' = [stage EXCEPT ![t] = "waiting"]
    /\ ticket' = [ticket EXCEPT ![t] = tickets]
    /\ tickets' = tickets + 1
    /\ UNCHANGED locked
    /\ locked[e] \/ \E u \in Queue(e) : stage[u] # "cancelled"

\* The two cases of Enter.
LEMMA EnterCases ==
    ASSUME LockTypeOK, Shared, NEW t \in Tasks, Enter(t)
    PROVE  \E e \in Tasks : Enters(t, e) /\ (Starts(t, e) \/ Waits(t, e))
<1> DEFINE d == IF table[SessionOf[t]] = NoEntry THEN t ELSE table[SessionOf[t]]
<1>1. d \in Tasks
  BY LockAssumption DEF LockTypeOK
<1>2. Enters(t, d)
  BY DEF Enter, Enters
<1>3. Starts(t, d) \/ Waits(t, d)
  BY DEF Enter, Starts, Waits
<1> QED BY <1>1, <1>2, <1>3

\* What Enters says of each call and session.
LEMMA EnterFacts ==
    ASSUME LockTypeOK, NEW t \in Tasks, NEW e \in Tasks, Enters(t, e), Starts(t, e) \/ Waits(t, e)
    PROVE  /\ SessionOf[t] \in LockSessions /\ stage[t] = "idle" /\ stage[t] \notin InUse
           /\ stage'[t] \in {"running", "waiting"} /\ \A u \in Tasks \ {t} : stage'[u] = stage[u]
           /\ entry'[t] = e /\ \A u \in Tasks \ {t} : entry'[u] = entry[u]
           /\ table'[SessionOf[t]] = e
           /\ \A s \in LockSessions \ {SessionOf[t]} : table'[s] = table[s]
           /\ \A d \in Tasks \ {e} : locked'[d] = locked[d]
           /\ Using(e)' = Using(e) \cup {t} /\ \A d \in Tasks \ {e} : Using(d)' = Using(d)
<1>1. /\ SessionOf[t] \in LockSessions /\ stage[t] = "idle" /\ stage[t] \notin InUse
      /\ stage'[t] \in {"running", "waiting"} /\ \A u \in Tasks \ {t} : stage'[u] = stage[u]
      /\ entry'[t] = e /\ \A u \in Tasks \ {t} : entry'[u] = entry[u]
      /\ table'[SessionOf[t]] = e
      /\ \A s \in LockSessions \ {SessionOf[t]} : table'[s] = table[s]
      /\ \A d \in Tasks \ {e} : locked'[d] = locked[d]
  BY LockAssumption DEF LockTypeOK, Enters, Starts, Waits, InUse, Queued
<1>2. stage'[t] \in InUse
  BY <1>1 DEF InUse, Queued
<1>3. Using(e)' = Using(e) \cup {t} /\ \A d \in Tasks \ {e} : Using(d)' = Using(d)
  BY <1>1, <1>2 DEF Using
<1> QED BY <1>1, <1>3

\* Enter preserves the types.
LEMMA EnterType ==
    ASSUME LockTypeOK, NEW t \in Tasks, NEW e \in Tasks, Enters(t, e), Starts(t, e) \/ Waits(t, e)
    PROVE  LockTypeOK'
<1>1. users' \in [Tasks -> Nat] /\ entry' \in [Tasks -> Tasks \cup {NoEntry}]
  BY DEF LockTypeOK, Enters
<1>2. table' \in [LockSessions -> Tasks \cup {NoEntry}]
  BY LockAssumption DEF LockTypeOK, Enters
<1>3. /\ stage' \in [Tasks -> Stages] /\ locked' \in [Tasks -> BOOLEAN]
      /\ ticket' \in [Tasks -> Nat] /\ tickets' \in Nat
  <2>1. "running" \in Stages /\ "waiting" \in Stages
    BY DEF Stages, InUse, Queued
  <2>2. CASE Starts(t, e)
    BY <2>1, <2>2 DEF LockTypeOK, Starts
  <2>3. CASE Waits(t, e)
    BY <2>1, <2>3 DEF LockTypeOK, Waits
  <2> QED BY <2>2, <2>3
<1> QED BY <1>1, <1>2, <1>3 DEF LockTypeOK

\* It preserves the sharing of entries.
LEMMA EnterShared ==
    ASSUME LockTypeOK, Shared, NEW t \in Tasks, NEW e \in Tasks,
           Enters(t, e), Starts(t, e) \/ Waits(t, e)
    PROVE  Shared'
<1>0. e = IF table[SessionOf[t]] = NoEntry THEN t ELSE table[SessionOf[t]]
  BY DEF Enters
<1>1. \A u \in Tasks : stage'[u] \in InUse => entry'[u] \in Tasks /\ table'[SessionOf[u]] = entry'[u]
  BY <1>0, EnterFacts, LockAssumption DEF Shared
<1>2. \A q \in LockSessions : table'[q] \in Tasks => SessionOf[table'[q]] = q
  BY <1>0, EnterFacts, LockAssumption DEF Shared
<1>3. ASSUME NEW d \in Tasks, stage'[d] = "idle"
      PROVE  /\ ~locked'[d]
             /\ \A u \in Tasks : stage'[u] \in InUse => entry'[u] # d
             /\ \A q \in LockSessions : table'[q] # d
  <2>1. d # t /\ stage[d] = "idle" /\ d # e
    BY <1>0, <1>3, EnterFacts DEF Shared
  <2>2. ~locked'[d]
    BY <2>1, EnterFacts DEF Shared
  <2> QED BY <2>1, <2>2, EnterFacts DEF Shared
<1> QED BY <1>1, <1>2, <1>3 DEF Shared

\* It preserves the counts.
LEMMA EnterCounted ==
    ASSUME LockTypeOK, Counted, NEW t \in Tasks, NEW e \in Tasks,
           Enters(t, e), Starts(t, e) \/ Waits(t, e)
    PROVE  Counted'
<1>1. /\ users'[e] = users[e] + 1 /\ \A d \in Tasks \ {e} : users'[d] = users[d]
      /\ stage[t] \notin InUse
      /\ Using(e)' = Using(e) \cup {t} /\ \A d \in Tasks \ {e} : Using(d)' = Using(d)
  BY EnterFacts, ZenonT(60) DEF Enters, LockTypeOK
<1>2. \A d \in Tasks : users'[d] = Cardinality(Using(d))'
  BY <1>1, UsingMore
<1>3. \A d \in Tasks : Using(d) # {} => Using(d)' # {}
  BY EnterFacts
<1>4. Using(e)' # {}
  BY EnterFacts
<1>5. \A q \in LockSessions : table'[q] = e \/ table'[q] = table[q]
  BY EnterFacts
<1>6. ASSUME NEW q \in LockSessions, table'[q] \in Tasks PROVE \E d \in Tasks : table'[q] = d /\ Using(d)' # {}
  BY <1>3, <1>4, <1>5, <1>6 DEF Counted
<1>7. \A q \in LockSessions : (table[q])' \in Tasks => Using(table[q])' # {}
  BY <1>6 DEF Using
<1> QED BY <1>2, <1>7 DEF Counted

\* It preserves the exclusion.
LEMMA EnterExclusive ==
    ASSUME LockTypeOK, Shared, Exclusive, NEW t \in Tasks, NEW e \in Tasks,
           Enters(t, e), Starts(t, e) \/ Waits(t, e)
    PROVE  Exclusive'
<1>1. CASE Starts(t, e)
  <2>1. /\ stage'[t] = "running" /\ locked'[e] /\ UNCHANGED <<ticket, tickets>>
        /\ ~locked[e] /\ \A u \in Queue(e) : stage[u] = "cancelled"
    BY <1>1 DEF Starts, LockTypeOK
  <2>2. \A u \in Tasks : Woken(u) => entry[u] # e
    BY <2>1 DEF Queue, Woken, Queued
  <2>3. \A u \in Tasks : stage[u] = "running" => entry[u] # e
    BY <2>1 DEF Exclusive
  <2>4. \A u \in Tasks : /\ Woken(u)' => u # t /\ Woken(u)
                         /\ stage'[u] \in Queued => u # t /\ stage[u] \in Queued
    BY <2>1, EnterFacts DEF Woken, Queued
  <2>5. /\ \A u, w \in Tasks :
             Woken(u)' /\ stage'[w] \in Queued /\ entry'[u] = entry'[w] => ticket'[u] <= ticket'[w]
        /\ \A u \in Tasks : stage'[u] \in Queued => ticket'[u] < tickets'
        /\ \A u, w \in Tasks :
             stage'[u] \in Queued /\ stage'[w] \in Queued /\ ticket'[u] = ticket'[w] => u = w
    BY <2>1, <2>4, EnterFacts DEF Exclusive
  <2>6. \A d \in Tasks : locked'[d] => \E u \in Tasks : stage'[u] = "running" /\ entry'[u] = d
    <3>1. \A u \in Tasks : stage[u] = "running" => stage'[u] = "running" /\ entry'[u] = entry[u]
      BY EnterFacts DEF InUse
    <3>2. \A d \in Tasks \ {e} : locked'[d] = locked[d]
      BY EnterFacts
    <3> QED BY <2>1, <3>1, <3>2, EnterFacts DEF Exclusive
  <2>7. \A u \in Tasks : entry[u] \in Tasks \cup {NoEntry} /\ (u # t => entry'[u] = entry[u])
    BY EnterFacts DEF LockTypeOK
  <2>8. \A u \in Tasks : u # t /\ entry[u] # e /\ stage[u] \in InUse => locked'[entry[u]] = locked[entry[u]]
    BY EnterFacts DEF Shared
  <2>9. \A u \in Tasks : (stage[u] = "running" \/ Woken(u)) => stage[u] \in InUse
    BY DEF Woken, InUse, Queued
  <2>10. \A u \in Tasks : Woken(u)' => ~locked'[entry'[u]]
    BY <2>2, <2>4, <2>7, <2>8, <2>9 DEF Exclusive
  <2>11. /\ \A u \in Tasks : stage'[u] = "running" => locked'[entry'[u]]
         /\ \A u, w \in Tasks :
              stage'[u] = "running" /\ stage'[w] = "running" /\ entry'[u] = entry'[w] => u = w
    BY <2>1, <2>3, <2>7, <2>8, <2>9, EnterFacts DEF Exclusive
  <2> QED BY <2>5, <2>6, <2>10, <2>11 DEF Exclusive
<1>2. CASE Waits(t, e)
  <2>1. /\ stage'[t] = "waiting" /\ UNCHANGED locked
        /\ ticket'[t] = tickets /\ tickets' = tickets + 1
        /\ \A u \in Tasks \ {t} : ticket'[u] = ticket[u]
    BY <1>2 DEF Waits, LockTypeOK
  <2>2. \A u \in Tasks : ticket[u] \in Nat /\ tickets \in Nat
    BY DEF LockTypeOK
  <2>3. \A u, w \in Tasks :
            Woken(u)' /\ stage'[w] \in Queued /\ entry'[u] = entry'[w] => ticket'[u] <= ticket'[w]
    BY <2>1, <2>2, EnterFacts DEF Exclusive, Woken, Queued
  <2>4. \A u \in Tasks : stage'[u] \in Queued => ticket'[u] < tickets'
    BY <2>1, <2>2, EnterFacts DEF Exclusive
  <2>5. \A u, w \in Tasks :
            stage'[u] \in Queued /\ stage'[w] \in Queued /\ ticket'[u] = ticket'[w] => u = w
    BY <2>1, <2>2, EnterFacts DEF Exclusive
  <2>6. \A d \in Tasks : locked'[d] => \E u \in Tasks : stage'[u] = "running" /\ entry'[u] = d
    BY <2>1, EnterFacts DEF Exclusive
  <2>7. /\ \A u \in Tasks : stage'[u] = "running" => locked'[entry'[u]]
        /\ \A u, w \in Tasks :
             stage'[u] = "running" /\ stage'[w] = "running" /\ entry'[u] = entry'[w] => u = w
        /\ \A u \in Tasks : Woken(u)' => ~locked'[entry'[u]]
    BY <2>1, EnterFacts DEF Exclusive, Woken
  <2> QED BY <2>3, <2>4, <2>5, <2>6, <2>7 DEF Exclusive
<1> QED BY <1>1, <1>2

\* Enter preserves the invariant.
LEMMA EnterInv == ASSUME LockInv, NEW t \in Tasks, Enter(t) PROVE LockInv'
<1>1. LockTypeOK /\ Shared /\ Counted /\ Exclusive
  BY DEF LockInv
<1>2. PICK e \in Tasks : Enters(t, e) /\ (Starts(t, e) \/ Waits(t, e))
  BY <1>1, EnterCases
<1> QED BY <1>1, <1>2, EnterType, EnterShared, EnterCounted, EnterExclusive DEF LockInv

\* A call that begins to run, or is cancelled.
LEMMA ResumeInv == ASSUME LockInv, NEW t \in Tasks, Resume(t) \/ Cancel(t) PROVE LockInv'
<1> USE DEF LockInv
<1>1. /\ stage[t] \in InUse /\ stage'[t] \in InUse
      /\ stage' \in [Tasks -> Stages] /\ \A u \in Tasks \ {t} : stage'[u] = stage[u]
      /\ UNCHANGED <<entry, table, users, ticket, tickets>>
  BY DEF Resume, Cancel, LockTypeOK, Stages, InUse, Queued
<1>2. \A d \in Tasks : Using(d)' = Using(d)
  BY <1>1 DEF Using
<1>3. entry[t] \in Tasks
  BY <1>1 DEF Shared
<1>4. LockTypeOK' /\ Counted'
  <2>1. locked' \in [Tasks -> BOOLEAN]
    BY <1>3 DEF Resume, Cancel, LockTypeOK
  <2>2. LockTypeOK'
    BY <1>1, <2>1 DEF LockTypeOK
  <2>3. \A q \in LockSessions : (table[q])' \in Tasks => Using(table[q])' # {}
    BY <1>1, <1>2 DEF Counted, Using
  <2> QED BY <1>1, <1>2, <2>2, <2>3 DEF Counted
<1>5. Shared'
  BY <1>1, <1>3 DEF Shared, Resume, Cancel, LockTypeOK, InUse, Queued
<1>6. Exclusive'
  <2>1. CASE Resume(t)
    <3>1. /\ stage[t] = "woken" /\ stage'[t] = "running" /\ ~locked[entry[t]]
          /\ locked'[entry[t]] /\ \A d \in Tasks \ {entry[t]} : locked'[d] = locked[d]
      BY <1>3, <2>1 DEF Resume, Exclusive, Woken, LockTypeOK
    <3>2. \A u, w \in Tasks : Woken(u) /\ Woken(w) /\ entry[u] = entry[w] => u = w
      <4>1. \A u \in Tasks : Woken(u) => stage[u] \in Queued
        BY DEF Woken, Queued
      <4>2. \A u \in Tasks : ticket[u] \in Nat
        BY DEF LockTypeOK
      <4> QED BY <4>1, <4>2 DEF Exclusive
    <3>3. \A u \in Tasks \ {t} : Woken(u) => entry[u] # entry[t]
      BY <3>1, <3>2 DEF Woken
    <3>4. \A u \in Tasks : stage[u] = "running" => entry[u] # entry[t]
      BY <3>1 DEF Exclusive
    <3>5. \A u \in Tasks : /\ Woken(u)' => u # t /\ Woken(u)
                           /\ stage'[u] \in Queued => u # t /\ stage[u] \in Queued
      BY <1>1, <3>1 DEF Woken, Queued
    <3>6. \A u \in Tasks : Woken(u)' => ~locked'[entry'[u]]
      BY <1>1, <1>3, <3>1, <3>3, <3>5 DEF Exclusive, LockTypeOK, Woken, Shared, InUse, Queued
    <3>7. \A d \in Tasks : locked'[d] => \E u \in Tasks : stage'[u] = "running" /\ entry'[u] = d
      BY <1>1, <1>3, <3>1 DEF Exclusive
    <3>8. /\ \A u \in Tasks : stage'[u] = "running" => locked'[entry'[u]]
          /\ \A u, w \in Tasks :
               stage'[u] = "running" /\ stage'[w] = "running" /\ entry'[u] = entry'[w] => u = w
      BY <1>1, <1>3, <3>1, <3>4 DEF Exclusive, Shared, InUse
    <3>9. /\ \A u, w \in Tasks :
               Woken(u)' /\ stage'[w] \in Queued /\ entry'[u] = entry'[w] => ticket'[u] <= ticket'[w]
          /\ \A u \in Tasks : stage'[u] \in Queued => ticket'[u] < tickets'
          /\ \A u, w \in Tasks :
               stage'[u] \in Queued /\ stage'[w] \in Queued /\ ticket'[u] = ticket'[w] => u = w
      BY <1>1, <3>5 DEF Exclusive
    <3> QED BY <3>6, <3>7, <3>8, <3>9 DEF Exclusive
  <2>2. CASE Cancel(t)
    BY <1>1, <1>3, <2>2 DEF Cancel, Exclusive, Woken, Queued, LockTypeOK
  <2> QED BY <2>1, <2>2
<1> QED BY <1>4, <1>5, <1>6

\* A call that leaves entry e, and those it wakes.
Wakes(t, e, u) == stage[u] = "waiting" /\ stage'[u] = "woken" /\ u \in FirstInQueue(t, e) /\ ~locked'[e]
Leaves(t, e) ==
    /\ entry[t] = e /\ stage'[t] = "done"
    /\ \A u \in Tasks \ {t} : stage'[u] = stage[u] \/ Wakes(t, e, u)
    /\ \/ stage[t] = "running" /\ ~locked'[e]
       \/ stage[t] \in Queued /\ locked'[e] = locked[e]
    /\ \A d \in Tasks \ {e} : locked'[d] = locked[d]
    /\ users'[e] = users[e] - 1 /\ \A d \in Tasks \ {e} : users'[d] = users[d]
    /\ table'[SessionOf[t]] = IF users'[e] = 0 /\ ~locked'[e] THEN NoEntry ELSE table[SessionOf[t]]
    /\ \A s \in LockSessions \ {SessionOf[t]} : table'[s] = table[s]
    /\ UNCHANGED <<entry, ticket, tickets>>

\* What Forget does.
LEMMA ForgetFacts ==
    ASSUME LockTypeOK, NEW t \in Tasks, entry[t] \in Tasks, Forget(t)
    PROVE  /\ users'[entry[t]] = users[entry[t]] - 1
           /\ \A d \in Tasks \ {entry[t]} : users'[d] = users[d]
           /\ table'[SessionOf[t]] = IF users'[entry[t]] = 0 /\ ~locked'[entry[t]]
                                     THEN NoEntry ELSE table[SessionOf[t]]
           /\ \A s \in LockSessions \ {SessionOf[t]} : table'[s] = table[s]
           /\ users' \in [Tasks -> Int] /\ table' \in [LockSessions -> Tasks \cup {NoEntry}]
<1>1. /\ SessionOf[t] \in LockSessions /\ NoEntry \in Tasks \cup {NoEntry}
      /\ users' = [users EXCEPT ![entry[t]] = @ - 1] /\ users \in [Tasks -> Nat]
      /\ table' = IF users'[entry[t]] = 0 /\ ~locked'[entry[t]]
                  THEN [table EXCEPT ![SessionOf[t]] = NoEntry] ELSE table
      /\ table \in [LockSessions -> Tasks \cup {NoEntry}]
  BY LockAssumption DEF LockTypeOK, Forget
<1>2. /\ users'[entry[t]] = users[entry[t]] - 1 /\ users' \in [Tasks -> Int]
      /\ \A d \in Tasks \ {entry[t]} : users'[d] = users[d]
  BY <1>1
<1>3. CASE users'[entry[t]] = 0 /\ ~locked'[entry[t]]
  BY <1>1, <1>2, <1>3
<1>4. CASE ~(users'[entry[t]] = 0 /\ ~locked'[entry[t]])
  BY <1>1, <1>2, <1>4
<1> QED BY <1>3, <1>4

\* Finish and Withdraw are such steps.
LEMMA LeaveCases ==
    ASSUME LockTypeOK, Shared, NEW t \in Tasks, Finish(t) \/ Withdraw(t)
    PROVE  /\ \E e \in Tasks : Leaves(t, e)
           /\ stage' \in [Tasks -> Stages] /\ locked' \in [Tasks -> BOOLEAN]
           /\ users' \in [Tasks -> Int] /\ table' \in [LockSessions -> Tasks \cup {NoEntry}]
           /\ UNCHANGED <<entry, ticket, tickets>>
<1>0. Forget(t) /\ UNCHANGED <<entry, ticket, tickets>>
  BY DEF Finish, Withdraw
<1>1. stage[t] \in InUse /\ entry[t] \in Tasks
  BY DEF Finish, Withdraw, InUse, Queued, Shared
<1>2. /\ "done" \in Stages /\ "woken" \in Stages
  BY DEF Stages, InUse, Queued
<1>3. PICK e \in Tasks : e = entry[t]
  BY <1>1
<1>6. /\ users'[e] = users[e] - 1 /\ \A d \in Tasks \ {e} : users'[d] = users[d]
      /\ table'[SessionOf[t]] = IF users'[e] = 0 /\ ~locked'[e] THEN NoEntry ELSE table[SessionOf[t]]
      /\ \A s \in LockSessions \ {SessionOf[t]} : table'[s] = table[s]
      /\ users' \in [Tasks -> Int] /\ table' \in [LockSessions -> Tasks \cup {NoEntry}]
  BY <1>0, <1>1, <1>3, ForgetFacts
<1>4. CASE Finish(t)
  <2>1. stage[t] = "running" /\ locked' = [locked EXCEPT ![e] = FALSE] /\ WakeFirst(t, e)
    BY <1>3, <1>4 DEF Finish
  <2>2. stage' \in [Tasks -> Stages] /\ locked' \in [Tasks -> BOOLEAN]
    BY <1>2, <2>1 DEF WakeFirst, LockTypeOK
  <2>3. ~locked'[e] /\ \A d \in Tasks \ {e} : locked'[d] = locked[d]
    BY <2>1 DEF LockTypeOK
  <2>4. stage'[t] = "done" /\ \A u \in Tasks \ {t} : stage'[u] = stage[u] \/ Wakes(t, e, u)
    BY <2>1, <2>3 DEF WakeFirst, Wakes
  <2>5. Leaves(t, e)
    BY <1>0, <1>3, <1>6, <2>1, <2>3, <2>4 DEF Leaves
  <2> QED BY <1>0, <1>6, <2>2, <2>5
<1>5. CASE Withdraw(t)
  <2>1. /\ stage[t] \in {"cancelled", "stopped"} /\ UNCHANGED locked
        /\ IF locked[e] THEN stage' = [stage EXCEPT ![t] = "done"] ELSE WakeFirst(t, e)
    BY <1>3, <1>5 DEF Withdraw
  <2>2. stage' \in [Tasks -> Stages] /\ locked' \in [Tasks -> BOOLEAN] /\ stage[t] \in Queued
    BY <1>2, <2>1 DEF WakeFirst, LockTypeOK, Queued
  <2>3. stage'[t] = "done" /\ \A u \in Tasks \ {t} : stage'[u] = stage[u] \/ Wakes(t, e, u)
    BY <2>1 DEF WakeFirst, Wakes, LockTypeOK
  <2>4. Leaves(t, e)
    BY <1>0, <1>3, <1>6, <2>1, <2>2, <2>3 DEF Leaves
  <2> QED BY <1>0, <1>6, <2>2, <2>4
<1> QED BY <1>4, <1>5

\* What such a step does to the users of the entries.
LEMMA LeaveUsing ==
    ASSUME LockTypeOK, Shared, Counted, Exclusive, NEW t \in Tasks, NEW e \in Tasks, Leaves(t, e),
           users' \in [Tasks -> Int]
    PROVE  /\ stage[t] \in InUse /\ SessionOf[t] \in LockSessions /\ table[SessionOf[t]] = e
           /\ \A u \in Tasks \ {t} : /\ stage'[u] \in InUse <=> stage[u] \in InUse
                                     /\ stage'[u] \in Queued <=> stage[u] \in Queued
                                     /\ stage'[u] = "running" <=> stage[u] = "running"
                                     /\ stage'[u] = "idle" <=> stage[u] = "idle"
           /\ stage'[t] \notin InUse /\ stage'[t] # "idle"
           /\ Using(e)' = Using(e) \ {t} /\ \A d \in Tasks \ {e} : Using(d)' = Using(d)
           /\ \A d \in Tasks : users'[d] = Cardinality(Using(d))'
           /\ users' \in [Tasks -> Nat]
           /\ table'[SessionOf[t]] = IF Using(e)' = {} THEN NoEntry ELSE table[SessionOf[t]]
<1>1. stage[t] \in InUse /\ stage'[t] \notin InUse /\ stage'[t] # "idle" /\ SessionOf[t] \in LockSessions
  BY LockAssumption DEF Leaves, InUse, Queued
<1>2. table[SessionOf[t]] = e
  BY <1>1 DEF Shared, Leaves
<1>3. \A u \in Tasks \ {t} : /\ stage'[u] \in InUse <=> stage[u] \in InUse
                             /\ stage'[u] \in Queued <=> stage[u] \in Queued
                             /\ stage'[u] = "running" <=> stage[u] = "running"
                             /\ stage'[u] = "idle" <=> stage[u] = "idle"
  BY DEF Leaves, Wakes, InUse, Queued
<1>4. Using(e)' = Using(e) \ {t} /\ (\A d \in Tasks \ {e} : Using(d)' = Using(d)) /\ t \in Using(e)
  BY <1>1, <1>3 DEF Using, Leaves
<1>5. /\ \A d \in Tasks : users'[d] = Cardinality(Using(d))'
      /\ users' \in [Tasks -> Nat] /\ (users'[e] = 0 <=> Using(e)' = {})
  <2>1. users'[e] = users[e] - 1 /\ \A d \in Tasks \ {e} : users'[d] = users[d]
    BY DEF Leaves
  <2> QED BY <1>4, <2>1, UsingLess
<1>6. Using(e)' = {} => ~locked'[e]
  <2>1. CASE stage[t] = "running" /\ ~locked'[e]
    BY <2>1
  <2>2. CASE stage[t] \in Queued /\ locked'[e] = locked[e]
    <3> SUFFICES ASSUME locked[e] PROVE Using(e)' # {}
      BY <2>2
    <3>1. PICK u \in Tasks : stage[u] = "running" /\ entry[u] = e
      BY DEF Exclusive
    <3>2. u # t /\ u \in Using(e)
      BY <2>2, <3>1 DEF Using, Queued, InUse
    <3> QED BY <1>4, <3>2
  <2> QED BY <2>1, <2>2 DEF Leaves
<1>7. table'[SessionOf[t]] = IF Using(e)' = {} THEN NoEntry ELSE table[SessionOf[t]]
  BY <1>5, <1>6 DEF Leaves
<1> QED BY <1>1, <1>2, <1>3, <1>4, <1>5, <1>7

\* A call that leaves preserves the sharing and the counts.
LEMMA LeaveShared ==
    ASSUME LockTypeOK, Shared, Counted, Exclusive, NEW t \in Tasks, NEW e \in Tasks, Leaves(t, e),
           users' \in [Tasks -> Int]
    PROVE  Shared' /\ Counted'
<1>1. entry' = entry /\ \A s \in LockSessions \ {SessionOf[t]} : table'[s] = table[s]
  BY DEF Leaves
<1>2. \A u \in Tasks : stage'[u] \in InUse => entry'[u] \in Tasks /\ table'[SessionOf[u]] = entry'[u]
  <2> SUFFICES ASSUME NEW u \in Tasks, stage'[u] \in InUse
               PROVE  entry[u] \in Tasks /\ table'[SessionOf[u]] = entry[u]
    BY <1>1
  <2>1. u # t /\ stage[u] \in InUse
    BY LeaveUsing
  <2>2. entry[u] \in Tasks /\ table[SessionOf[u]] = entry[u] /\ SessionOf[u] \in LockSessions
    BY <2>1, LockAssumption DEF Shared
  <2>3. CASE SessionOf[u] = SessionOf[t]
    <3>1. entry[u] = e
      BY <2>2, <2>3, LeaveUsing
    <3>2. Using(e)' # {}
      BY <2>1, <3>1, LeaveUsing DEF Using
    <3> QED BY <2>2, <2>3, <3>2, LeaveUsing
  <2>4. CASE SessionOf[u] # SessionOf[t]
    BY <1>1, <2>2, <2>4
  <2> QED BY <2>3, <2>4
<1>3. \A q \in LockSessions : table'[q] = table[q] \/ (q = SessionOf[t] /\ table'[q] = NoEntry /\ Using(e)' = {})
  <2>1. table'[SessionOf[t]] = IF Using(e)' = {} THEN NoEntry ELSE table[SessionOf[t]]
    BY LeaveUsing
  <2>2. table'[SessionOf[t]] = table[SessionOf[t]] \/ (table'[SessionOf[t]] = NoEntry /\ Using(e)' = {})
    BY <2>1
  <2> QED BY <1>1, <2>2
<1>4. \A q \in LockSessions : table'[q] \in Tasks => SessionOf[table'[q]] = q
  BY <1>3, LockAssumption DEF Shared
<1>5. \A d \in Tasks : locked'[d] => locked[d]
  BY DEF Leaves
<1>6. ASSUME NEW d \in Tasks, stage'[d] = "idle"
      PROVE  /\ ~locked'[d]
             /\ \A u \in Tasks : stage'[u] \in InUse => entry'[u] # d
             /\ \A q \in LockSessions : table'[q] # d
  <2>1. stage[d] = "idle"
    BY <1>6, LeaveUsing
  <2> QED BY <1>1, <1>3, <1>5, <2>1, LeaveUsing, LockAssumption DEF Shared
<1>7. Shared'
  BY <1>2, <1>4, <1>6 DEF Shared
<1>8. ASSUME NEW q \in LockSessions, table'[q] \in Tasks
      PROVE  \E d \in Tasks : table'[q] = d /\ Using(d)' # {}
  <2>1. table'[q] = table[q] /\ table[q] \in Tasks /\ Using(table[q]) # {}
    BY <1>3, <1>8, LockAssumption DEF Counted
  <2>2. CASE q = SessionOf[t]
    BY <1>8, <2>1, <2>2, LeaveUsing, LockAssumption
  <2>3. CASE q # SessionOf[t]
    <3>1. SessionOf[table[q]] = q /\ SessionOf[e] = SessionOf[t]
      BY <2>1, LeaveUsing DEF Shared
    <3>2. PICK d \in Tasks : d = table[q]
      BY <2>1
    <3>3. d # e /\ Using(d) # {}
      BY <2>1, <2>3, <3>1, <3>2
    <3>4. Using(d)' = Using(d)
      BY <3>3, LeaveUsing
    <3> QED BY <2>1, <3>2, <3>3, <3>4
  <2> QED BY <2>2, <2>3
<1>9. \A q \in LockSessions : (table[q])' \in Tasks => Using(table[q])' # {}
  BY <1>8 DEF Using
<1> QED BY <1>7, <1>9, LeaveUsing DEF Counted

\* And the exclusion.
LEMMA LeaveExclusive ==
    ASSUME LockTypeOK, Shared, Counted, Exclusive, NEW t \in Tasks, NEW e \in Tasks, Leaves(t, e),
           users' \in [Tasks -> Int]
    PROVE  Exclusive'
<1>1. entry' = entry /\ ticket' = ticket /\ tickets' = tickets /\ entry[t] = e
  BY DEF Leaves
<1>2. \A d \in Tasks : (locked'[d] => locked[d]) /\ (d # e => locked'[d] = locked[d])
  BY DEF Leaves
<1>3. stage'[t] = "done" /\ ~Woken(t)' /\ stage'[t] \notin Queued /\ stage'[t] # "running"
  BY DEF Leaves, Woken, Queued
<1>4. \A u \in Tasks : stage'[u] = "running" => /\ stage[u] = "running" /\ u # t
                                                /\ entry[u] \in Tasks
  BY <1>3, LeaveUsing DEF Shared, InUse
<1>5. \A u \in Tasks : stage'[u] \in Queued => /\ stage[u] \in Queued /\ u # t
                                               /\ entry[u] \in Tasks
  BY <1>3, LeaveUsing DEF Shared, InUse
<1>6. \A u \in Tasks : Woken(u)' => stage[u] \in Queued /\ u # t /\ (Woken(u) \/ Wakes(t, e, u))
  BY <1>3, <1>5 DEF Leaves, Woken, Queued
<1>7. \A u \in Tasks : Wakes(t, e, u) => entry[u] = e /\ ~locked'[e]
                          /\ \A w \in Tasks : w # t /\ stage[w] \in Queued /\ entry[w] = e => ticket[u] <= ticket[w]
  BY DEF Wakes, FirstInQueue, Queue
<1>8. \A u \in Tasks : stage'[u] = "running" => locked'[entry'[u]]
  <2> SUFFICES ASSUME NEW u \in Tasks, stage'[u] = "running" PROVE locked'[entry[u]]
    BY <1>1
  <2>1. locked[entry[u]] /\ stage[u] = "running" /\ u # t /\ entry[u] \in Tasks
    BY <1>4 DEF Exclusive
  <2>2. CASE entry[u] = e
    <3>1. stage[t] # "running"
      BY <1>1, <2>1, <2>2 DEF Exclusive
    <3> QED BY <2>1, <2>2, <3>1 DEF Leaves
  <2> QED BY <1>2, <2>1, <2>2
<1>9. \A u, w \in Tasks :
         stage'[u] = "running" /\ stage'[w] = "running" /\ entry'[u] = entry'[w] => u = w
  BY <1>1, <1>4 DEF Exclusive
<1>10. \A d \in Tasks : locked'[d] => \E u \in Tasks : stage'[u] = "running" /\ entry'[u] = d
  <2> SUFFICES ASSUME NEW d \in Tasks, locked'[d]
               PROVE  \E u \in Tasks : stage'[u] = "running" /\ entry[u] = d
    BY <1>1
  <2>1. PICK u \in Tasks : stage[u] = "running" /\ entry[u] = d
    BY <1>2 DEF Exclusive
  <2>2. u # t
    BY <1>1, <2>1 DEF Leaves, Queued
  <2> QED BY <2>1, <2>2, LeaveUsing
<1>11. \A u \in Tasks : Woken(u)' => ~locked'[entry'[u]]
  <2> SUFFICES ASSUME NEW u \in Tasks, Woken(u)' PROVE ~locked'[entry[u]]
    BY <1>1
  <2>1. entry[u] \in Tasks
    BY <1>6 DEF Shared, InUse
  <2> QED BY <1>2, <1>6, <1>7, <2>1 DEF Exclusive
<1>12. \A u, w \in Tasks :
          Woken(u)' /\ stage'[w] \in Queued /\ entry'[u] = entry'[w] => ticket'[u] <= ticket'[w]
  BY <1>1, <1>5, <1>6, <1>7 DEF Exclusive
<1>13. /\ \A u \in Tasks : stage'[u] \in Queued => ticket'[u] < tickets'
       /\ \A u, w \in Tasks :
            stage'[u] \in Queued /\ stage'[w] \in Queued /\ ticket'[u] = ticket'[w] => u = w
  BY <1>1, <1>5 DEF Exclusive
<1> QED BY <1>8, <1>9, <1>10, <1>11, <1>12, <1>13 DEF Exclusive

\* Finish and Withdraw preserve the invariant.
LEMMA LeaveInv == ASSUME LockInv, NEW t \in Tasks, Finish(t) \/ Withdraw(t) PROVE LockInv'
<1>1. LockTypeOK /\ Shared /\ Counted /\ Exclusive
  BY DEF LockInv
<1>2. PICK e \in Tasks : Leaves(t, e)
  BY <1>1, LeaveCases
<1>3. users' \in [Tasks -> Int]
  BY <1>1, LeaveCases
<1>4. Shared' /\ Counted' /\ Exclusive'
  BY <1>1, <1>2, <1>3, LeaveShared, LeaveExclusive
<1>5. LockTypeOK'
  <2>1. users' \in [Tasks -> Nat]
    BY <1>1, <1>2, <1>3, LeaveUsing
  <2>2. /\ stage' \in [Tasks -> Stages] /\ locked' \in [Tasks -> BOOLEAN]
        /\ table' \in [LockSessions -> Tasks \cup {NoEntry}]
        /\ UNCHANGED <<entry, ticket, tickets>>
    BY <1>1, LeaveCases
  <2> QED BY <1>1, <2>1, <2>2 DEF LockTypeOK
<1> QED BY <1>4, <1>5 DEF LockInv

\* Every behaviour has the invariant.
LEMMA LockInvHolds == LockSpec => []LockInv
<1>1. LockInv /\ [LockNext]_lockVars => LockInv'
  <2> SUFFICES ASSUME LockInv, [LockNext]_lockVars PROVE LockInv'
    OBVIOUS
  <2>1. CASE LockNext
    BY <2>1, EnterInv, ResumeInv, LeaveInv DEF LockNext
  <2>2. CASE UNCHANGED lockVars
    <3>1. \A e : Using(e)' = Using(e)
      BY <2>2 DEF lockVars, Using
    <3>2. LockTypeOK' /\ Shared' /\ Exclusive'
      BY <2>2 DEF LockInv, lockVars, LockTypeOK, Shared, Exclusive, Woken
    <3>3. \A q \in LockSessions : (table[q])' \in Tasks => Using(table[q])' # {}
      BY <2>2 DEF LockInv, Counted, Using, lockVars
    <3>4. \A e \in Tasks : users'[e] = Cardinality(Using(e))'
      BY <2>2, <3>1 DEF LockInv, Counted, lockVars
    <3> QED BY <3>2, <3>3, <3>4 DEF LockInv, Counted
  <2> QED BY <2>1, <2>2
<1> QED BY <1>1, LockInitInv, PTL DEF LockSpec

\* AgentSessionService keeps its types, and a count of users never goes below zero.
THEOREM LockTypeCorrect == LockSpec => []LockTypeOK
<1>1. LockInv => LockTypeOK
  BY DEF LockInv
<1> QED BY <1>1, LockInvHolds, PTL

\* Operations of one session are never in progress together, whoever is cancelled.
THEOREM SessionsExclude == LockSpec => []MutualExclusion
<1>1. LockInv => MutualExclusion
  BY DEF LockInv, Shared, Exclusive, MutualExclusion, InUse
<1> QED BY <1>1, LockInvHolds, PTL

\* The table holds an entry for exactly the sessions in use, the one all their calls share.
THEOREM TableKeepsUsed == LockSpec => []TableIsExact
<1>1. LockInv => TableIsExact
  <2> SUFFICES ASSUME LockInv, NEW s \in LockSessions
               PROVE  LET callers == {t \in Tasks : SessionOf[t] = s /\ stage[t] \in InUse}
                      IN /\ (table[s] = NoEntry) = (callers = {})
                         /\ \A t \in callers : entry[t] = table[s]
    BY DEF TableIsExact
  <2> DEFINE callers == {t \in Tasks : SessionOf[t] = s /\ stage[t] \in InUse}
  <2>1. \A t \in callers : entry[t] = table[s] /\ table[s] \in Tasks
    BY DEF LockInv, Shared
  <2>2. ASSUME table[s] # NoEntry PROVE callers # {}
    <3>1. PICK e \in Tasks : e = table[s]
      BY <2>2 DEF LockInv, LockTypeOK
    <3>2. PICK t \in Tasks : stage[t] \in InUse /\ entry[t] = e
      BY <3>1 DEF LockInv, Counted, Using
    <3>3. SessionOf[e] = s /\ table[SessionOf[t]] = e /\ SessionOf[t] \in LockSessions
      BY <3>1, <3>2, LockAssumption DEF LockInv, Shared
    <3>4. SessionOf[t] = s
      BY <3>3 DEF LockInv, Shared
    <3> QED BY <3>2, <3>4
  <2> QED BY <2>1, <2>2, LockAssumption
<1> QED BY <1>1, LockInvHolds, PTL
=============================================================================
