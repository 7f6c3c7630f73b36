----------------------- MODULE NotificationCooldown -----------------------
(***************************************************************************)
(* send_with_dedupe: processes that notify of the same thing share a row   *)
(* of notification_state.  Each reads the clock and then the time of the   *)
(* last notification, sends, reads the clock again and writes that time to *)
(* the row when it gets the write lock of the database; nothing holds the  *)
(* row in between.                                                         *)
(***************************************************************************)
EXTENDS Integers

CONSTANTS
    Senders,    \* processes with the same dedupe_key
    Cooldown,   \* cooldown_seconds
    MaxTime     \* bound on the clock

ASSUME CooldownAssumption == Cooldown \in Nat \ {0} /\ MaxTime \in Nat

VARIABLES
    now,            \* the clock
    lastSent,       \* last_sent_at, before any time if there is no row
    phase,          \* phase[p]: where p is in send_with_dedupe
    stamp,          \* stamp[p]: `current` of should_send, later of record_sent
    sentAt,         \* sentAt[p]: when Lark got the notification
    earlier,        \* history: earlier[p] had recorded theirs when p looked
    beside          \* history: beside[p] had read the clock to record when p's record was committed

cooldownVars == <<now, lastSent, phase, stamp, sentAt, earlier, beside>>

Never == -Cooldown
Times == 0..MaxTime
SendPhases == {"idle", "looking", "checked", "suppressed", "sent", "failed",
           "recording", "recorded", "unrecorded"}

CooldownTypeOK ==
    /\ now \in Times /\ lastSent \in Times \cup {Never}
    /\ phase \in [Senders -> SendPhases]
    /\ stamp \in [Senders -> Times] /\ sentAt \in [Senders -> Times]
    /\ earlier \in [Senders -> SUBSET Senders] /\ beside \in [Senders -> SUBSET Senders]

CooldownInit ==
    /\ now = 0 /\ lastSent = Never
    /\ phase = [p \in Senders |-> "idle"]
    /\ stamp = [p \in Senders |-> 0] /\ sentAt = [p \in Senders |-> 0]
    /\ earlier = [p \in Senders |-> {}] /\ beside = [p \in Senders |-> {}]

Tick ==
    /\ now < MaxTime /\ now' = now + 1
    /\ UNCHANGED <<lastSent, phase, stamp, sentAt, earlier, beside>>

Move(p, from, to) == phase[p] = from /\ phase' = [phase EXCEPT ![p] = to]
Those(f) == {q \in Senders : phase[q] = f}

\* should_send reads the clock
Look(p) ==
    /\ Move(p, "idle", "looking")
    /\ stamp' = [stamp EXCEPT ![p] = now]
    /\ UNCHANGED <<now, lastSent, sentAt, earlier, beside>>

\* and then the row.
Check(p) ==
    /\ Move(p, "looking", IF stamp[p] - lastSent >= Cooldown THEN "checked" ELSE "suppressed")
    /\ earlier' = [earlier EXCEPT ![p] = Those("recorded")]
    /\ UNCHANGED <<now, lastSent, stamp, sentAt, beside>>

\* client.send returns
Notify(p) ==
    /\ Move(p, "checked", "sent")
    /\ sentAt' = [sentAt EXCEPT ![p] = now]
    /\ UNCHANGED <<now, lastSent, stamp, earlier, beside>>

\* or raises: nothing is recorded.
NotifyFails(p) ==
    /\ Move(p, "checked", "failed")
    /\ UNCHANGED <<now, lastSent, stamp, sentAt, earlier, beside>>

\* record_sent reads the clock, before it waits for the database,
Stamp(p) ==
    /\ Move(p, "sent", "recording")
    /\ stamp' = [stamp EXCEPT ![p] = now]
    /\ UNCHANGED <<now, lastSent, sentAt, earlier, beside>>

\* Mutant of Record: a row that is there is left as it is.
RecordFirst(p) ==
    /\ Move(p, "recording", "recorded")
    /\ lastSent' = IF lastSent = Never THEN stamp[p] ELSE lastSent
    /\ beside' = [beside EXCEPT ![p] = Those("recording") \ {p}]
    /\ UNCHANGED <<now, stamp, sentAt, earlier>>

\* and overwrites the row with what it read, be the row's time later or not.
Record(p) ==
    /\ Move(p, "recording", "recorded")
    /\ lastSent' = stamp[p]
    /\ beside' = [beside EXCEPT ![p] = Those("recording") \ {p}]
    /\ UNCHANGED <<now, stamp, sentAt, earlier>>

\* The database stays locked: what was sent is not recorded.
RecordFails(p) ==
    /\ Move(p, "recording", "unrecorded")
    /\ UNCHANGED <<now, lastSent, stamp, sentAt, earlier, beside>>

Send(p) ==
    \/ Look(p) \/ Check(p) \/ Notify(p) \/ NotifyFails(p)
    \/ Stamp(p) \/ Record(p) \/ RecordFails(p)
CooldownNext == Tick \/ \E p \in Senders : Send(p)

CooldownSpec == CooldownInit /\ [][CooldownNext]_cooldownVars

-----------------------------------------------------------------------------

Notified(p) == phase[p] \in {"sent", "recording", "recorded", "unrecorded"}

\* p saw a row that x had moved back: x read the clock before q did, and wrote after q.
MovedBack(p, q) == \E x \in beside[q] \cap earlier[p] : stamp[x] < stamp[q]

\* What "Suppress duplicate notifications within a configurable cooldown using SQLite"
\* (README.md) comes to: a notification follows a recorded one within the cooldown only if
\* its sender had looked before the other was recorded, or if a third one, whose record_sent
\* ran together with that of the other, committed an older time after it.
RepeatsAreConcurrent ==
    \A p, q \in Senders :
        Notified(p) /\ q \in earlier[p] => sentAt[p] - sentAt[q] >= Cooldown \/ MovedBack(p, q)

\* What it says: a sender that looks when another's notification is recorded does not
\* repeat it within the cooldown (should_send, record_sent).
RecordedSuppresses ==
    \A p, q \in Senders :
        Notified(p) /\ q \in earlier[p] => sentAt[p] - sentAt[q] >= Cooldown
=============================================================================
