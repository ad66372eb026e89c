--------------------------- MODULE ForceModeProofs ---------------------------
(* Machine-checked facts about ForceMode, for every value of its constants. *)
EXTENDS ForceMode, SequenceTheorems, TLAPS

\* Removing a position keeps the element type.
LEMMA RemoveAtType ==
    ASSUME NEW S, NEW s \in Seq(S), NEW i \in DOMAIN s
    PROVE  RemoveAt(s, i) \in Seq(S)
<1>1. i \in 1..Len(s)
    BY LenProperties
<1>2. SubSeq(s, 1, i - 1) \in Seq(S)
    BY <1>1, SubSeqProperties
<1>3. SubSeq(s, i + 1, Len(s)) \in Seq(S)
    BY <1>1, SubSeqProperties
<1>4. QED
    BY <1>2, <1>3, ConcatProperties DEF RemoveAt

\* What a handler issues is well typed.
LEMMA IssueForceType ==
    ASSUME TypeOK, NEW m \in ForceModes, NEW next \in {"none", "replay"}, IssueForce(m, next)
    PROVE  /\ active' \in [Modes -> BOOLEAN]
           /\ timed' \in [Modes -> BOOLEAN]
           /\ armed' \in [Modes -> Timer]
           /\ gen' \in Nat
           /\ writes' \in Seq(Write)
           /\ want' \in Modes \cup {"normal", "unknown"}
<1>1. active' \in [Modes -> BOOLEAN] /\ timed' \in [Modes -> BOOLEAN]
    BY DEF TypeOK, IssueForce, Modes, ForceModes
<1>2. armed' \in [Modes -> Timer] /\ gen' \in Nat
    BY DEF TypeOK, IssueForce, NoTimers, Timer
<1>3. [op |-> "force", mode |-> m, gen |-> gen + 1, next |-> next, retry |-> 0] \in Write
    BY DEF TypeOK, Write
<1>4. writes' \in Seq(Write)
    BY <1>3, AppendProperties DEF TypeOK, IssueForce
<1>5. QED
    BY <1>1, <1>2, <1>4 DEF IssueForce, Modes

LEMMA IssueRestoreType ==
    ASSUME TypeOK, NEW source, NEW next \in {"none", "self", "cleanup"}, NEW m \in Modes \cup {"none"},
           NEW r \in 0..MaxRetries, IssueRestore(source, next, m, r)
    PROVE  /\ active' \in [Modes -> BOOLEAN]
           /\ timed' \in [Modes -> BOOLEAN]
           /\ armed' \in [Modes -> Timer]
           /\ gen' \in Nat
           /\ writes' \in Seq(Write)
<1>1. active' \in [Modes -> BOOLEAN] /\ timed' \in [Modes -> BOOLEAN]
    BY DEF IssueRestore
<1>2. armed' \in [Modes -> Timer] /\ gen' \in Nat
    BY DEF TypeOK, IssueRestore, NoTimers, Timer
<1>3. [op |-> "restore", mode |-> m, gen |-> gen + 1, next |-> next, retry |-> r] \in Write
    BY DEF TypeOK, Write, MaxRetries
<1>4. writes' \in Seq(Write)
    BY <1>3, AppendProperties DEF TypeOK, IssueRestore
<1>5. QED
    BY <1>1, <1>2, <1>4

LEMMA EngageType ==
    ASSUME TypeOK, NEW before \in Seq(Save), Engage(before)
    PROVE  /\ active' \in [Modes -> BOOLEAN]
           /\ timed' \in [Modes -> BOOLEAN]
           /\ armed' \in [Modes -> Timer]
           /\ gen' \in Nat
           /\ saves' \in Seq(Save)
           /\ want' \in Modes \cup {"normal", "unknown"}
<1>1. active' \in [Modes -> BOOLEAN] /\ timed' \in [Modes -> BOOLEAN]
    BY DEF TypeOK, Engage
<1>2. armed' \in [Modes -> Timer] /\ gen' \in Nat
    <2>1. Fresh(gen + 1) \in Timer /\ NoTimer \in Timer
        BY DEF TypeOK, Fresh, Timer, MaxRetries
    <2>2. NoTimers \in [Modes -> Timer]
        BY <2>1 DEF NoTimers
    <2>3. [NoTimers EXCEPT !["self"] = Fresh(gen + 1)] \in [Modes -> Timer]
        BY <2>1, <2>2
    <2>4. QED
        BY <2>3 DEF TypeOK, Engage
<1>3. Saving("selfwrite", "none", 0) \in Save
    BY DEF Saving, Save, MaxRetries
<1>4. saves' \in Seq(Save)
    BY <1>3, AppendProperties DEF Engage
<1>5. QED
    BY <1>1, <1>2, <1>4 DEF Engage, Modes

LEMMA AfterReturnType ==
    ASSUME TypeOK, NEW next, NEW m, NEW r, NEW before \in Seq(Save),
           AfterReturn(next, m, r, before)
    PROVE  /\ active' \in [Modes -> BOOLEAN]
           /\ timed' \in [Modes -> BOOLEAN]
           /\ armed' \in [Modes -> Timer]
           /\ gen' \in Nat
           /\ saves' \in Seq(Save)
           /\ want' \in Modes \cup {"normal", "unknown"}
<1>1. CASE next = "self"
    BY <1>1, EngageType DEF AfterReturn
<1>2. CASE next # "self"
    <2>1. Saving("clear", "none", 0) \in Save
        BY DEF Saving, Save, MaxRetries
    <2>2. saves' \in Seq(Save)
        BY <1>2, <2>1, AppendProperties DEF AfterReturn
    <2>3. QED
        BY <1>2, <2>2 DEF AfterReturn, TypeOK
<1>3. QED
    BY <1>1, <1>2

LEMMA RearmAfterReplayType ==
    ASSUME TypeOK, NEW m \in Modes, RearmAfterReplay(m)
    PROVE  armed' \in [Modes -> Timer] /\ loose' \subseteq Due
<1>1. armed' \in [Modes -> Timer]
    BY DEF RearmAfterReplay, TypeOK, Timer, MaxRetries
<1>2. QED
    BY <1>1 DEF RearmAfterReplay, TypeOK, Timer, Due, Callback

\* Every step keeps the types.
LEMMA TypeStep == TypeOK /\ [Next]_vars => TypeOK'
<1> SUFFICES ASSUME TypeOK, [Next]_vars PROVE TypeOK'
    OBVIOUS
<1> USE DEF TypeOK
<1>1. ASSUME NEW m \in ForceModes, ForceCommand(m) PROVE TypeOK'
    BY <1>1, IssueForceType DEF ForceCommand
<1>2. CASE RestoreCommand
    <2>1. "none" \in Modes \cup {"none"} /\ 0 \in 0..MaxRetries
        BY DEF MaxRetries
    <2>2. QED
        BY <1>2, <2>1, IssueRestoreType DEF RestoreCommand
<1>3. CASE HoldCommand
    <2>1. armed' \in [Modes -> Timer]
        BY <1>3 DEF HoldCommand, Timer
    <2>2. [op |-> "hold", mode |-> "hold", gen |-> gen, next |-> "none", retry |-> 0] \in Write
        BY DEF Write, Modes, MaxRetries
    <2>3. writes' \in Seq(Write)
        BY <1>3, <2>2, AppendProperties DEF HoldCommand
    <2>4. QED
        BY <1>3, <2>1, <2>3 DEF HoldCommand
<1>4. CASE SelfCommand
    <2>1. CASE \E m \in Modes \ {"self"} : active[m]
        <3>1. IssueRestore("user", "self", "none", 0) /\ 0 \in 0..MaxRetries
            BY <1>4, <2>1 DEF SelfCommand, MaxRetries
        <3>2. QED
            BY <1>4, <2>1, <3>1, IssueRestoreType DEF SelfCommand, Modes
    <2>2. CASE ~ \E m \in Modes \ {"self"} : active[m]
        BY <1>4, <2>2, EngageType DEF SelfCommand
    <2>3. QED
        BY <2>1, <2>2
<1>5. ASSUME NEW i \in DOMAIN writes,
             \/ ForceWritten(i) \/ ForceNotWritten(i) \/ HoldWritten(i) \/ HoldNotWritten(i)
             \/ SelfWriteCompletes(i) \/ RestoreConfirmed(i) \/ RestoreSuperseded(i)
             \/ RestoreSwallowed(i) \/ RestoreRefused(i)
      PROVE TypeOK'
    <2> DEFINE w == writes[i]
    <2>1. w \in Write
        BY LenProperties
    <2>2. RemoveAt(writes, i) \in Seq(Write)
        BY RemoveAtType
    <2>3. CASE ForceWritten(i)
        <3>1. w.mode \in ForceModes /\ w.gen \in Nat /\ w.next \in {"none", "replay"}
            BY <2>1, <2>3 DEF ForceWritten, Write
        <3>2. Fresh(w.gen) \in Timer
            BY <3>1 DEF Fresh, Timer, MaxRetries
        <3>3. Saving(w.next, w.mode, 0) \in Save
            BY <3>1 DEF Saving, Save, Modes, MaxRetries
        <3>4. saves' \in Seq(Save)
            BY <2>3, <3>3, AppendProperties DEF ForceWritten
        <3>5. QED
            BY <2>2, <2>3, <3>1, <3>2, <3>4 DEF ForceWritten, Modes
    <2>4. CASE ForceNotWritten(i)
        <3>1. w.mode \in ForceModes
            BY <2>1, <2>4 DEF ForceNotWritten, Write
        <3>2. armed' \in [Modes -> Timer] /\ loose' \subseteq Due
            BY <2>4, <3>1, RearmAfterReplayType DEF ForceNotWritten, Modes
        <3>3. QED
            BY <2>2, <2>4, <3>1, <3>2 DEF ForceNotWritten, Modes
    <2>5. CASE HoldWritten(i)
        <3>1. Fresh(gen) \in Timer
            BY DEF Fresh, Timer, MaxRetries
        <3>2. Saving("none", "hold", 0) \in Save
            BY DEF Saving, Save, Modes, MaxRetries
        <3>3. saves' \in Seq(Save)
            BY <2>5, <3>2, AppendProperties DEF HoldWritten
        <3>4. QED
            BY <2>2, <2>5, <3>1, <3>3 DEF HoldWritten
    <2>6. CASE HoldNotWritten(i)
        BY <2>2, <2>6 DEF HoldNotWritten
    <2>7. CASE SelfWriteCompletes(i)
        BY <2>2, <2>7 DEF SelfWriteCompletes
    <2>8. CASE RestoreConfirmed(i)
        <3>1. Saving(w.next, w.mode, w.retry) \in Save
            BY <2>1, <2>8 DEF RestoreConfirmed, Write, Saving, Save
        <3>2. saves' \in Seq(Save)
            BY <2>8, <3>1, AppendProperties DEF RestoreConfirmed
        <3>3. QED
            BY <2>2, <2>8, <3>2 DEF RestoreConfirmed
    <2>9. CASE RestoreSuperseded(i)
        BY <2>2, <2>9, AfterReturnType DEF RestoreSuperseded
    <2>10. CASE RestoreSwallowed(i)
        BY <2>2, <2>10, AfterReturnType DEF RestoreSwallowed
    <2>11. CASE RestoreRefused(i)
        <3>1. w.retry \in 0..MaxRetries
            BY <2>1 DEF Write, MaxRetries
        <3>2. armed' \in [Modes -> Timer]
            <4>1. CASE UNCHANGED armed
                BY <4>1
            <4>2. CASE ~UNCHANGED armed
                <5>1. PICK m \in ForceModes :
                         /\ armed' = [armed EXCEPT ![m] = [gen |-> gen, restored |-> TRUE,
                                                          retry |-> w.retry + 1]]
                         /\ w.retry < MaxRetries
                    BY <2>11, <4>2 DEF RestoreRefused, ScheduleRetry
                <5>2. [gen |-> gen, restored |-> TRUE, retry |-> w.retry + 1] \in Timer
                    BY <3>1, <5>1 DEF Timer, MaxRetries
                <5>3. QED
                    BY <5>1, <5>2
            <4>3. QED
                BY <4>1, <4>2
        <3>3. Saving("clear", "none", 0) \in Save
            BY DEF Saving, Save, MaxRetries
        <3>4. saves' \in Seq(Save)
            BY <2>11, <3>3, AppendProperties DEF RestoreRefused
        <3>5. QED
            BY <2>2, <2>11, <3>2, <3>4 DEF RestoreRefused
    <2>12. QED
        BY <1>5, <2>3, <2>4, <2>5, <2>6, <2>7, <2>8, <2>9, <2>10, <2>11
<1>6. CASE SaveCompletes
    <2> DEFINE s == Head(saves)
    <2>1. s \in Save /\ Tail(saves) \in Seq(Save)
        BY <1>6, HeadTailProperties DEF SaveCompletes
    <2>2. disk' \in Session
        BY <1>6 DEF SaveCompletes, Snapshot, NoSession, Session, Modes, ForceModes
    <2>3. CASE s.then = "selfwrite"
        <3>1. [op |-> "self", mode |-> "self", gen |-> gen, next |-> "none", retry |-> 0] \in Write
            BY DEF Write, Modes, MaxRetries
        <3>2. /\ writes' = Append(writes, [op |-> "self", mode |-> "self", gen |-> gen,
                                            next |-> "none", retry |-> 0])
              /\ saves' = Tail(saves)
              /\ UNCHANGED <<active, timed, armed, loose, gen, want, hw, up>>
            BY <1>6, <2>3 DEF SaveCompletes
        <3>3. QED
            BY <2>1, <2>2, <3>1, <3>2, AppendProperties
    <2>4. CASE s.then = "replay"
        <3>1. s.mode \in Modes
            BY <2>1, <2>4 DEF Save, Modes
        <3>2. RearmAfterReplay(s.mode)
            BY <1>6, <2>4 DEF SaveCompletes
        <3>3. QED
            BY <1>6, <2>1, <2>2, <2>4, <3>1, <3>2, RearmAfterReplayType DEF SaveCompletes
    <2>5. CASE s.then # "selfwrite" /\ s.then # "replay"
        <3>1. AfterReturn(s.then, s.mode, s.retry, Tail(saves)) /\ UNCHANGED <<loose, writes, hw, up>>
            BY <1>6, <2>5 DEF SaveCompletes
        <3>2. QED
            BY <2>1, <2>2, <3>1, AfterReturnType
    <2>6. QED
        BY <2>3, <2>4, <2>5
<1>7. ASSUME NEW m \in Modes, BecomesDue(m) PROVE TypeOK'
    BY <1>7 DEF BecomesDue, Callback, Timer, Due
<1>8. ASSUME NEW t \in loose, ExpiryRestores(t) PROVE TypeOK'
    <2>1. t.retry \in 0..MaxRetries /\ t.mode \in Modes /\ 0 \in 0..MaxRetries
        BY DEF Due, MaxRetries
    <2>2. /\ loose' \subseteq Due
          /\ want' \in Modes \cup {"normal", "unknown"}
          /\ UNCHANGED <<saves, disk, hw, up>>
        BY <1>8 DEF ExpiryRestores
    <2>3. CASE IssueRestore(ExpirySource(t.mode), "none", "none", 0)
        BY <2>1, <2>2, <2>3, IssueRestoreType
    <2>4. CASE IssueRestore("force_timer", "cleanup", t.mode, t.retry)
        BY <2>1, <2>2, <2>4, IssueRestoreType
    <2>5. QED
        BY <1>8, <2>3, <2>4 DEF ExpiryRestores
<1>9. ASSUME NEW t \in loose, ExpirySkipped(t) PROVE TypeOK'
    <2>1. Saving("none", "hold", 0) \in Save
        BY DEF Saving, Save, Modes, MaxRetries
    <2>2. saves' \in Seq(Save)
        BY <1>9, <2>1, AppendProperties DEF ExpirySkipped
    <2>3. armed' \in [Modes -> Timer]
        BY <1>9 DEF ExpirySkipped, Timer
    <2>4. active' \in [Modes -> BOOLEAN] /\ timed' \in [Modes -> BOOLEAN]
        BY <1>9 DEF ExpirySkipped
    <2>5. QED
        BY <1>9, <2>2, <2>3, <2>4 DEF ExpirySkipped
<1>10. CASE Restart
    <2>1. \A i \in DOMAIN writes : Applied(writes[i]) \in ForceModes \cup {"normal", "backup"}
        <3>1. \A i \in DOMAIN writes : writes[i] \in Write
            BY LenProperties
        <3>2. QED
            BY <3>1 DEF Applied, Write
    <2>2. writes' \in Seq(Write) /\ saves' \in Seq(Save)
        BY <1>10, EmptySeq DEF Restart
    <2>3. QED
        BY <1>10, <2>1, <2>2 DEF Restart, NoTimers, Timer
<1>11. CASE NothingToResume
    BY <1>11 DEF NothingToResume, memory
<1>12. CASE ResumeTimer
    BY <1>12 DEF ResumeTimer, Populated, Timer, MaxRetries, Modes
<1>13. CASE ResumeForce
    <2>1. [op |-> "force", mode |-> disk.mode, gen |-> gen + 1,
           next |-> "replay", retry |-> 0] \in Write
        BY <1>13 DEF ResumeForce, Write
    <2>2. writes' \in Seq(Write)
        BY <1>13, <2>1 DEF ResumeForce
    <2>3. QED
        BY <1>13, <2>2 DEF ResumeForce, Populated, NoTimers, Timer, Modes
<1>14. CASE ResumeExpired
    <2>1. [op |-> "restore", mode |-> disk.mode, gen |-> gen + 1,
           next |-> "cleanup", retry |-> 0] \in Write
        BY DEF Write, Session, MaxRetries
    <2>2. writes' \in Seq(Write)
        BY <1>14, <2>1 DEF ResumeExpired
    <2>3. active' \in [Modes -> BOOLEAN] /\ timed' \in [Modes -> BOOLEAN]
        BY <1>14 DEF ResumeExpired, Populated
    <2>4. armed' \in [Modes -> Timer] /\ gen' \in Nat
        BY <1>14 DEF ResumeExpired, NoTimers, Timer
    <2>5. QED
        BY <1>14, <2>2, <2>3, <2>4 DEF ResumeExpired
<1>15. CASE UNCHANGED vars
    BY <1>15 DEF vars, memory
<1>16. QED
    BY <1>1, <1>2, <1>3, <1>4, <1>5, <1>6, <1>7, <1>8, <1>9, <1>10, <1>11, <1>12,
       <1>13, <1>14, <1>15
       DEF Next, Command, WriteCompletes, CallbackRuns, Resume

\* The state of the handlers always has its declared shape; in particular the
\* start-up cleanup of _schedule_persisted_force_cleanup_retry never counts
\* past its three attempts.
THEOREM TypeCorrect == Spec => []TypeOK
<1>1. Init => TypeOK
    <2>1. <<>> \in Seq(Write) /\ <<>> \in Seq(Save)
        BY EmptySeq
    <2>2. NoTimers \in [Modes -> Timer] /\ NoSession \in Session
        BY DEF NoTimers, Timer, NoSession, Session
    <2> SUFFICES ASSUME Init PROVE TypeOK
        OBVIOUS
    <2>3. active \in [Modes -> BOOLEAN] /\ timed \in [Modes -> BOOLEAN]
        BY DEF Init
    <2>4. loose \subseteq Due /\ gen \in Nat /\ up \in BOOLEAN
        BY DEF Init
    <2>5. QED
        BY <2>1, <2>2, <2>3, <2>4 DEF Init, TypeOK
<1>2. QED
    BY <1>1, TypeStep, PTL DEF Spec

-----------------------------------------------------------------------------
(* Queues of writes whose generations are in order. *)

LEMMA RemoveAtOne ==
    ASSUME NEW S, NEW q \in Seq(S), q # <<>>
    PROVE  RemoveAt(q, 1) = Tail(q)
<1>1. SubSeq(q, 1, 0) = <<>>
    BY SubSeqEmpty
<1>2. SubSeq(q, 2, Len(q)) = Tail(q)
    BY TailIsSubSeq
<1>3. Tail(q) \in Seq(S)
    BY HeadTailProperties
<1>4. RemoveAt(q, 1) = SubSeq(q, 1, 0) \o SubSeq(q, 2, Len(q))
    BY DEF RemoveAt
<1>5. RemoveAt(q, 1) = <<>> \o Tail(q)
    BY <1>1, <1>2, <1>4
<1>6. <<>> \o Tail(q) = Tail(q)
    BY <1>3, ConcatEmptySeq
<1>7. QED
    BY <1>5, <1>6

\* What is behind the first element of a queue keeps its order, and holds no
\* command if the first one is the newest.
LEMMA OrderedTail ==
    ASSUME NEW q \in Seq(Write), q # <<>>, NEW g \in Nat, Ordered(q, g)
    PROVE  /\ Ordered(Tail(q), g)
           /\ \A k \in DOMAIN Tail(q) : \E j \in DOMAIN q : j # 1 /\ Tail(q)[k] = q[j]
           /\ \A j \in DOMAIN q : j # 1 => \E k \in DOMAIN Tail(q) : Tail(q)[k] = q[j]
           /\ Bump(q[1]) /\ q[1].gen = g => \A k \in DOMAIN Tail(q) : ~Bump(Tail(q)[k])
<1>1. /\ Len(q) \in Nat \ {0} /\ DOMAIN q = 1..Len(q) /\ DOMAIN Tail(q) = 1..(Len(q) - 1)
      /\ \A k \in 1..(Len(q) - 1) : Tail(q)[k] = q[k + 1]
    BY HeadTailProperties, LenProperties, EmptySeq
<1>2. \A k \in DOMAIN q : q[k] \in Write /\ q[k].gen \in Nat
    BY LenProperties DEF Write
<1>3. \A k \in DOMAIN Tail(q) : k + 1 \in DOMAIN q /\ k + 1 # 1 /\ Tail(q)[k] = q[k + 1]
    BY <1>1
<1>4. Ordered(Tail(q), g)
    <2>1. ASSUME NEW k \in DOMAIN Tail(q), Bump(Tail(q)[k]) PROVE Tail(q)[k].gen <= g
        BY <1>3, <2>1 DEF Ordered
    <2>2. ASSUME NEW i \in DOMAIN Tail(q), NEW j \in DOMAIN Tail(q), i < j,
                 Bump(Tail(q)[i]), Bump(Tail(q)[j])
          PROVE  Tail(q)[i].gen < Tail(q)[j].gen
        <3>1. i + 1 < j + 1
            BY <1>1, <2>2
        <3>2. QED
            BY <1>3, <2>2, <3>1 DEF Ordered
    <2>3. QED
        BY <2>1, <2>2 DEF Ordered
<1>5. \A j \in DOMAIN q : j # 1 => j - 1 \in DOMAIN Tail(q) /\ Tail(q)[j - 1] = q[j]
    BY <1>1
<1>6. ASSUME Bump(q[1]), q[1].gen = g, NEW k \in DOMAIN Tail(q) PROVE ~Bump(Tail(q)[k])
    BY <1>1, <1>2, <1>6 DEF Ordered
<1>7. QED
    BY <1>3, <1>4, <1>5, <1>6

\* A command with the next generation, or a write without one, keeps it too.
LEMMA OrderedAppend ==
    ASSUME NEW q \in Seq(Write), NEW g \in Nat, Ordered(q, g), NEW w \in Write
    PROVE  /\ w.gen = g + 1 => Ordered(Append(q, w), g + 1)
           /\ ~Bump(w) => Ordered(Append(q, w), g)
           /\ \A k \in DOMAIN Append(q, w) : Append(q, w)[k] = w \/ \E j \in DOMAIN q : Append(q, w)[k] = q[j]
           /\ \A j \in DOMAIN q : j \in DOMAIN Append(q, w) /\ Append(q, w)[j] = q[j]
           /\ \E k \in DOMAIN Append(q, w) : Append(q, w)[k] = w
<1>1. /\ Len(q) \in Nat /\ DOMAIN q = 1..Len(q) /\ DOMAIN Append(q, w) = 1..(Len(q) + 1)
      /\ \A k \in 1..Len(q) : Append(q, w)[k] = q[k]
      /\ Append(q, w)[Len(q) + 1] = w
    BY AppendProperties, LenProperties
<1>2. \A k \in DOMAIN q : q[k] \in Write /\ q[k].gen \in Nat
    BY LenProperties DEF Write
<1>3. w.gen = g + 1 => Ordered(Append(q, w), g + 1)
    BY <1>1, <1>2 DEF Ordered
<1>4. ~Bump(w) => Ordered(Append(q, w), g)
    BY <1>1, <1>2 DEF Ordered
<1>5. QED
    BY <1>1, <1>3, <1>4

LEMMA OrderedLater ==
    ASSUME NEW q \in Seq(Write), NEW g \in Nat, Ordered(q, g)
    PROVE  Ordered(q, g + 1)
<1>1. \A k \in DOMAIN q : q[k].gen \in Nat
    BY LenProperties DEF Write
<1>2. QED
    BY <1>1 DEF Ordered

-----------------------------------------------------------------------------
(* The steps that take a generation. *)

\* A handler that takes a generation and queues its write becomes the newest.
LEMMA NewCommand ==
    ASSUME TypeOK, GenerationsInOrder, up, up', NoHold, NEW w \in Write, Bump(w), w.gen = gen + 1,
           armed' = NoTimers, gen' = gen + 1, writes' = Append(writes, w), loose' \subseteq loose,
           ~active'["hold"], disk' = disk
    PROVE  TimedInvariant'
<1>1. Ordered(writes', gen')
    BY OrderedAppend DEF TypeOK, GenerationsInOrder
<1>2. \A t \in loose : t.gen \in Nat /\ t.gen <= gen /\ t.gen # gen + 1
    BY DEF TypeOK, GenerationsInOrder, Due
<1>3. \A m \in Modes : armed'[m] = NoTimer
    BY DEF NoTimers
<1>4. GenerationsInOrder'
    <2>1. NoTimer.gen <= gen + 1
        BY DEF NoTimer, TypeOK
    <2>2. \A t \in loose' : t.gen <= gen + 1
        BY <1>2 DEF TypeOK
    <2>3. QED
        BY <1>1, <1>3, <2>1, <2>2 DEF GenerationsInOrder
<1>5. \A m \in Modes : ~Watched(m)'
    BY <1>2, <1>3 DEF Watched, Ends
<1>6. NewestArmsLast'
    BY <1>5 DEF NewestArmsLast, Modes
<1>7. NewestWrites'
    BY OrderedAppend DEF NewestWrites, TypeOK, GenerationsInOrder
<1>8. NoHold'
    <2>1. \A i \in DOMAIN writes' : writes'[i].op # "hold"
        BY OrderedAppend DEF TypeOK, GenerationsInOrder, NoHold, Bump
    <2>2. armed'["hold"] = NoTimer
        BY <1>3 DEF Modes
    <2>3. QED
        BY <2>1, <2>2 DEF NoHold
<1>9. QED
    BY <1>4, <1>6, <1>7, <1>8 DEF TimedInvariant, ForceIsWatched, DownIsEmpty

\* Self consumption takes a generation and arms its timer at once.
LEMMA EngageWatches ==
    ASSUME TypeOK, GenerationsInOrder, up, up', NoHold, NEW before, Engage(before),
           writes' \in Seq(Write), Ordered(writes', gen),
           \A i \in DOMAIN writes' : writes'[i].op # "hold",
           UNCHANGED loose, disk'.mode # "hold"
    PROVE  TimedInvariant'
<1>1. Ordered(writes', gen')
    BY OrderedLater DEF TypeOK, Engage
<1>2. \A t \in loose : t.gen \in Nat /\ t.gen <= gen /\ t.gen # gen + 1
    BY DEF TypeOK, GenerationsInOrder, Due
<1>3. /\ \A m \in Modes \ {"self"} : armed'[m] = NoTimer
      /\ armed'["self"] = Fresh(gen + 1)
      /\ active'["self"]
      /\ ~active'["hold"]
      /\ gen' = gen + 1
    BY DEF Engage, NoTimers, Modes, ForceModes, TypeOK, NoHold
<1>4. GenerationsInOrder'
    <2>1. NoTimer.gen <= gen + 1 /\ Fresh(gen + 1).gen <= gen + 1
        BY DEF NoTimer, Fresh, TypeOK
    <2>2. \A t \in loose' : t.gen <= gen + 1
        BY <1>2 DEF TypeOK
    <2>3. QED
        BY <1>1, <1>3, <2>1, <2>2 DEF GenerationsInOrder
<1>5. NewestArmsLast'
    BY <1>2, <1>3 DEF NewestArmsLast, Watched, Ends, Modes, ForceModes
<1>6. CallbackLives'
    BY <1>3 DEF CallbackLives, Watched, Ends, Fresh, NoTimer, Modes, ForceModes
<1>7. NoHold'
    BY <1>3 DEF NoHold, Modes, ForceModes
<1>8. QED
    BY <1>4, <1>5, <1>6, <1>7 DEF TimedInvariant, ForceIsWatched, DownIsEmpty

-----------------------------------------------------------------------------
(* Every step keeps TimedInvariant. *)

\* A completing write is the first one, and the others stay behind it.
LEMMA FirstCompletes ==
    ASSUME TypeOK, TimedInvariant, InOrder, NEW i \in DOMAIN writes, Completes(i),
           writes' = RemoveAt(writes, i)
    PROVE  /\ i = 1 /\ up
           /\ writes' = Tail(writes)
           /\ writes' \in Seq(Write)
           /\ Ordered(writes', gen)
           /\ \A k \in DOMAIN writes' : \E j \in DOMAIN writes : j # 1 /\ writes'[k] = writes[j]
           /\ \A j \in DOMAIN writes : j # 1 => \E k \in DOMAIN writes' : writes'[k] = writes[j]
           /\ Bump(writes[1]) /\ writes[1].gen = gen => \A k \in DOMAIN writes' : ~Bump(writes'[k])
           /\ \A k \in DOMAIN writes' : writes'[k].op # "hold"
<1>1. i = 1
    BY DEF Completes
<1>2. writes # <<>> /\ writes \in Seq(Write)
    BY EmptySeq DEF TypeOK
<1>3. up
    BY <1>2 DEF TimedInvariant, DownIsEmpty
<1>4. writes' = Tail(writes) /\ writes' \in Seq(Write)
    BY <1>1, <1>2, RemoveAtOne, HeadTailProperties
<1>5. gen \in Nat /\ Ordered(writes, gen) /\ \A j \in DOMAIN writes : writes[j].op # "hold"
    BY DEF TypeOK, TimedInvariant, GenerationsInOrder, NoHold
<1>6. /\ Ordered(Tail(writes), gen)
      /\ \A k \in DOMAIN Tail(writes) : \E j \in DOMAIN writes : j # 1 /\ Tail(writes)[k] = writes[j]
      /\ \A j \in DOMAIN writes : j # 1 => \E k \in DOMAIN Tail(writes) : Tail(writes)[k] = writes[j]
      /\ Bump(writes[1]) /\ writes[1].gen = gen => \A k \in DOMAIN Tail(writes) : ~Bump(Tail(writes)[k])
    BY <1>2, <1>5, OrderedTail
<1>7. \A k \in DOMAIN Tail(writes) : Tail(writes)[k].op # "hold"
    BY <1>5, <1>6
<1>8. QED
    BY <1>1, <1>3, <1>4, <1>6, <1>7

\* Nothing that is watched now loses its callback while the callbacks, the
\* generation and the active modes stay, so the invariant only depends on the
\* queue.
LEMMA QueueMoves ==
    ASSUME TypeOK, TimedInvariant, up, up', UNCHANGED <<active, armed, loose, gen>>,
           Ordered(writes', gen), disk'.mode # "hold",
           \A k \in DOMAIN writes' : /\ writes'[k].op # "hold"
                                     /\ Bump(writes'[k]) => \E j \in DOMAIN writes : writes'[k] = writes[j],
           NewestWrites => NewestWrites'
    PROVE  TimedInvariant'
<1>1. GenerationsInOrder'
    BY DEF TimedInvariant, GenerationsInOrder
<1>2. \A m : Watched(m)' <=> Watched(m)
    BY DEF Watched, Ends
<1>3. NewestArmsLast'
    BY <1>2 DEF TimedInvariant, NewestArmsLast
<1>4. ForceIsWatched'
    BY <1>2 DEF TimedInvariant, ForceIsWatched, CallbackLives, Bump
<1>5. NoHold'
    BY DEF TimedInvariant, NoHold
<1>6. QED
    BY <1>1, <1>3, <1>4, <1>5 DEF TimedInvariant, DownIsEmpty

LEMMA ForceWrittenKeepsTimed ==
    ASSUME TypeOK, TimedInvariant, InOrder, NEW i \in DOMAIN writes, ForceWritten(i)
    PROVE  TimedInvariant'
<1>1. i = 1 /\ up /\ writes[1].op = "force" /\ writes[1] \in Write
    BY FirstCompletes, LenProperties DEF ForceWritten, TypeOK
<1>2. PICK m \in ForceModes, g \in Nat : m = writes[1].mode /\ g = writes[1].gen
    BY <1>1 DEF Write
<1>3. /\ active' = [active EXCEPT ![m] = TRUE]
      /\ armed' = [armed EXCEPT ![m] = Fresh(g)]
      /\ UNCHANGED <<loose, gen, disk, up>>
      /\ g <= gen
    BY <1>1, <1>2 DEF ForceWritten, TimedInvariant, GenerationsInOrder, Ordered, Bump
<1>4. m \in Modes /\ armed'[m] = Fresh(g) /\ Fresh(g) # NoTimer /\ Fresh(g).gen = g /\ active'[m]
    BY <1>3 DEF TypeOK, Fresh, NoTimer, Modes
<1>5. \A x \in Modes \ {m} : armed'[x] = armed[x] /\ active'[x] = active[x]
    BY <1>3 DEF TypeOK
<1>6. \A x \in ForceModes : ~Watched(x)
    BY <1>1 DEF TimedInvariant, NewestArmsLast, Bump
<1>7. GenerationsInOrder'
    BY <1>3, <1>4, <1>5, FirstCompletes DEF ForceWritten, TimedInvariant, GenerationsInOrder
<1>8. NoHold'
    BY <1>3, <1>5, FirstCompletes
       DEF ForceWritten, TimedInvariant, NoHold, Modes, ForceModes
<1>9. ForceIsWatched
    BY DEF TimedInvariant
<1>10. CASE g = gen
    <2>1. \A k \in DOMAIN writes' : ~Bump(writes'[k])
        BY <1>1, <1>2, <1>10, FirstCompletes DEF ForceWritten, Bump
    <2>2. Watched(m)'
        BY <1>3, <1>4, <1>10 DEF Watched, Ends, Fresh
    <2>3. CallbackLives'
        BY <1>4, <2>2 DEF CallbackLives
    <2>4. QED
        BY <1>1, <1>3, <1>7, <1>8, <2>1, <2>3
           DEF TimedInvariant, NewestArmsLast, ForceIsWatched, DownIsEmpty
<1>11. CASE g # gen
    <2>1. \A x \in ForceModes : ~Watched(x)'
        BY <1>3, <1>4, <1>5, <1>6, <1>11 DEF Watched, Ends, Modes
    <2>2. NewestWrites => NewestWrites'
        BY <1>1, <1>2, <1>3, <1>11, FirstCompletes DEF NewestWrites, ForceWritten
    <2>3. CallbackLives => CallbackLives'
        BY <1>2, <1>3, <1>5, <1>6 DEF CallbackLives, Watched, Ends
    <2>4. NewestWrites \/ CallbackLives
        BY <1>1, <1>9 DEF ForceIsWatched
    <2>5. QED
        BY <1>1, <1>3, <1>7, <1>8, <2>1, <2>2, <2>3, <2>4
           DEF TimedInvariant, NewestArmsLast, ForceIsWatched, DownIsEmpty
<1>12. QED
    BY <1>10, <1>11

\* A restore that is still the newest command switches the force modes off; no
\* force command is behind it.
LEMMA RestoreConfirmedKeepsTimed ==
    ASSUME TypeOK, TimedInvariant, InOrder, NEW i \in DOMAIN writes, RestoreConfirmed(i)
    PROVE  TimedInvariant'
<1>1. /\ up /\ up'
      /\ UNCHANGED <<armed, loose, gen, disk>>
      /\ \A m \in ForceModes : ~active'[m]
      /\ active'["hold"] = FALSE
      /\ \A k \in DOMAIN writes' : ~Bump(writes'[k]) /\ writes'[k].op # "hold"
      /\ Ordered(writes', gen)
    BY FirstCompletes
       DEF RestoreConfirmed, Bump, ForceModes, Modes, TypeOK, TimedInvariant, NoHold
<1>2. GenerationsInOrder'
    BY <1>1 DEF TimedInvariant, GenerationsInOrder
<1>3. NewestArmsLast' /\ ForceIsWatched'
    BY <1>1 DEF NewestArmsLast, ForceIsWatched, Bump
<1>4. NoHold'
    BY <1>1 DEF TimedInvariant, NoHold
<1>5. QED
    BY <1>1, <1>2, <1>3, <1>4 DEF TimedInvariant, DownIsEmpty

\* A superseded restore leaves the newest command behind it, or hands over to
\* self consumption.
LEMMA RestoreSupersededKeepsTimed ==
    ASSUME TypeOK, TimedInvariant, InOrder, NEW i \in DOMAIN writes, RestoreSuperseded(i)
    PROVE  TimedInvariant'
<1>1. /\ i = 1 /\ up /\ up' /\ UNCHANGED <<loose, disk>>
      /\ writes' \in Seq(Write) /\ Ordered(writes', gen) /\ disk'.mode # "hold"
      /\ \A k \in DOMAIN writes' : /\ writes'[k].op # "hold"
                                   /\ \E j \in DOMAIN writes : writes'[k] = writes[j]
    BY FirstCompletes DEF RestoreSuperseded, TimedInvariant, NoHold
<1>2. NewestWrites /\ gen' = gen => NewestWrites'
    BY <1>1, FirstCompletes DEF RestoreSuperseded, NewestWrites
<1>3. CASE writes[1].next = "self"
    <2>1. Engage(saves)
        BY <1>1, <1>3 DEF RestoreSuperseded, AfterReturn
    <2>2. QED
        BY <1>1, <2>1, EngageWatches DEF TimedInvariant
<1>4. CASE writes[1].next # "self"
    <2>1. UNCHANGED <<active, armed, gen>>
        BY <1>1, <1>4 DEF RestoreSuperseded, AfterReturn
    <2>2. QED
        BY <1>1, <1>2, <2>1, QueueMoves
<1>5. QED
    BY <1>3, <1>4

LEMMA SelfWriteKeepsTimed ==
    ASSUME TypeOK, TimedInvariant, InOrder, NEW i \in DOMAIN writes, SelfWriteCompletes(i)
    PROVE  TimedInvariant'
<1>1. /\ i = 1 /\ up /\ up' /\ UNCHANGED <<active, armed, loose, gen, disk>>
      /\ Ordered(writes', gen) /\ disk'.mode # "hold"
      /\ \A k \in DOMAIN writes' : /\ writes'[k].op # "hold"
                                   /\ \E j \in DOMAIN writes : writes'[k] = writes[j]
    BY FirstCompletes DEF SelfWriteCompletes, TimedInvariant, NoHold
<1>2. NewestWrites => NewestWrites'
    BY <1>1, FirstCompletes DEF SelfWriteCompletes, NewestWrites, Bump
<1>3. QED
    BY <1>1, <1>2, QueueMoves

\* Callbacks that move from a slot to the event loop, and callbacks for a mode
\* that is restored already, change who is watched only where it does not
\* matter.
LEMMA WatchersMove ==
    ASSUME TypeOK, TimedInvariant, up, up', UNCHANGED <<gen, writes>>, disk'.mode # "hold",
           \A m \in Modes : active'[m] <=> active[m],
           \A m \in Modes : armed'[m].gen <= gen,
           \A t \in loose' : t.gen <= gen /\ t.mode # "hold",
           armed'["hold"] = NoTimer,
           \A m \in ForceModes : Watched(m)' => Watched(m),
           \A m \in Modes : active[m] /\ Watched(m) => Watched(m)'
    PROVE  TimedInvariant'
<1>1. GenerationsInOrder'
    BY DEF TimedInvariant, GenerationsInOrder
<1>2. NewestArmsLast'
    BY DEF TimedInvariant, NewestArmsLast
<1>3. ForceIsWatched'
    BY DEF TimedInvariant, ForceIsWatched, NewestWrites, CallbackLives, Modes
<1>4. NoHold'
    BY DEF TimedInvariant, NoHold, Modes
<1>5. QED
    BY <1>1, <1>2, <1>3, <1>4 DEF TimedInvariant, DownIsEmpty

LEMMA BecomesDueKeepsTimed ==
    ASSUME TypeOK, TimedInvariant, NEW m \in Modes, BecomesDue(m)
    PROVE  TimedInvariant'
<1> DEFINE t == Callback(m, armed[m])
<1>1. /\ armed[m] # NoTimer /\ UNCHANGED <<active, gen, writes, disk, up>>
      /\ armed'[m] = NoTimer /\ loose' = loose \cup {t}
      /\ \A x \in Modes \ {m} : armed'[x] = armed[x]
    BY DEF BecomesDue, TypeOK
<1>2. up /\ m # "hold"
    BY <1>1 DEF TimedInvariant, DownIsEmpty, NoTimers, NoHold
<1>3. t.mode = m /\ t.gen = armed[m].gen /\ t.restored = armed[m].restored
    BY DEF Callback
<1>4. \A x \in Modes : Watched(x)' <=> Watched(x)
    BY <1>1, <1>3 DEF Watched, Ends
<1>5. \A x \in Modes : armed'[x].gen <= gen
    BY <1>1 DEF TimedInvariant, GenerationsInOrder, NoTimer, TypeOK
<1>6. \A u \in loose' : u.gen <= gen /\ u.mode # "hold"
    BY <1>1, <1>2, <1>3 DEF TimedInvariant, GenerationsInOrder, NoHold
<1>7. armed'["hold"] = NoTimer /\ disk'.mode # "hold" /\ up'
    BY <1>1, <1>2 DEF TimedInvariant, NoHold, Modes
<1>8. QED
    BY <1>1, <1>2, <1>4, <1>5, <1>6, <1>7, WatchersMove DEF Modes

LEMMA ExpirySkippedKeepsTimed ==
    ASSUME TypeOK, TimedInvariant, NEW t \in loose, ExpirySkipped(t)
    PROVE  TimedInvariant'
<1>1. up /\ t.mode # "hold" /\ t.mode \in Modes
    BY DEF TimedInvariant, DownIsEmpty, NoHold, TypeOK, Due
<1>2. /\ UNCHANGED <<armed, gen, writes, disk, up>>
      /\ \A m \in Modes : active'[m] <=> active[m]
      /\ loose' = loose \ {t}
      /\ t.gen # gen \/ ~active[t.mode]
    BY <1>1 DEF ExpirySkipped, TypeOK
<1>3. \A m \in Modes : Watched(m)' => Watched(m)
    BY <1>2 DEF Watched, Ends
<1>4. \A m \in Modes : active[m] /\ Watched(m) => Watched(m)'
    BY <1>2 DEF Watched, Ends
<1>5. QED
    BY <1>1, <1>2, <1>3, <1>4, WatchersMove
       DEF TimedInvariant, GenerationsInOrder, NoHold, ForceModes, Modes

LEMMA RearmKeepsTimed ==
    ASSUME TypeOK, TimedInvariant, up, up', NEW m \in ForceModes, RearmAfterReplay(m),
           UNCHANGED <<active, gen, writes>>, disk'.mode # "hold"
    PROVE  TimedInvariant'
<1> DEFINE t == Callback(m, armed[m])
<1>1. t.mode = m /\ t.gen = armed[m].gen /\ t.restored = armed[m].restored
    BY DEF Callback
<1>2. /\ m \in Modes /\ m # "hold"
      /\ armed'[m].gen = gen /\ armed'[m].restored
      /\ \A x \in Modes \ {m} : armed'[x] = armed[x]
      /\ loose' = IF armed[m] = NoTimer THEN loose ELSE loose \cup {t}
    BY DEF RearmAfterReplay, TypeOK, Modes, ForceModes
<1>3. \A x \in Modes : Watched(x)' <=> Watched(x)
    BY <1>1, <1>2 DEF Watched, Ends
<1>4. \A x \in Modes : armed'[x].gen <= gen
    BY <1>2 DEF TimedInvariant, GenerationsInOrder, TypeOK
<1>5. QED
    BY <1>1, <1>2, <1>3, <1>4, WatchersMove
       DEF TimedInvariant, GenerationsInOrder, NoHold, ForceModes, Modes

LEMMA SaveKeepsTimed ==
    ASSUME TypeOK, TimedInvariant, SaveCompletes
    PROVE  TimedInvariant'
<1> DEFINE s == Head(saves)
<1>1. up /\ up' /\ s \in Save
    BY HeadTailProperties DEF SaveCompletes, TimedInvariant, DownIsEmpty, TypeOK
<1>2. disk'.mode # "hold"
    BY DEF SaveCompletes, Snapshot, NoSession, TimedInvariant, NoHold, Modes
<1>3. CASE s.then = "selfwrite"
    <2> DEFINE w == [op |-> "self", mode |-> "self", gen |-> gen, next |-> "none", retry |-> 0]
    <2>1. w \in Write /\ ~Bump(w) /\ w.op # "hold"
        BY DEF Write, Bump, Modes, MaxRetries, TypeOK
    <2>2. writes' = Append(writes, w) /\ UNCHANGED <<active, armed, loose, gen>>
        BY <1>3 DEF SaveCompletes
    <2>3. Ordered(writes, gen) /\ writes \in Seq(Write) /\ gen \in Nat
        BY DEF TypeOK, TimedInvariant, GenerationsInOrder
    <2>4. /\ Ordered(writes', gen)
          /\ \A k \in DOMAIN writes' : writes'[k] = w \/ \E j \in DOMAIN writes : writes'[k] = writes[j]
          /\ \A j \in DOMAIN writes : j \in DOMAIN writes' /\ writes'[j] = writes[j]
        BY <2>1, <2>2, <2>3, OrderedAppend
    <2>5. NewestWrites => NewestWrites'
        BY <2>2, <2>4 DEF NewestWrites
    <2>6. \A k \in DOMAIN writes' : /\ writes'[k].op # "hold"
                                    /\ Bump(writes'[k]) => \E j \in DOMAIN writes : writes'[k] = writes[j]
        BY <2>1, <2>4 DEF TimedInvariant, NoHold
    <2>7. QED
        BY <1>1, <1>2, <2>2, <2>4, <2>5, <2>6, QueueMoves
<1>4. CASE s.then = "replay"
    <2>1. s.mode \in ForceModes
        BY <1>1, <1>4 DEF Save
    <2>2. RearmAfterReplay(s.mode) /\ UNCHANGED <<active, gen, writes>>
        BY <1>4 DEF SaveCompletes
    <2>3. QED
        BY <1>1, <1>2, <2>1, <2>2, RearmKeepsTimed
<1>5. CASE s.then = "self"
    <2>1. Engage(Tail(saves)) /\ UNCHANGED <<loose, writes>>
        BY <1>5 DEF SaveCompletes, AfterReturn
    <2>2. writes' \in Seq(Write) /\ Ordered(writes', gen)
        BY <2>1 DEF TypeOK, TimedInvariant, GenerationsInOrder
    <2>3. \A k \in DOMAIN writes' : writes'[k].op # "hold"
        BY <2>1 DEF TimedInvariant, NoHold
    <2>4. QED
        BY <1>1, <1>2, <2>1, <2>2, <2>3, EngageWatches DEF TimedInvariant
<1>6. CASE s.then \notin {"selfwrite", "replay", "self"}
    <2>1. UNCHANGED <<active, armed, loose, gen, writes>>
        BY <1>6 DEF SaveCompletes, AfterReturn
    <2>2. Ordered(writes', gen) /\ (NewestWrites => NewestWrites')
        BY <2>1 DEF TimedInvariant, GenerationsInOrder, NewestWrites
    <2>3. \A k \in DOMAIN writes' : /\ writes'[k].op # "hold"
                                    /\ Bump(writes'[k]) => \E j \in DOMAIN writes : writes'[k] = writes[j]
        BY <2>1 DEF TimedInvariant, NoHold
    <2>4. QED
        BY <1>1, <1>2, <2>1, <2>2, <2>3, QueueMoves
<1>7. QED
    BY <1>3, <1>4, <1>5, <1>6

\* The user commands and a live expiry are new commands; so is what the
\* recovery re-issues.
LEMMA IssueForceKeepsTimed ==
    ASSUME TypeOK, TimedInvariant, up, up', NEW m \in ForceModes, NEW next \in {"none", "replay"},
           IssueForce(m, next), UNCHANGED <<loose, disk>>
    PROVE  TimedInvariant'
<1> DEFINE w == [op |-> "force", mode |-> m, gen |-> gen + 1, next |-> next, retry |-> 0]
<1>1. w \in Write /\ Bump(w) /\ w.gen = gen + 1
    BY DEF TypeOK, Write, Bump
<1>2. ~active'["hold"]
    BY DEF IssueForce, TimedInvariant, NoHold, TypeOK, ForceModes, Modes, Other
<1>3. armed' = NoTimers /\ gen' = gen + 1 /\ writes' = Append(writes, w)
    BY DEF IssueForce
<1>4. QED
    BY <1>1, <1>2, <1>3, NewCommand DEF TimedInvariant

LEMMA IssueRestoreKeepsTimed ==
    ASSUME TypeOK, TimedInvariant, up, up', NEW source, NEW next \in {"none", "self", "cleanup"},
           NEW m \in Modes \cup {"none"}, NEW r \in 0..MaxRetries, IssueRestore(source, next, m, r),
           loose' \subseteq loose, UNCHANGED disk
    PROVE  TimedInvariant'
<1> DEFINE w == [op |-> "restore", mode |-> m, gen |-> gen + 1, next |-> next, retry |-> r]
<1>1. w \in Write /\ Bump(w) /\ w.gen = gen + 1
    BY DEF TypeOK, Write, Bump
<1>2. ~active'["hold"]
    BY DEF IssueRestore, TimedInvariant, NoHold, Modes
<1>3. armed' = NoTimers /\ gen' = gen + 1 /\ writes' = Append(writes, w)
    BY DEF IssueRestore
<1>4. QED
    BY <1>1, <1>2, <1>3, NewCommand DEF TimedInvariant

LEMMA RestartAndResumeKeepTimed ==
    ASSUME TypeOK, TimedInvariant, Restart \/ Resume
    PROVE  TimedInvariant'
<1>1. CASE Restart
    <2>1. /\ \A m \in Modes : ~active'[m] /\ armed'[m] = NoTimer
          /\ armed' = NoTimers /\ loose' = {} /\ gen' = 0 /\ writes' = <<>> /\ saves' = <<>>
          /\ DOMAIN writes' = {} /\ disk' = disk /\ ~up'
        BY <1>1 DEF Restart, NoTimers
    <2>2. GenerationsInOrder'
        BY <2>1 DEF GenerationsInOrder, Ordered, NoTimer
    <2>3. NewestArmsLast' /\ ForceIsWatched'
        BY <2>1 DEF NewestArmsLast, ForceIsWatched, ForceModes, Modes
    <2>4. NoHold'
        BY <2>1 DEF TimedInvariant, NoHold, Modes
    <2>5. QED
        BY <2>1, <2>2, <2>3, <2>4 DEF TimedInvariant, DownIsEmpty
<1>2. ASSUME ~up PROVE /\ \A m \in Modes : ~active[m] /\ armed[m] = NoTimer
                       /\ loose = {} /\ writes = <<>> /\ DOMAIN writes = {}
    BY <1>2 DEF TimedInvariant, DownIsEmpty, NoTimers
<1>3. CASE NothingToResume
    BY <1>3 DEF NothingToResume, memory, TimedInvariant, GenerationsInOrder, NewestArmsLast,
                ForceIsWatched, NewestWrites, CallbackLives, Watched, Ends, DownIsEmpty, NoHold
<1>4. CASE ResumeTimer
    <2>1. /\ ~up /\ up' /\ disk.mode = "self" /\ UNCHANGED <<loose, gen, writes, disk>>
          /\ \A m \in Modes \ {"self"} : ~active'[m] /\ armed'[m] = NoTimer
          /\ armed'["self"].gen = gen
        BY <1>2, <1>4 DEF ResumeTimer, Populated, TimedInvariant, NoHold, TypeOK, Modes
    <2>2. GenerationsInOrder'
        BY <1>2, <2>1 DEF GenerationsInOrder, Ordered, NoTimer, TypeOK
    <2>3. NewestArmsLast' /\ ForceIsWatched'
        BY <1>2, <2>1 DEF NewestArmsLast, ForceIsWatched, ForceModes, Modes
    <2>4. NoHold'
        BY <1>2, <2>1 DEF TimedInvariant, NoHold, Modes
    <2>5. QED
        BY <2>1, <2>2, <2>3, <2>4 DEF TimedInvariant, DownIsEmpty
<1>5. CASE ResumeForce \/ ResumeExpired
    <2>1. PICK w \in Write : /\ writes' = <<w>> /\ Bump(w) /\ w.gen = gen + 1
        BY <1>5 DEF ResumeForce, ResumeExpired, TypeOK, Write, Bump, Session, MaxRetries
    <2>2. /\ ~up /\ up' /\ armed' = NoTimers /\ gen' = gen + 1 /\ UNCHANGED <<loose, disk>>
          /\ ~active'["hold"]
        BY <1>2, <1>5
           DEF ResumeForce, ResumeExpired, Populated, TimedInvariant, NoHold, TypeOK, Modes, ForceModes
    <2>3. /\ \A m \in Modes : armed'[m] = NoTimer
          /\ loose' = {} /\ DOMAIN writes' = {1} /\ writes'[1] = w
        BY <1>2, <2>1, <2>2 DEF NoTimers
    <2>4. GenerationsInOrder'
        BY <2>1, <2>2, <2>3 DEF GenerationsInOrder, Ordered, NoTimer, TypeOK
    <2>5. NewestArmsLast' /\ NewestWrites'
        BY <2>1, <2>2, <2>3 DEF NewestArmsLast, Watched, NewestWrites, ForceModes, Modes
    <2>6. NoHold'
        BY <2>1, <2>2, <2>3 DEF TimedInvariant, NoHold, Modes, Bump
    <2>7. QED
        BY <2>2, <2>4, <2>5, <2>6 DEF TimedInvariant, ForceIsWatched, DownIsEmpty
<1>6. QED
    BY <1>1, <1>3, <1>4, <1>5 DEF Resume

LEMMA TimedStep ==
    ASSUME InOrder, Outcomes = {"ok"}, "hold" \notin Commands
    PROVE  TypeOK /\ TimedInvariant /\ [Next]_vars => TimedInvariant'
<1> SUFFICES ASSUME TypeOK, TimedInvariant, [Next]_vars PROVE TimedInvariant'
    OBVIOUS
<1>1. ASSUME NEW m \in ForceModes, ForceCommand(m) PROVE TimedInvariant'
    BY <1>1, IssueForceKeepsTimed DEF ForceCommand, Admitted
<1>2. CASE RestoreCommand
    <2>1. 0 \in 0..MaxRetries
        BY DEF MaxRetries
    <2>2. QED
        BY <1>2, <2>1, IssueRestoreKeepsTimed DEF RestoreCommand, Admitted
<1>3. CASE SelfCommand
    <2>1. up /\ up' /\ 0 \in 0..MaxRetries /\ UNCHANGED <<loose, disk>>
        BY <1>3 DEF SelfCommand, Admitted, MaxRetries
    <2>2. CASE IssueRestore("user", "self", "none", 0)
        BY <2>1, <2>2, IssueRestoreKeepsTimed
    <2>3. CASE Engage(saves) /\ UNCHANGED writes
        <3>1. writes' \in Seq(Write) /\ Ordered(writes', gen)
            BY <2>3 DEF TypeOK, TimedInvariant, GenerationsInOrder
        <3>2. (\A k \in DOMAIN writes' : writes'[k].op # "hold") /\ disk'.mode # "hold"
            BY <2>1, <2>3 DEF TimedInvariant, NoHold
        <3>3. QED
            BY <2>1, <2>3, <3>1, <3>2, EngageWatches DEF TimedInvariant
    <2>4. QED
        BY <1>3, <2>2, <2>3 DEF SelfCommand
<1>4. ASSUME NEW i \in DOMAIN writes, WriteCompletes PROVE writes[i].op # "hold"
    BY DEF TimedInvariant, NoHold
<1>5. CASE WriteCompletes
    <2>1. PICK i \in DOMAIN writes :
             \/ ForceWritten(i) \/ SelfWriteCompletes(i) \/ RestoreConfirmed(i) \/ RestoreSuperseded(i)
        BY <1>4, <1>5
           DEF WriteCompletes, ForceNotWritten, HoldWritten, HoldNotWritten, RestoreSwallowed, RestoreRefused
    <2>2. QED
        BY <2>1, ForceWrittenKeepsTimed, SelfWriteKeepsTimed, RestoreConfirmedKeepsTimed,
           RestoreSupersededKeepsTimed
<1>6. ASSUME NEW t \in loose, ExpiryRestores(t) PROVE TimedInvariant'
    <2>1. t.retry \in 0..MaxRetries /\ t.mode \in Modes /\ 0 \in 0..MaxRetries
        BY DEF TypeOK, Due, MaxRetries
    <2>2. up /\ up' /\ loose' \subseteq loose /\ UNCHANGED disk
        BY <1>6 DEF ExpiryRestores, TimedInvariant, DownIsEmpty
    <2>3. CASE IssueRestore(ExpirySource(t.mode), "none", "none", 0)
        BY <2>1, <2>2, <2>3, IssueRestoreKeepsTimed
    <2>4. CASE IssueRestore("force_timer", "cleanup", t.mode, t.retry)
        BY <2>1, <2>2, <2>4, IssueRestoreKeepsTimed
    <2>5. QED
        BY <1>6, <2>3, <2>4 DEF ExpiryRestores
<1>7. CASE UNCHANGED vars
    BY <1>7 DEF vars, memory, TimedInvariant, GenerationsInOrder, NewestArmsLast,
                ForceIsWatched, NewestWrites, CallbackLives, Watched, Ends, DownIsEmpty, NoHold
<1>8. QED
    BY <1>1, <1>2, <1>3, <1>5, <1>6, <1>7, SaveKeepsTimed, BecomesDueKeepsTimed,
       ExpirySkippedKeepsTimed, RestartAndResumeKeepTimed
       DEF Next, Command, HoldCommand, Admitted, CallbackRuns

\* Initially nothing is pending.
LEMMA TimedInit == Init => TimedInvariant
<1> SUFFICES ASSUME Init PROVE TimedInvariant
    OBVIOUS
<1>1. /\ \A m \in Modes : ~active[m] /\ armed[m] = NoTimer
      /\ loose = {} /\ gen = 0 /\ DOMAIN writes = {}
    BY DEF Init, NoTimers
<1>2. GenerationsInOrder /\ NewestArmsLast /\ ForceIsWatched
    BY <1>1 DEF GenerationsInOrder, Ordered, NoTimer, NewestArmsLast, ForceIsWatched,
                ForceModes, Modes
<1>3. DownIsEmpty /\ NoHold
    BY <1>1 DEF Init, DownIsEmpty, NoHold, NoSession, Modes
<1>4. QED
    BY <1>2, <1>3 DEF TimedInvariant

\* On an in-order link whose writes succeed, and without hold SoC, a force mode
\* that is on while no handler is at work always has a live expiry callback:
\* the generation counter of __init__.py:30399 never leaves a session behind.
THEOREM ForceModesAreTimed ==
    ASSUME InOrder, Outcomes = {"ok"}, "hold" \notin Commands
    PROVE  Spec => []ForceModeIsTimed
<1>1. Init => TimedInvariant
    BY TimedInit
<1>2. TypeOK /\ TimedInvariant => ForceModeIsTimed
    <2> SUFFICES ASSUME TypeOK, TimedInvariant, Quiet, NEW m \in ForceModes, active[m]
                 PROVE  SomeoneWillEndIt
        BY DEF ForceModeIsTimed
    <2>1. ~NewestWrites
        BY DEF Quiet, NewestWrites
    <2>2. CallbackLives
        BY <2>1 DEF TimedInvariant, ForceIsWatched
    <2>3. QED
        BY <2>2 DEF CallbackLives, Watched, Ends, SomeoneWillEndIt, Live
<1>3. QED
    BY <1>1, <1>2, TypeCorrect, TimedStep, PTL DEF Spec

-----------------------------------------------------------------------------
(***************************************************************************)
(* What ForceMode's flags, record and inverter are when no handler is at   *)
(* work, for every number of commands, expiries, writes in flight and      *)
(* restarts; then, over refused writes and restarts, that a session no     *)
(* callback will end is on the disk.  Waiting handlers are looked at as a  *)
(* set, the Range of their queue, wherever their order does not matter.    *)
(***************************************************************************)

\* A handler that starts to wait joins the others.
LEMMA RangeAppend ==
  ASSUME NEW S, NEW q \in Seq(S), NEW w \in S
  PROVE  /\ Range(Append(q, w)) = Range(q) \cup {w}
         /\ Len(Append(q, w)) = Len(q) + 1 /\ Append(q, w) # <<>>
  <1>1. /\ Len(Append(q, w)) = Len(q) + 1 /\ Append(q, w) # <<>>
        /\ DOMAIN Append(q, w) = 1..(Len(q) + 1) /\ DOMAIN q = 1..Len(q)
        /\ Len(q) \in Nat
        /\ \A k \in 1..Len(q) : Append(q, w)[k] = q[k]
        /\ Append(q, w)[Len(q) + 1] = w
    BY AppendProperties, LenProperties
  <1>2. Range(Append(q, w)) = Range(q) \cup {w}
    BY <1>1 DEF Range
  <1> QED
    BY <1>1, <1>2

\* One that goes on leaves the others waiting.
LEMMA RangeRemove ==
  ASSUME NEW S, NEW q \in Seq(S), NEW i \in DOMAIN q
  PROVE  /\ RemoveAt(q, i) \in Seq(S) /\ Len(RemoveAt(q, i)) = Len(q) - 1
         /\ q[i] \in Range(q) /\ Range(q) \subseteq S
         /\ \A k \in 1..(Len(q) - 1) :
              RemoveAt(q, i)[k] = q[IF k < i THEN k ELSE k + 1]
         /\ Range(RemoveAt(q, i)) \subseteq Range(q)
         /\ Range(q) \subseteq Range(RemoveAt(q, i)) \cup {q[i]}
  <1>1. /\ Len(q) \in Nat /\ DOMAIN q = 1..Len(q) /\ i \in 1..Len(q)
        /\ \A k \in 1..Len(q) : q[k] \in S
    BY LenProperties
  <1> DEFINE a == SubSeq(q, 1, i - 1)
             b == SubSeq(q, i + 1, Len(q))
             r == RemoveAt(q, i)
  <1>2. /\ a \in Seq(S) /\ Len(a) = i - 1
        /\ \A k \in 1..(i - 1) : a[k] = q[k]
    <2>1. \A k \in 1..(i - 1) : q[k] \in S
      BY <1>1
    <2> QED
      BY <1>1, <2>1, SubSeqProperties
  <1>3. /\ b \in Seq(S) /\ Len(b) = Len(q) - i
        /\ \A k \in 1..(Len(q) - i) : b[k] = q[i + k]
    <2>1. \A k \in (i + 1)..Len(q) : q[k] \in S
      BY <1>1
    <2> QED
      BY <1>1, <2>1, SubSeqProperties
  <1>4. /\ r \in Seq(S) /\ Len(r) = Len(a) + Len(b)
        /\ \A k \in 1..(Len(a) + Len(b)) :
             r[k] = IF k <= Len(a) THEN a[k] ELSE b[k - Len(a)]
    <2>1. r = a \o b
      BY DEF RemoveAt
    <2> HIDE DEF a, b, r
    <2> QED
      BY <1>2, <1>3, <2>1, ConcatProperties
  <1> HIDE DEF a, b, r
  <1>5. /\ Len(r) = Len(q) - 1
        /\ \A k \in 1..(Len(q) - 1) : r[k] = q[IF k < i THEN k ELSE k + 1]
    <2>1. Len(r) = Len(q) - 1
      BY <1>1, <1>2, <1>3, <1>4
    <2>2. ASSUME NEW k \in 1..(Len(q) - 1)
          PROVE  r[k] = q[IF k < i THEN k ELSE k + 1]
      <3>1. r[k] = IF k <= i - 1 THEN a[k] ELSE b[k - (i - 1)]
        BY <1>1, <1>2, <1>3, <1>4
      <3>2. CASE k < i
        BY <1>1, <1>2, <3>1, <3>2
      <3>3. CASE ~(k < i)
        <4>1. k - (i - 1) \in 1..(Len(q) - i) /\ i + (k - (i - 1)) = k + 1
          BY <1>1, <3>3
        <4>2. b[k - (i - 1)] = q[i + (k - (i - 1))]
          BY <1>3, <4>1
        <4> QED
          BY <1>1, <3>1, <3>3, <4>1, <4>2
      <3> QED
        BY <3>2, <3>3
    <2> QED
      BY <2>1, <2>2
  <1>6. DOMAIN r = 1..(Len(q) - 1)
    BY <1>4, <1>5, LenProperties
  <1>7. Range(r) \subseteq Range(q)
    BY <1>1, <1>5, <1>6 DEF Range
  <1>8. ASSUME NEW j \in 1..Len(q), j # i
        PROVE  q[j] \in Range(r)
    <2>1. CASE j < i
      BY <1>1, <1>5, <1>6, <1>8, <2>1 DEF Range
    <2>2. CASE j > i
      <3>1. j - 1 \in 1..(Len(q) - 1) /\ r[j - 1] = q[j]
        BY <1>1, <1>5, <2>2
      <3> QED
        BY <1>6, <3>1 DEF Range
    <2> QED
      BY <1>1, <1>8, <2>1, <2>2
  <1>9. /\ Range(q) \subseteq Range(r) \cup {q[i]}
        /\ q[i] \in Range(q) /\ Range(q) \subseteq S
    BY <1>1, <1>8 DEF Range
  <1> QED
    BY <1>4, <1>5, <1>7, <1>9 DEF r

\* The store serves the first of them.
LEMMA RangeTail ==
  ASSUME NEW S, NEW q \in Seq(S), q # <<>>
  PROVE  /\ Head(q) \in S /\ Tail(q) \in Seq(S) /\ Len(Tail(q)) = Len(q) - 1
         /\ Range(q) = {Head(q)} \cup Range(Tail(q))
  <1>1. /\ Head(q) \in S /\ Tail(q) \in Seq(S) /\ Len(Tail(q)) = Len(q) - 1
        /\ \A k \in 1..Len(Tail(q)) : Tail(q)[k] = q[k + 1]
    BY HeadTailProperties
  <1>2. /\ Len(q) \in Nat /\ DOMAIN q = 1..Len(q) /\ Len(q) # 0
        /\ DOMAIN Tail(q) = 1..(Len(q) - 1)
    BY <1>1, LenProperties, EmptySeq
  <1>3. Head(q) = q[1]
    OBVIOUS
  <1>4. ASSUME NEW j \in 1..Len(q)
        PROVE  q[j] \in {Head(q)} \cup Range(Tail(q))
    <2>1. CASE j = 1
      BY <1>3, <2>1
    <2>2. CASE j # 1
      <3>1. j - 1 \in DOMAIN Tail(q) /\ Tail(q)[j - 1] = q[j]
        BY <1>1, <1>2, <2>2
      <3> QED
        BY <3>1 DEF Range
    <2> QED
      BY <2>1, <2>2
  <1>5. Range(q) \subseteq {Head(q)} \cup Range(Tail(q))
    BY <1>2, <1>4 DEF Range
  <1>6. Range(Tail(q)) \subseteq Range(q) /\ Head(q) \in Range(q)
    BY <1>1, <1>2, <1>3 DEF Range
  <1> QED
    BY <1>1, <1>5, <1>6

\* An empty queue is one that nobody waits in.
LEMMA RangeShort ==
  ASSUME NEW S, NEW q \in Seq(S)
  PROVE  /\ Range(q) \subseteq S /\ (q = <<>> <=> Range(q) = {})
         /\ (q = <<>> <=> Len(q) = 0) /\ Len(q) \in Nat
  <1>1. Len(q) \in Nat /\ DOMAIN q = 1..Len(q) /\ \A k \in 1..Len(q) : q[k] \in S
    BY LenProperties
  <1>2. q = <<>> <=> Len(q) = 0
    BY EmptySeq
  <1>3. Range(q) = {} <=> Len(q) = 0
    BY <1>1 DEF Range
  <1> QED
    BY <1>1, <1>2, <1>3 DEF Range

\* A queue of one.
LEMMA RangeOne ==
  ASSUME NEW w
  PROVE  Range(<<w>>) = {w} /\ Len(<<w>>) = 1 /\ <<w>> # <<>>
  BY DEF Range

-----------------------------------------------------------------------------
(* The queues as sets.                                                     *)

\* A force command joins the writes with the generation it took.
LEMMA ForceIssued ==
  ASSUME TypeOK, NEW m \in ForceModes, NEW next \in {"none", "replay"},
         IssueForce(m, next)
  PROVE  /\ Range(writes') = Range(writes) \cup
              {[op |-> "force", mode |-> m, gen |-> gen + 1, next |-> next,
                retry |-> 0]}
         /\ Len(writes') = Len(writes) + 1 /\ writes' # <<>>
         /\ \E w \in Range(writes') :
              /\ w.op = "force" /\ w.mode = m /\ w.gen = gen + 1
              /\ w.next = next /\ Range(writes') = Range(writes) \cup {w}
  <1> DEFINE w == [op |-> "force", mode |-> m, gen |-> gen + 1, next |-> next,
                   retry |-> 0]
  <1>1. w \in Write
    BY DEF TypeOK, Write
  <1>2. w.op = "force" /\ w.mode = m /\ w.gen = gen + 1 /\ w.next = next
    OBVIOUS
  <1>3. writes' = Append(writes, w) /\ writes \in Seq(Write)
    BY DEF TypeOK, IssueForce
  <1>4. Range(writes') = Range(writes) \cup {w}
    <2> HIDE DEF w
    <2> QED
      BY <1>1, <1>3, RangeAppend
  <1>5. Len(writes') = Len(writes) + 1 /\ writes' # <<>>
    <2> HIDE DEF w
    <2> QED
      BY <1>1, <1>3, RangeAppend
  <1>6. w \in Range(writes')
    BY <1>4
  <1> QED
    BY <1>2, <1>4, <1>5, <1>6

\* So does a restore.
LEMMA RestoreIssued ==
  ASSUME TypeOK, NEW source, NEW next \in {"none", "self", "cleanup"},
         NEW m \in Modes \cup {"none"}, NEW r \in 0..MaxRetries,
         IssueRestore(source, next, m, r)
  PROVE  /\ Range(writes') = Range(writes) \cup
              {[op |-> "restore", mode |-> m, gen |-> gen + 1, next |-> next,
                retry |-> r]}
         /\ Len(writes') = Len(writes) + 1 /\ writes' # <<>>
  <1>1. [op |-> "restore", mode |-> m, gen |-> gen + 1, next |-> next,
         retry |-> r] \in Write
    BY DEF TypeOK, Write, MaxRetries
  <1> QED
    BY <1>1, RangeAppend DEF TypeOK, IssueRestore

\* Hold SoC joins them with the generation it found.
LEMMA HoldIssued ==
  ASSUME TypeOK, HoldCommand
  PROVE  /\ Range(writes') = Range(writes) \cup
              {[op |-> "hold", mode |-> "hold", gen |-> gen, next |-> "none",
                retry |-> 0]}
         /\ Len(writes') = Len(writes) + 1 /\ writes' # <<>>
         /\ \E w \in Range(writes') : w.op = "hold"
  <1> DEFINE w == [op |-> "hold", mode |-> "hold", gen |-> gen,
                   next |-> "none", retry |-> 0]
  <1>1. w \in Write
    BY DEF TypeOK, Write, Modes, MaxRetries
  <1>2. w.op = "hold"
    OBVIOUS
  <1>3. writes' = Append(writes, w) /\ writes \in Seq(Write)
    BY DEF TypeOK, HoldCommand
  <1>4. /\ Range(writes') = Range(writes) \cup {w}
        /\ Len(writes') = Len(writes) + 1 /\ writes' # <<>>
    <2> HIDE DEF w
    <2> QED
      BY <1>1, <1>3, RangeAppend
  <1>5. w \in Range(writes')
    BY <1>4
  <1> QED
    BY <1>2, <1>4, <1>5

\* A completed write leaves the others, and only them, waiting.
LEMMA Completed ==
  ASSUME TypeOK, NEW i \in DOMAIN writes, writes' = RemoveAt(writes, i)
  PROVE  /\ writes[i] \in Write /\ writes[i] \in Range(writes)
         /\ writes # <<>> /\ Len(writes') = Len(writes) - 1
         /\ Range(writes') \subseteq Range(writes)
         /\ Range(writes) \subseteq Range(writes') \cup {writes[i]}
  BY RangeRemove, LenProperties, EmptySeq DEF TypeOK

\* The store serves the handler that waits longest.
LEMMA SaveServed ==
  ASSUME TypeOK, saves # <<>>
  PROVE  /\ Head(saves) \in Save /\ Tail(saves) \in Seq(Save)
         /\ Range(saves) = {Head(saves)} \cup Range(Tail(saves))
  BY RangeTail DEF TypeOK

\* A handler that will save joins the others.
LEMMA SaveQueued ==
  ASSUME NEW q \in Seq(Save), NEW s \in Save
  PROVE  /\ Range(Append(q, s)) = Range(q) \cup {s} /\ Append(q, s) # <<>>
  BY RangeAppend

\* While Home Assistant is down nothing is pending.
LEMMA DownStep ==
  ASSUME TypeOK, DownIsEmpty, [Next]_vars
  PROVE  DownIsEmpty'
  <1> USE DEF DownIsEmpty
  <1>1. ASSUME NEW m \in ForceModes, ForceCommand(m)
       PROVE  DownIsEmpty'
    BY <1>1
       DEF ForceCommand, Admitted
  <1>2. CASE RestoreCommand
    BY <1>2
       DEF RestoreCommand, Admitted
  <1>3. CASE HoldCommand
    BY <1>3
       DEF HoldCommand, Admitted
  <1>4. CASE SelfCommand
    BY <1>4
       DEF SelfCommand, Admitted
  <1>5. ASSUME NEW i \in DOMAIN writes, ForceWritten(i)
       PROVE  DownIsEmpty'
    BY <1>5
       DEF ForceWritten
  <1>6. ASSUME NEW i \in DOMAIN writes, ForceNotWritten(i)
       PROVE  DownIsEmpty'
    BY <1>6
       DEF ForceNotWritten
  <1>7. ASSUME NEW i \in DOMAIN writes, HoldWritten(i)
       PROVE  DownIsEmpty'
    BY <1>7
       DEF HoldWritten
  <1>8. ASSUME NEW i \in DOMAIN writes, HoldNotWritten(i)
       PROVE  DownIsEmpty'
    BY <1>8
       DEF HoldNotWritten
  <1>9. ASSUME NEW i \in DOMAIN writes, SelfWriteCompletes(i)
       PROVE  DownIsEmpty'
    BY <1>9
       DEF SelfWriteCompletes
  <1>10. ASSUME NEW i \in DOMAIN writes, RestoreConfirmed(i)
        PROVE  DownIsEmpty'
    BY <1>10
       DEF RestoreConfirmed
  <1>11. ASSUME NEW i \in DOMAIN writes, RestoreSuperseded(i)
        PROVE  DownIsEmpty'
    BY <1>11
       DEF RestoreSuperseded
  <1>12. ASSUME NEW i \in DOMAIN writes, RestoreSwallowed(i)
        PROVE  DownIsEmpty'
    BY <1>12
       DEF RestoreSwallowed
  <1>13. ASSUME NEW i \in DOMAIN writes, RestoreRefused(i)
        PROVE  DownIsEmpty'
    BY <1>13
       DEF RestoreRefused
  <1>14. CASE SaveCompletes
    BY <1>14
       DEF SaveCompletes
  <1>15. ASSUME NEW m \in Modes, BecomesDue(m)
        PROVE  DownIsEmpty'
    BY <1>15
       DEF BecomesDue, NoTimers
  <1>16. ASSUME NEW t \in loose, ExpiryRestores(t)
        PROVE  DownIsEmpty'
    BY <1>16
       DEF ExpiryRestores
  <1>17. ASSUME NEW t \in loose, ExpirySkipped(t)
        PROVE  DownIsEmpty'
    BY <1>17, EmptySeq
       DEF ExpirySkipped
  <1>18. CASE Restart
    BY <1>18, EmptySeq
       DEF Restart
  <1>19. CASE NothingToResume
    BY <1>19, EmptySeq
       DEF NothingToResume, memory
  <1>20. CASE ResumeTimer
    BY <1>20, EmptySeq
       DEF ResumeTimer, Populated
  <1>21. CASE ResumeForce
    BY <1>21, EmptySeq, RangeOne
       DEF ResumeForce, Populated
  <1>22. CASE ResumeExpired
    BY <1>22, EmptySeq, RangeOne
       DEF ResumeExpired, Populated
  <1>23. CASE UNCHANGED vars
    BY <1>23, EmptySeq
       DEF vars, memory
  <1> QED
    BY <1>1, <1>2, <1>3, <1>4, <1>5, <1>6, <1>7, <1>8, <1>9, <1>10, <1>11,
       <1>12, <1>13, <1>14, <1>15, <1>16, <1>17, <1>18, <1>19, <1>20, <1>21,
       <1>22, <1>23
       DEF Next, Command, WriteCompletes, CallbackRuns, Resume

\* One command at a time: it finds nothing waiting.
LEMMA IdleCommand ==
  ASSUME TypeOK, MaxInFlight = 1, NEW c, Admitted(c)
  PROVE  /\ writes = <<>> /\ Range(writes) = {} /\ Len(writes) = 0
         /\ saves = <<>> /\ Range(saves) = {}
  <1>1. Len(writes) \in Nat /\ Len(saves) \in Nat
    BY RangeShort DEF TypeOK
  <1>2. Len(writes) = 0 /\ Len(saves) = 0
    BY <1>1 DEF Admitted
  <1>3. writes \in Seq(Write) /\ saves \in Seq(Save)
    BY DEF TypeOK
  <1>4. writes = <<>> /\ Range(writes) = {}
    BY <1>2, <1>3, RangeShort
  <1>5. saves = <<>> /\ Range(saves) = {}
    BY <1>2, <1>3, RangeShort
  <1> QED
    BY <1>2, <1>4, <1>5

\* What a restore adds to the queue.
RestoreJoins(next) ==
  \E w \in Write :
    /\ w.op = "restore" /\ w.gen = gen + 1 /\ w.next = next
    /\ Range(writes') = Range(writes) \cup {w}
    /\ writes' = Append(writes, w) /\ Len(writes') = Len(writes) + 1

\* Every issued restore joins.
LEMMA RestoreIsJoining ==
  ASSUME TypeOK, NEW source, NEW next \in {"none", "self", "cleanup"},
         NEW m \in Modes \cup {"none"}, NEW r \in 0..MaxRetries,
         IssueRestore(source, next, m, r)
  PROVE  RestoreJoins(next)
  <1> DEFINE w == [op |-> "restore", mode |-> m, gen |-> gen + 1,
                   next |-> next, retry |-> r]
  <1>1. w \in Write /\ w.op = "restore" /\ w.gen = gen + 1 /\ w.next = next
    BY DEF TypeOK, Write, MaxRetries
  <1>2. writes' = Append(writes, w)
    BY DEF IssueRestore
  <1>3. writes \in Seq(Write)
    BY DEF TypeOK
  <1> HIDE DEF w
  <1>4. /\ Range(writes') = Range(writes) \cup {w}
        /\ Len(writes') = Len(writes) + 1
    BY <1>1, <1>2, <1>3, RangeAppend
  <1> QED
    BY <1>1, <1>2, <1>4 DEF RestoreJoins

\* The restore service.
LEMMA RestoreCommandJoins ==
  ASSUME TypeOK, RestoreCommand
  PROVE  RestoreJoins("none") /\ IssueRestore("user", "none", "none", 0)
  <1>1. IssueRestore("user", "none", "none", 0) /\ 0 \in 0..MaxRetries
    BY DEF RestoreCommand, MaxRetries
  <1> QED
    BY <1>1, RestoreIsJoining

\* Self consumption restores an active mode first, or engages at once.
LEMMA SelfCommandJoins ==
  ASSUME TypeOK, SelfCommand
  PROVE  \/ /\ RestoreJoins("self") /\ IssueRestore("user", "self", "none", 0)
            /\ want' = "self" /\ UNCHANGED saves
         \/ Engage(saves) /\ UNCHANGED writes
  <1>1. 0 \in 0..MaxRetries
    BY DEF MaxRetries
  <1> QED
    BY <1>1, RestoreIsJoining DEF SelfCommand

\* The expiry of a session, or another cleanup attempt.
LEMMA ExpiryJoins ==
  ASSUME TypeOK, NEW t \in loose, ExpiryRestores(t)
  PROVE  /\ \/ t.retry = 0 /\ RestoreJoins("none")
               /\ IssueRestore(ExpirySource(t.mode), "none", "none", 0)
            \/ t.retry # 0 /\ RestoreJoins("cleanup")
               /\ IssueRestore("force_timer", "cleanup", t.mode, t.retry)
  <1>1. /\ 0 \in 0..MaxRetries /\ t.retry \in 0..MaxRetries /\ t.mode \in Modes
    BY DEF TypeOK, Due, MaxRetries
  <1> QED
    BY <1>1, RestoreIsJoining DEF ExpiryRestores

\* The flags are Booleans and the queues are queues.
LEMMA Shapes ==
  ASSUME TypeOK
  PROVE  /\ active \in [Modes -> BOOLEAN] /\ timed \in [Modes -> BOOLEAN]
         /\ armed \in [Modes -> Timer] /\ gen \in Nat
         /\ writes \in Seq(Write) /\ saves \in Seq(Save)
         /\ Range(writes) \subseteq Write /\ Range(saves) \subseteq Save
         /\ Range(<<>>) = {} /\ disk \in Session /\ loose \subseteq Due
  <1>1. /\ active \in [Modes -> BOOLEAN] /\ timed \in [Modes -> BOOLEAN]
        /\ armed \in [Modes -> Timer] /\ gen \in Nat
        /\ writes \in Seq(Write) /\ saves \in Seq(Save)
        /\ disk \in Session /\ loose \subseteq Due
    BY DEF TypeOK
  <1>2. Range(writes) \subseteq Write /\ Range(saves) \subseteq Save
    BY <1>1, RangeShort
  <1>3. Range(<<>>) = {}
    BY DEF Range
  <1> QED
    BY <1>1, <1>2, <1>3

-----------------------------------------------------------------------------
(* Mutual exclusion                                                        *)

\* A force command is on its way to the inverter.
ForceQueued(m) == \E w \in Range(writes) : w.op = "force" /\ w.mode = m

\* MutualExclusion as it is kept: a force command on its way excludes the
\* opposite mode as well, on or on its way.
ExclusionFacts ==
  /\ MutualExclusion
  /\ \A m \in ForceModes :
       ForceQueued(m) => ~active[Other(m)] /\ ~ForceQueued(Other(m))

\* It is kept by what switches no force mode on and queues no force command.
LEMMA ExclusionFrame ==
  ASSUME ExclusionFacts,
         \A m \in ForceModes : active'[m] => active[m],
         \A w \in Range(writes') : w.op = "force" => w \in Range(writes)
  PROVE  ExclusionFacts'
  BY DEF ExclusionFacts, MutualExclusion, ForceQueued, ForceModes, Other

\* The store's answer switches on self consumption at most, and queues
\* nothing but its write.
LEMMA SaveJoins ==
  ASSUME TypeOK, SaveCompletes
  PROVE  /\ active' = active \/ active' = [active EXCEPT !["self"] = TRUE]
         /\ \A w \in Range(writes') :
              w.op = "self" \/ w \in Range(writes)
  <1> DEFINE w == [op |-> "self", mode |-> "self", gen |-> gen,
                   next |-> "none", retry |-> 0]
  <1>1. active' = active \/ active' = [active EXCEPT !["self"] = TRUE]
    BY DEF SaveCompletes, AfterReturn, Engage
  <1>2. w \in Write /\ w.op = "self"
    BY Shapes DEF Write, Modes, MaxRetries
  <1>3. writes' = writes \/ writes' = Append(writes, w)
    BY DEF SaveCompletes
  <1> HIDE DEF w
  <1>4. Range(Append(writes, w)) = Range(writes) \cup {w}
    BY <1>2, Shapes, RangeAppend
  <1> QED
    BY <1>1, <1>2, <1>3, <1>4

\* Every step keeps it: a force command finds an empty queue and drops the
\* opposite mode, and a restart resumes the one session on disk.
LEMMA ExclusionStep ==
  ASSUME MaxInFlight = 1, TypeOK, DownIsEmpty, ExclusionFacts, [Next]_vars
  PROVE  ExclusionFacts'
  <1>1. ASSUME NEW m \in ForceModes, ForceCommand(m)
       PROVE  ExclusionFacts'
    <2>1. Range(writes) = {} /\ IssueForce(m, "none")
      BY <1>1, IdleCommand DEF ForceCommand
    <2>2. \A w \in Range(writes') : w.op = "force" /\ w.mode = m
      BY <2>1, ForceIssued
    <2>3. ~active'[Other(m)]
      BY <2>1, Shapes DEF IssueForce, Other, ForceModes, Modes
    <2> QED
      BY <2>2, <2>3
         DEF ExclusionFacts, MutualExclusion, ForceQueued, ForceModes, Other
  <1>2. CASE RestoreCommand
    <2>1. \A m \in ForceModes : active'[m] => active[m]
      BY <1>2, Shapes, RestoreCommandJoins
         DEF IssueRestore, RestoreJoins, ForceModes, Modes
    <2>2. \A w \in Range(writes') : w.op = "force" => w \in Range(writes)
      BY <1>2, Shapes, RestoreCommandJoins DEF IssueRestore, RestoreJoins
    <2> QED
      BY <2>1, <2>2, ExclusionFrame
  <1>3. CASE HoldCommand
    <2>1. \A m \in ForceModes : active'[m] => active[m]
      BY <1>3, Shapes, HoldIssued DEF HoldCommand, ForceModes, Modes
    <2>2. \A w \in Range(writes') : w.op = "force" => w \in Range(writes)
      BY <1>3, Shapes, HoldIssued DEF HoldCommand
    <2> QED
      BY <2>1, <2>2, ExclusionFrame
  <1>4. CASE SelfCommand
    <2>1. \A m \in ForceModes : active'[m] => active[m]
      BY <1>4, Shapes, SelfCommandJoins
         DEF IssueRestore, RestoreJoins, Engage, ForceModes, Modes
    <2>2. \A w \in Range(writes') : w.op = "force" => w \in Range(writes)
      BY <1>4, Shapes, SelfCommandJoins DEF IssueRestore, RestoreJoins, Engage
    <2> QED
      BY <2>1, <2>2, ExclusionFrame
  <1>5. ASSUME NEW i \in DOMAIN writes, ForceWritten(i)
       PROVE  ExclusionFacts'
    <2>1. PICK m \in ForceModes : m = writes[i].mode /\ ForceQueued(m)
      BY <1>5, Completed DEF ForceWritten, Write, ForceQueued
    <2>2. active' = [active EXCEPT ![m] = TRUE] /\ Range(writes') \subseteq Range(writes)
      BY <1>5, <2>1, Completed DEF ForceWritten
    <2> QED
      BY <2>1, <2>2, Shapes
         DEF ExclusionFacts, MutualExclusion, ForceQueued, ForceModes, Modes,
            Other
  <1>6. ASSUME NEW i \in DOMAIN writes, ForceNotWritten(i)
       PROVE  ExclusionFacts'
    <2>1. \A m \in ForceModes : active'[m] => active[m]
      BY <1>6, Shapes, Completed DEF ForceNotWritten, ForceModes, Modes
    <2>2. \A w \in Range(writes') : w.op = "force" => w \in Range(writes)
      BY <1>6, Shapes, Completed DEF ForceNotWritten
    <2> QED
      BY <2>1, <2>2, ExclusionFrame
  <1>7. ASSUME NEW i \in DOMAIN writes, HoldWritten(i)
       PROVE  ExclusionFacts'
    <2>1. \A m \in ForceModes : active'[m] => active[m]
      BY <1>7, Shapes, Completed DEF HoldWritten, ForceModes, Modes
    <2>2. \A w \in Range(writes') : w.op = "force" => w \in Range(writes)
      BY <1>7, Shapes, Completed DEF HoldWritten
    <2> QED
      BY <2>1, <2>2, ExclusionFrame
  <1>8. ASSUME NEW i \in DOMAIN writes, HoldNotWritten(i)
       PROVE  ExclusionFacts'
    <2>1. \A m \in ForceModes : active'[m] => active[m]
      BY <1>8, Shapes, Completed DEF HoldNotWritten, ForceModes, Modes
    <2>2. \A w \in Range(writes') : w.op = "force" => w \in Range(writes)
      BY <1>8, Shapes, Completed DEF HoldNotWritten
    <2> QED
      BY <2>1, <2>2, ExclusionFrame
  <1>9. ASSUME NEW i \in DOMAIN writes, SelfWriteCompletes(i)
       PROVE  ExclusionFacts'
    <2>1. \A m \in ForceModes : active'[m] => active[m]
      BY <1>9, Shapes, Completed DEF SelfWriteCompletes, ForceModes, Modes
    <2>2. \A w \in Range(writes') : w.op = "force" => w \in Range(writes)
      BY <1>9, Shapes, Completed DEF SelfWriteCompletes
    <2> QED
      BY <2>1, <2>2, ExclusionFrame
  <1>10. ASSUME NEW i \in DOMAIN writes, RestoreConfirmed(i)
        PROVE  ExclusionFacts'
    <2>1. \A m \in ForceModes : active'[m] => active[m]
      BY <1>10, Shapes, Completed DEF RestoreConfirmed, ForceModes, Modes
    <2>2. \A w \in Range(writes') : w.op = "force" => w \in Range(writes)
      BY <1>10, Shapes, Completed DEF RestoreConfirmed
    <2> QED
      BY <2>1, <2>2, ExclusionFrame
  <1>11. ASSUME NEW i \in DOMAIN writes, RestoreSuperseded(i)
        PROVE  ExclusionFacts'
    <2>1. \A m \in ForceModes : active'[m] => active[m]
      BY <1>11, Shapes, Completed
         DEF RestoreSuperseded, AfterReturn, Engage, ForceModes, Modes
    <2>2. \A w \in Range(writes') : w.op = "force" => w \in Range(writes)
      BY <1>11, Shapes, Completed DEF RestoreSuperseded, AfterReturn, Engage
    <2> QED
      BY <2>1, <2>2, ExclusionFrame
  <1>12. ASSUME NEW i \in DOMAIN writes, RestoreSwallowed(i)
        PROVE  ExclusionFacts'
    <2>1. \A m \in ForceModes : active'[m] => active[m]
      BY <1>12, Shapes, Completed
         DEF RestoreSwallowed, AfterReturn, Engage, ForceModes, Modes
    <2>2. \A w \in Range(writes') : w.op = "force" => w \in Range(writes)
      BY <1>12, Shapes, Completed DEF RestoreSwallowed, AfterReturn, Engage
    <2> QED
      BY <2>1, <2>2, ExclusionFrame
  <1>13. ASSUME NEW i \in DOMAIN writes, RestoreRefused(i)
        PROVE  ExclusionFacts'
    <2>1. \A m \in ForceModes : active'[m] => active[m]
      BY <1>13, Shapes, Completed DEF RestoreRefused, ForceModes, Modes
    <2>2. \A w \in Range(writes') : w.op = "force" => w \in Range(writes)
      BY <1>13, Shapes, Completed DEF RestoreRefused
    <2> QED
      BY <2>1, <2>2, ExclusionFrame
  <1>14. CASE SaveCompletes
    <2>1. \A m \in ForceModes : active'[m] => active[m]
      BY <1>14, Shapes, SaveJoins DEF ForceModes, ForceModes, Modes
    <2>2. \A w \in Range(writes') : w.op = "force" => w \in Range(writes)
      BY <1>14, Shapes, SaveJoins DEF ForceModes
    <2> QED
      BY <2>1, <2>2, ExclusionFrame
  <1>15. ASSUME NEW m \in Modes, BecomesDue(m)
        PROVE  ExclusionFacts'
    <2>1. \A k \in ForceModes : active'[k] => active[k]
      BY <1>15, Shapes DEF BecomesDue, ForceModes, Modes
    <2>2. \A w \in Range(writes') : w.op = "force" => w \in Range(writes)
      BY <1>15, Shapes DEF BecomesDue
    <2> QED
      BY <2>1, <2>2, ExclusionFrame
  <1>16. ASSUME NEW t \in loose, ExpiryRestores(t)
        PROVE  ExclusionFacts'
    <2>1. \A m \in ForceModes : active'[m] => active[m]
      BY <1>16, Shapes, ExpiryJoins
         DEF IssueRestore, RestoreJoins, ForceModes, Modes
    <2>2. \A w \in Range(writes') : w.op = "force" => w \in Range(writes)
      BY <1>16, Shapes, ExpiryJoins DEF IssueRestore, RestoreJoins
    <2> QED
      BY <2>1, <2>2, ExclusionFrame
  <1>17. ASSUME NEW t \in loose, ExpirySkipped(t)
        PROVE  ExclusionFacts'
    <2>1. \A m \in ForceModes : active'[m] => active[m]
      BY <1>17, Shapes DEF ExpirySkipped, ForceModes, Modes
    <2>2. \A w \in Range(writes') : w.op = "force" => w \in Range(writes)
      BY <1>17, Shapes DEF ExpirySkipped
    <2> QED
      BY <2>1, <2>2, ExclusionFrame
  <1>18. CASE Restart
    <2>1. \A m \in ForceModes : active'[m] => active[m]
      BY <1>18, Shapes DEF Restart, ForceModes, Modes
    <2>2. \A w \in Range(writes') : w.op = "force" => w \in Range(writes)
      BY <1>18, Shapes DEF Restart
    <2> QED
      BY <2>1, <2>2, ExclusionFrame
  <1>19. CASE NothingToResume
    <2>1. \A m \in ForceModes : active'[m] => active[m]
      BY <1>19, Shapes DEF NothingToResume, memory, ForceModes, Modes
    <2>2. \A w \in Range(writes') : w.op = "force" => w \in Range(writes)
      BY <1>19, Shapes DEF NothingToResume, memory
    <2> QED
      BY <2>1, <2>2, ExclusionFrame
  <1>20. CASE ResumeTimer
    <2>1. \A m \in Modes : ~active[m]
      BY <1>20 DEF ResumeTimer, DownIsEmpty
    <2>2. \A m \in ForceModes : active'[m] => m = disk.mode
      BY <1>20, <2>1, Shapes DEF ResumeTimer, Populated, ForceModes, Modes
    <2>3. \A w \in Range(writes') : w.op = "force" => w.mode = disk.mode
      BY <1>20, Shapes, RangeOne DEF ResumeTimer, DownIsEmpty
    <2> QED
      BY <2>2, <2>3
         DEF ExclusionFacts, MutualExclusion, ForceQueued, ForceModes, Other
  <1>21. CASE ResumeForce
    <2>1. \A m \in Modes : ~active[m]
      BY <1>21 DEF ResumeForce, DownIsEmpty
    <2>2. \A m \in ForceModes : active'[m] => m = disk.mode
      BY <1>21, <2>1, Shapes DEF ResumeForce, Populated, ForceModes, Modes
    <2>3. \A w \in Range(writes') : w.op = "force" => w.mode = disk.mode
      BY <1>21, Shapes, RangeOne DEF ResumeForce, DownIsEmpty
    <2> QED
      BY <2>2, <2>3
         DEF ExclusionFacts, MutualExclusion, ForceQueued, ForceModes, Other
  <1>22. CASE ResumeExpired
    <2>1. \A m \in Modes : ~active[m]
      BY <1>22 DEF ResumeExpired, DownIsEmpty
    <2>2. \A m \in ForceModes : active'[m] => m = disk.mode
      BY <1>22, <2>1, Shapes DEF ResumeExpired, Populated, ForceModes, Modes
    <2>3. \A w \in Range(writes') : w.op = "force" => w.mode = disk.mode
      BY <1>22, Shapes, RangeOne DEF ResumeExpired, DownIsEmpty
    <2> QED
      BY <2>2, <2>3
         DEF ExclusionFacts, MutualExclusion, ForceQueued, ForceModes, Other
  <1>23. CASE UNCHANGED vars
    <2>1. \A m \in ForceModes : active'[m] => active[m]
      BY <1>23, Shapes DEF vars, memory, ForceModes, Modes
    <2>2. \A w \in Range(writes') : w.op = "force" => w \in Range(writes)
      BY <1>23, Shapes DEF vars, memory
    <2> QED
      BY <2>1, <2>2, ExclusionFrame
  <1> QED
    BY <1>1, <1>2, <1>3, <1>4, <1>5, <1>6, <1>7, <1>8, <1>9, <1>10, <1>11,
       <1>12, <1>13, <1>14, <1>15, <1>16, <1>17, <1>18, <1>19, <1>20, <1>21,
       <1>22, <1>23
       DEF Next, Command, WriteCompletes, CallbackRuns, Resume

\* Whatever the commands, the outcomes, the order of the answers and the
\* restarts, if a user command finds no handler at work then charge and
\* discharge are never on together (__init__.py:33288 and 35082).
THEOREM ForceModesExclude ==
  ASSUME MaxInFlight = 1
  PROVE  Spec => []MutualExclusion
  <1>1. Init => DownIsEmpty /\ ExclusionFacts
    <2>1. ASSUME Init
          PROVE  \A m \in Modes : ~active[m]
      BY <2>1 DEF Init
    <2>2. ASSUME Init
          PROVE  Range(writes) = {}
      BY <2>2 DEF Init, Range
    <2> QED
      BY <2>1, <2>2
         DEF Init, DownIsEmpty, ExclusionFacts, MutualExclusion, ForceQueued,
             ForceModes, Modes
  <1>2. TypeOK /\ DownIsEmpty /\ ExclusionFacts /\ [Next]_vars
          => (DownIsEmpty /\ ExclusionFacts)'
    BY DownStep, ExclusionStep
  <1>3. ExclusionFacts => MutualExclusion
    BY DEF ExclusionFacts
  <1> QED
    BY <1>1, <1>2, <1>3, TypeCorrect, PTL DEF Spec

-----------------------------------------------------------------------------
(* The handlers that wait for the store, as a set.                         *)

\* Self consumption saves before it writes.
LEMMA EngageJoins ==
  ASSUME NEW before \in Seq(Save), Engage(before)
  PROVE  /\ Range(saves') = Range(before) \cup {Saving("selfwrite", "none", 0)}
         /\ saves' # <<>>
  <1>1. Saving("selfwrite", "none", 0) \in Save
    BY DEF Saving, Save, MaxRetries
  <1> QED
    BY <1>1, SaveQueued DEF Engage

\* What AfterReturn adds.
LEMMA ReturnJoins ==
  ASSUME NEW next, NEW m, NEW r, NEW before \in Seq(Save),
         AfterReturn(next, m, r, before)
  PROVE  /\ next = "self" =>
              Range(saves') = Range(before) \cup {Saving("selfwrite", "none", 0)}
         /\ next = "cleanup" =>
              Range(saves') \in {Range(before),
                                 Range(before) \cup {Saving("clear", "none", 0)}}
         /\ next \notin {"self", "cleanup"} => saves' = before
         /\ before # <<>> \/ next = "self" => saves' # <<>>
  <1>1. Saving("clear", "none", 0) \in Save
    BY DEF Saving, Save, MaxRetries
  <1>2. CASE next = "self"
    BY <1>2, EngageJoins DEF AfterReturn
  <1>3. CASE next # "self"
    BY <1>1, <1>3, SaveQueued DEF AfterReturn
  <1> QED
    BY <1>2, <1>3

\* A force mode that went through will be saved.
LEMMA ForceWrittenSaves ==
  ASSUME TypeOK, NEW i \in DOMAIN writes, ForceWritten(i)
  PROVE  /\ Range(saves') = Range(saves) \cup
              {Saving(writes[i].next, writes[i].mode, 0)}
         /\ saves' # <<>> /\ writes[i].mode \in ForceModes
         /\ writes[i].next \in {"none", "replay"}
  <1>1. /\ Saving(writes[i].next, writes[i].mode, 0) \in Save
        /\ writes[i].mode \in ForceModes /\ writes[i].next \in {"none", "replay"}
    BY Completed
       DEF ForceWritten, Write, Saving, Save, Modes, ForceModes, MaxRetries
  <1> QED
    BY <1>1, SaveQueued, Shapes DEF ForceWritten

\* So will hold SoC.
LEMMA HoldWrittenSaves ==
  ASSUME TypeOK, NEW i \in DOMAIN writes, HoldWritten(i)
  PROVE  /\ Range(saves') = Range(saves) \cup {Saving("none", "hold", 0)}
         /\ saves' # <<>>
  <1>1. Saving("none", "hold", 0) \in Save
    BY DEF Saving, Save, Modes, MaxRetries
  <1> QED
    BY <1>1, SaveQueued, Shapes DEF HoldWritten

\* And so will a confirmed restore, for its caller.
LEMMA RestoreConfirmedSaves ==
  ASSUME TypeOK, NEW i \in DOMAIN writes, RestoreConfirmed(i)
  PROVE  /\ Range(saves') = Range(saves) \cup
              {Saving(writes[i].next, writes[i].mode, writes[i].retry)}
         /\ saves' # <<>> /\ writes[i].next \in {"none", "self", "cleanup"}
  <1>1. /\ Saving(writes[i].next, writes[i].mode, writes[i].retry) \in Save
        /\ writes[i].next \in {"none", "self", "cleanup"}
    BY Completed DEF RestoreConfirmed, Write, Saving, Save
  <1> QED
    BY <1>1, SaveQueued, Shapes DEF RestoreConfirmed

\* A skipped callback changes nothing, or drops a stale hold and saves.
LEMMA SkippedSaves ==
  ASSUME TypeOK, NEW t \in loose, ExpirySkipped(t)
  PROVE  \/ UNCHANGED <<active, timed, armed, saves>>
         \/ /\ Range(saves') = Range(saves) \cup {Saving("none", "hold", 0)}
            /\ saves' # <<>> /\ armed' = [armed EXCEPT !["hold"] = NoTimer]
            /\ active' = [active EXCEPT !["hold"] = FALSE]
            /\ timed' = [timed EXCEPT !["hold"] = FALSE]
  <1> DEFINE stale == t.gen # gen /\ t.mode = "hold" /\ ~t.restored
  <1>1. Saving("none", "hold", 0) \in Save
    BY DEF Saving, Save, Modes, MaxRetries
  <1>2. CASE stale
    BY <1>1, <1>2, SaveQueued, Shapes DEF ExpirySkipped
  <1>3. CASE ~stale
    BY <1>3, Shapes DEF ExpirySkipped, Modes
  <1> QED
    BY <1>2, <1>3

-----------------------------------------------------------------------------
(* The record on disk                                                      *)

\* What DiskMatchesMemory asks for.
Matches ==
  /\ disk.timed => disk.mode \in Running
  /\ Running # {} => disk.timed
  /\ Running \cap ForceModes # {} => disk.mode \in ForceModes

\* A handler that will write the record before it is done.
WillSave ==
  \/ saves # <<>>
  \/ \E w \in Range(writes) :
       w.op \in {"force", "hold"} \/ (w.op = "restore" /\ w.gen = gen)

\* Only a force mode whose write is still on its way is on without an expiry.
UntimedIsForced ==
  \A m \in Modes :
    active[m] /\ ~timed[m] => m \in ForceModes /\ ForceQueued(m)

\* Nothing is left from before a restart.
NoRecovery ==
  /\ \A w \in Range(writes) : w.next \in {"none", "self"}
  /\ \A s \in Range(saves) : s.then \in {"none", "self", "selfwrite"}
  /\ \A m \in Modes : armed[m] = NoTimer \/ armed[m].retry = 0
  /\ \A t \in loose : t.retry = 0
  /\ ~up => disk = NoSession

\* The fields of a save.
LEMMA SavingFields ==
  ASSUME NEW then, NEW m, NEW r
  PROVE  /\ Saving(then, m, r).then = then /\ Saving(then, m, r).mode = m
         /\ Saving(then, m, r).retry = r
  BY DEF Saving

\* The write of self consumption follows its save.
LEMMA SelfWriteJoins ==
  ASSUME TypeOK, SaveCompletes, Head(saves).then = "selfwrite"
  PROVE  /\ \E w \in Write :
              /\ Range(writes') = Range(writes) \cup {w}
              /\ w.op = "self" /\ w.next = "none" /\ w.gen = gen
         /\ saves' = Tail(saves)
         /\ UNCHANGED <<active, timed, armed, loose, gen, want, up>>
  <1> DEFINE w == [op |-> "self", mode |-> "self", gen |-> gen,
                   next |-> "none", retry |-> 0]
  <1>1. w \in Write /\ w.op = "self" /\ w.next = "none" /\ w.gen = gen
    BY Shapes DEF Write, Modes, MaxRetries
  <1>2. /\ writes' = Append(writes, w) /\ saves' = Tail(saves)
        /\ UNCHANGED <<active, timed, armed, loose, gen, want, up>>
    BY DEF SaveCompletes
  <1> HIDE DEF w
  <1>3. Range(Append(writes, w)) = Range(writes) \cup {w}
    BY <1>1, Shapes, RangeAppend
  <1> QED
    BY <1>1, <1>2, <1>3

\* Without a restart, and without a refused write, no step brings a recovery
\* back.
LEMMA RecoveryStep ==
  ASSUME Outcomes = {"ok"}, ~CanRestart, TypeOK, DownIsEmpty,
         NoRecovery, [Next]_vars
  PROVE  NoRecovery'
  <1>1. ASSUME NEW m \in ForceModes, ForceCommand(m)
       PROVE  NoRecovery'
    <2>0. IssueForce(m, "none")
      BY <1>1 DEF ForceCommand
    <2>1. \A w \in Range(writes') : w.next \in {"none", "self"}
      BY <1>1, <2>0, ForceIssued
         DEF NoRecovery, ForceCommand
    <2>2. \A s \in Range(saves') : s.then \in {"none", "self", "selfwrite"}
      BY <1>1, Shapes
         DEF NoRecovery, ForceCommand
    <2>3. \A k \in Modes : armed'[k] = NoTimer \/ armed'[k].retry = 0
      BY <1>1, Shapes
         DEF NoRecovery, ForceCommand, IssueForce, NoTimers
    <2>4. (\A t \in loose' : t.retry = 0) /\ (~up' => disk' = NoSession)
      BY <1>1, Shapes
         DEF NoRecovery, ForceCommand, Admitted
    <2> QED
      BY <2>1, <2>2, <2>3, <2>4 DEF NoRecovery
  <1>2. CASE RestoreCommand
    <2>1. \A w \in Range(writes') : w.next \in {"none", "self"}
      BY <1>2, RestoreCommandJoins
         DEF NoRecovery, RestoreCommand, RestoreJoins
    <2>2. \A s \in Range(saves') : s.then \in {"none", "self", "selfwrite"}
      BY <1>2, Shapes
         DEF NoRecovery, RestoreCommand
    <2>3. \A m \in Modes : armed'[m] = NoTimer \/ armed'[m].retry = 0
      BY <1>2, Shapes
         DEF NoRecovery, RestoreCommand, IssueRestore, NoTimers
    <2>4. (\A t \in loose' : t.retry = 0) /\ (~up' => disk' = NoSession)
      BY <1>2, Shapes
         DEF NoRecovery, RestoreCommand, Admitted
    <2> QED
      BY <2>1, <2>2, <2>3, <2>4 DEF NoRecovery
  <1>3. CASE HoldCommand
    <2>1. \A w \in Range(writes') : w.next \in {"none", "self"}
      BY <1>3, HoldIssued
         DEF NoRecovery, HoldCommand
    <2>2. \A s \in Range(saves') : s.then \in {"none", "self", "selfwrite"}
      BY <1>3, Shapes
         DEF NoRecovery, HoldCommand
    <2>3. \A m \in Modes : armed'[m] = NoTimer \/ armed'[m].retry = 0
      BY <1>3, Shapes
         DEF NoRecovery, HoldCommand, NoTimers
    <2>4. (\A t \in loose' : t.retry = 0) /\ (~up' => disk' = NoSession)
      BY <1>3, Shapes
         DEF NoRecovery, HoldCommand, Admitted
    <2> QED
      BY <2>1, <2>2, <2>3, <2>4 DEF NoRecovery
  <1>4. CASE SelfCommand
    <2>1. \A w \in Range(writes') : w.next \in {"none", "self"}
      BY <1>4, SelfCommandJoins
         DEF NoRecovery, SelfCommand, RestoreJoins
    <2>2. \A s \in Range(saves') : s.then \in {"none", "self", "selfwrite"}
      BY <1>4, Shapes, SelfCommandJoins, EngageJoins
         DEF NoRecovery, SelfCommand, Saving
    <2>3. \A m \in Modes : armed'[m] = NoTimer \/ armed'[m].retry = 0
      BY <1>4, Shapes
         DEF NoRecovery, SelfCommand, IssueRestore, NoTimers, Engage, Fresh
    <2>4. (\A t \in loose' : t.retry = 0) /\ (~up' => disk' = NoSession)
      BY <1>4, Shapes
         DEF NoRecovery, SelfCommand, Admitted
    <2> QED
      BY <2>1, <2>2, <2>3, <2>4 DEF NoRecovery
  <1>5. ASSUME NEW i \in DOMAIN writes, ForceWritten(i)
       PROVE  NoRecovery'
    <2>0. writes[i].next = "none"
      BY <1>5, Completed, ForceWrittenSaves DEF ForceWritten, NoRecovery
    <2>1. \A w \in Range(writes') : w.next \in {"none", "self"}
      BY <1>5, Completed
         DEF NoRecovery, ForceWritten
    <2>2. \A s \in Range(saves') : s.then \in {"none", "self", "selfwrite"}
      BY <1>5, <2>0, ForceWrittenSaves, SavingFields
         DEF NoRecovery
    <2>3. \A m \in Modes : armed'[m] = NoTimer \/ armed'[m].retry = 0
      BY <1>5, Shapes
         DEF NoRecovery, ForceWritten, Fresh
    <2>4. (\A t \in loose' : t.retry = 0) /\ (~up' => disk' = NoSession)
      BY <1>5, Shapes
         DEF NoRecovery, ForceWritten
    <2> QED
      BY <2>1, <2>2, <2>3, <2>4 DEF NoRecovery
  <1>6. ASSUME NEW i \in DOMAIN writes, ForceNotWritten(i)
       PROVE  NoRecovery'
    BY <1>6 DEF ForceNotWritten
  <1>7. ASSUME NEW i \in DOMAIN writes, HoldWritten(i)
       PROVE  NoRecovery'
    <2>1. \A w \in Range(writes') : w.next \in {"none", "self"}
      BY <1>7, Completed
         DEF NoRecovery, HoldWritten
    <2>2. \A s \in Range(saves') : s.then \in {"none", "self", "selfwrite"}
      BY <1>7, HoldWrittenSaves
         DEF NoRecovery, HoldWritten, Saving
    <2>3. \A m \in Modes : armed'[m] = NoTimer \/ armed'[m].retry = 0
      BY <1>7, Shapes
         DEF NoRecovery, HoldWritten, Fresh
    <2>4. (\A t \in loose' : t.retry = 0) /\ (~up' => disk' = NoSession)
      BY <1>7, Shapes
         DEF NoRecovery, HoldWritten
    <2> QED
      BY <2>1, <2>2, <2>3, <2>4 DEF NoRecovery
  <1>8. ASSUME NEW i \in DOMAIN writes, HoldNotWritten(i)
       PROVE  NoRecovery'
    BY <1>8 DEF HoldNotWritten
  <1>9. ASSUME NEW i \in DOMAIN writes, SelfWriteCompletes(i)
       PROVE  NoRecovery'
    <2>1. \A w \in Range(writes') : w.next \in {"none", "self"}
      BY <1>9, Completed
         DEF NoRecovery, SelfWriteCompletes
    <2>2. \A s \in Range(saves') : s.then \in {"none", "self", "selfwrite"}
      BY <1>9, Shapes
         DEF NoRecovery, SelfWriteCompletes
    <2>3. \A m \in Modes : armed'[m] = NoTimer \/ armed'[m].retry = 0
      BY <1>9, Shapes
         DEF NoRecovery, SelfWriteCompletes
    <2>4. (\A t \in loose' : t.retry = 0) /\ (~up' => disk' = NoSession)
      BY <1>9, Shapes
         DEF NoRecovery, SelfWriteCompletes
    <2> QED
      BY <2>1, <2>2, <2>3, <2>4 DEF NoRecovery
  <1>10. ASSUME NEW i \in DOMAIN writes, RestoreConfirmed(i)
        PROVE  NoRecovery'
    <2>1. \A w \in Range(writes') : w.next \in {"none", "self"}
      BY <1>10, Completed
         DEF NoRecovery, RestoreConfirmed
    <2>2. \A s \in Range(saves') : s.then \in {"none", "self", "selfwrite"}
      BY <1>10, RestoreConfirmedSaves, Completed
         DEF NoRecovery, RestoreConfirmed, Saving
    <2>3. \A m \in Modes : armed'[m] = NoTimer \/ armed'[m].retry = 0
      BY <1>10, Shapes
         DEF NoRecovery, RestoreConfirmed
    <2>4. (\A t \in loose' : t.retry = 0) /\ (~up' => disk' = NoSession)
      BY <1>10, Shapes
         DEF NoRecovery, RestoreConfirmed
    <2> QED
      BY <2>1, <2>2, <2>3, <2>4 DEF NoRecovery
  <1>11. ASSUME NEW i \in DOMAIN writes, RestoreSuperseded(i)
        PROVE  NoRecovery'
    <2>0. /\ writes[i].next \in {"none", "self"}
          /\ AfterReturn(writes[i].next, writes[i].mode, writes[i].retry, saves)
      BY <1>11, Completed DEF NoRecovery, RestoreSuperseded
    <2>1. \A w \in Range(writes') : w.next \in {"none", "self"}
      BY <1>11, Completed
         DEF NoRecovery, RestoreSuperseded
    <2>2. \A s \in Range(saves') : s.then \in {"none", "self", "selfwrite"}
      BY <1>11, <2>0, Shapes, ReturnJoins
         DEF NoRecovery, RestoreSuperseded, Saving
    <2>3. \A m \in Modes : armed'[m] = NoTimer \/ armed'[m].retry = 0
      BY <1>11, Shapes
         DEF NoRecovery, RestoreSuperseded, AfterReturn, Engage, Fresh,
            NoTimers
    <2>4. (\A t \in loose' : t.retry = 0) /\ (~up' => disk' = NoSession)
      BY <1>11, Shapes
         DEF NoRecovery, RestoreSuperseded
    <2> QED
      BY <2>1, <2>2, <2>3, <2>4 DEF NoRecovery
  <1>12. ASSUME NEW i \in DOMAIN writes, RestoreSwallowed(i)
        PROVE  NoRecovery'
    BY <1>12 DEF RestoreSwallowed
  <1>13. ASSUME NEW i \in DOMAIN writes, RestoreRefused(i)
        PROVE  NoRecovery'
    BY <1>13 DEF RestoreRefused
  <1>14. CASE SaveCompletes
    <2>0. /\ up /\ Head(saves).then \in {"none", "self", "selfwrite"}
          /\ Tail(saves) \in Seq(Save) /\ Range(Tail(saves)) \subseteq Range(saves)
      BY <1>14, SaveServed DEF NoRecovery, DownIsEmpty, SaveCompletes
    <2>1. CASE Head(saves).then = "selfwrite"
      <3>1. /\ \E w : Range(writes') = Range(writes) \cup {w} /\ w.next = "none"
            /\ saves' = Tail(saves)
            /\ UNCHANGED <<armed, loose, up>>
        BY <1>14, <2>1, SelfWriteJoins
      <3> QED
        BY <2>0, <3>1 DEF NoRecovery
    <2>2. CASE Head(saves).then # "selfwrite"
      <3>1. /\ UNCHANGED <<writes, loose, up>>
            /\ AfterReturn(Head(saves).then, Head(saves).mode,
                           Head(saves).retry, Tail(saves))
        BY <1>14, <2>0, <2>2 DEF SaveCompletes
      <3>2. \A s \in Range(saves') : s.then \in {"none", "self", "selfwrite"}
        <4>1. \/ saves' = Tail(saves)
              \/ Range(saves') = Range(Tail(saves)) \cup
                                   {Saving("selfwrite", "none", 0)}
          BY <2>0, <2>2, <3>1, ReturnJoins
        <4> QED
          <5> SUFFICES ASSUME NEW s \in Range(saves')
                       PROVE  s.then \in {"none", "self", "selfwrite"}
            OBVIOUS
          <5>1. s \in Range(saves) \/ s = Saving("selfwrite", "none", 0)
            BY <2>0, <4>1
          <5> QED
            BY <5>1, SavingFields DEF NoRecovery
      <3>3. \A m \in Modes : armed'[m] = NoTimer \/ armed'[m].retry = 0
        BY <3>1 DEF NoRecovery, AfterReturn, Engage, Fresh, NoTimers
      <3> QED
        BY <2>0, <3>1, <3>2, <3>3 DEF NoRecovery
    <2> QED
      BY <2>1, <2>2
  <1>15. ASSUME NEW m \in Modes, BecomesDue(m)
        PROVE  NoRecovery'
    <2>1. \A w \in Range(writes') : w.next \in {"none", "self"}
      BY <1>15, Shapes
         DEF NoRecovery, BecomesDue
    <2>2. \A s \in Range(saves') : s.then \in {"none", "self", "selfwrite"}
      BY <1>15, Shapes
         DEF NoRecovery, BecomesDue
    <2>3. \A k \in Modes : armed'[k] = NoTimer \/ armed'[k].retry = 0
      BY <1>15, Shapes
         DEF NoRecovery, BecomesDue
    <2>4. (\A t \in loose' : t.retry = 0) /\ (~up' => disk' = NoSession)
      BY <1>15, Shapes
         DEF NoRecovery, BecomesDue, Callback
    <2> QED
      BY <2>1, <2>2, <2>3, <2>4 DEF NoRecovery
  <1>16. ASSUME NEW t \in loose, ExpiryRestores(t)
        PROVE  NoRecovery'
    <2>0. up /\ t.retry = 0
      BY <1>16 DEF NoRecovery, DownIsEmpty
    <2>1. \A w \in Range(writes') : w.next \in {"none", "self"}
      BY <1>16, <2>0, ExpiryJoins
         DEF NoRecovery, ExpiryRestores, RestoreJoins
    <2>2. \A s \in Range(saves') : s.then \in {"none", "self", "selfwrite"}
      BY <1>16, Shapes
         DEF NoRecovery, ExpiryRestores
    <2>3. \A m \in Modes : armed'[m] = NoTimer \/ armed'[m].retry = 0
      BY <1>16, Shapes
         DEF NoRecovery, ExpiryRestores, IssueRestore, NoTimers
    <2>4. (\A c \in loose' : c.retry = 0) /\ (~up' => disk' = NoSession)
      BY <1>16, Shapes
         DEF NoRecovery, ExpiryRestores
    <2> QED
      BY <2>1, <2>2, <2>3, <2>4 DEF NoRecovery
  <1>17. ASSUME NEW t \in loose, ExpirySkipped(t)
        PROVE  NoRecovery'
    <2>1. \A w \in Range(writes') : w.next \in {"none", "self"}
      BY <1>17, Shapes
         DEF NoRecovery, ExpirySkipped
    <2>2. \A s \in Range(saves') : s.then \in {"none", "self", "selfwrite"}
      BY <1>17, SkippedSaves, SavingFields
         DEF NoRecovery
    <2>3. \A m \in Modes : armed'[m] = NoTimer \/ armed'[m].retry = 0
      BY <1>17, Shapes
         DEF NoRecovery, ExpirySkipped
    <2>4. (\A c \in loose' : c.retry = 0) /\ (~up' => disk' = NoSession)
      BY <1>17, Shapes
         DEF NoRecovery, ExpirySkipped
    <2> QED
      BY <2>1, <2>2, <2>3, <2>4 DEF NoRecovery
  <1>18. CASE Restart
    BY <1>18 DEF Restart
  <1>19. CASE NothingToResume
    <2>1. \A w \in Range(writes') : w.next \in {"none", "self"}
      BY <1>19, Shapes
         DEF NoRecovery, NothingToResume, memory
    <2>2. \A s \in Range(saves') : s.then \in {"none", "self", "selfwrite"}
      BY <1>19, Shapes
         DEF NoRecovery, NothingToResume, memory
    <2>3. \A m \in Modes : armed'[m] = NoTimer \/ armed'[m].retry = 0
      BY <1>19, Shapes
         DEF NoRecovery, NothingToResume, memory
    <2>4. (\A t \in loose' : t.retry = 0) /\ (~up' => disk' = NoSession)
      BY <1>19, Shapes
         DEF NoRecovery, NothingToResume, memory
    <2> QED
      BY <2>1, <2>2, <2>3, <2>4 DEF NoRecovery
  <1>20. CASE ResumeTimer
    BY <1>20 DEF ResumeTimer, NoRecovery, NoSession
  <1>21. CASE ResumeForce
    BY <1>21 DEF ResumeForce, NoRecovery, NoSession
  <1>22. CASE ResumeExpired
    BY <1>22 DEF ResumeExpired, NoRecovery, NoSession
  <1>23. CASE UNCHANGED vars
    <2>1. \A w \in Range(writes') : w.next \in {"none", "self"}
      BY <1>23, Shapes
         DEF NoRecovery, vars, memory
    <2>2. \A s \in Range(saves') : s.then \in {"none", "self", "selfwrite"}
      BY <1>23, Shapes
         DEF NoRecovery, vars, memory
    <2>3. \A m \in Modes : armed'[m] = NoTimer \/ armed'[m].retry = 0
      BY <1>23, Shapes
         DEF NoRecovery, vars, memory
    <2>4. (\A t \in loose' : t.retry = 0) /\ (~up' => disk' = NoSession)
      BY <1>23, Shapes
         DEF NoRecovery, vars, memory
    <2> QED
      BY <2>1, <2>2, <2>3, <2>4 DEF NoRecovery
  <1> QED
    BY <1>1, <1>2, <1>3, <1>4, <1>5, <1>6, <1>7, <1>8, <1>9, <1>10, <1>11,
       <1>12, <1>13, <1>14, <1>15, <1>16, <1>17, <1>18, <1>19, <1>20, <1>21,
       <1>22, <1>23
       DEF Next, Command, WriteCompletes, CallbackRuns, Resume

\* UntimedIsForced is kept by what leaves no mode untimed and no force
\* command behind.
LEMMA UntimedFrame ==
  ASSUME UntimedIsForced,
         \A m \in Modes : active'[m] /\ ~timed'[m] => active[m] /\ ~timed[m],
         \A w \in Range(writes) : w.op = "force" => w \in Range(writes')
  PROVE  UntimedIsForced'
  BY DEF UntimedIsForced, ForceQueued

\* The record stays right while flags and record stay and whoever will save
\* still waits.
LEMMA MatchFrame ==
  ASSUME Matches \/ WillSave, UNCHANGED <<active, timed, gen, disk>>,
         saves # <<>> => saves' # <<>>,
         \A w \in Range(writes) :
           \/ w \in Range(writes')
           \/ ~(w.op \in {"force", "hold"} \/ (w.op = "restore" /\ w.gen = gen))
  PROVE  (Matches \/ WillSave)'
  BY DEF Matches, Running, WillSave

\* A snapshot of timed modes is the record DiskMatchesMemory asks for.
LEMMA SnapshotMatches ==
  ASSUME TypeOK, \A m \in Modes : active[m] => timed[m],
         UNCHANGED <<active, timed>>, disk' = Snapshot
  PROVE  Matches'
  <1>1. \/ /\ \A m \in Modes : ~active[m]
           /\ disk' = NoSession
        \/ \E m \in Modes :
             /\ active[m] /\ disk' = [mode |-> m, timed |-> timed[m]]
             /\ m \notin ForceModes => \A x \in ForceModes : ~active[x]
    <2>1. CASE active["charge"]
      BY <2>1 DEF Snapshot, Modes, ForceModes
    <2>2. CASE ~active["charge"] /\ active["discharge"]
      BY <2>2 DEF Snapshot, Modes, ForceModes
    <2>3. CASE (\A x \in ForceModes : ~active[x]) /\ active["hold"]
      <3>1. Snapshot = [mode |-> "hold", timed |-> timed["hold"]]
        BY <2>3 DEF Snapshot, ForceModes
      <3> QED
        BY <2>3, <3>1 DEF Modes
    <2>4. CASE /\ \A x \in ForceModes : ~active[x]
               /\ ~active["hold"] /\ active["self"]
      <3>1. Snapshot = [mode |-> "self", timed |-> timed["self"]]
        BY <2>4 DEF Snapshot, ForceModes
      <3> QED
        BY <2>4, <3>1 DEF Modes
    <2>5. CASE \A x \in Modes : ~active[x]
      <3>1. Snapshot = NoSession
        BY <2>5 DEF Snapshot, Modes, ForceModes
      <3> QED
        BY <2>5, <3>1
    <2> QED
      BY <2>1, <2>2, <2>3, <2>4, <2>5 DEF ForceModes, Modes
  <1>2. CASE (\A m \in Modes : ~active[m]) /\ disk' = NoSession
    BY <1>2 DEF Matches, Running, NoSession
  <1>3. ASSUME NEW m \in Modes, active[m],
               disk' = [mode |-> m, timed |-> timed[m]],
               m \notin ForceModes => \A x \in ForceModes : ~active[x]
        PROVE  Matches'
    <2>1. timed[m] /\ disk'.mode = m /\ disk'.timed = timed[m]
      BY <1>3
    <2> QED
      BY <1>3, <2>1 DEF Matches, Running, Modes
  <1> QED
    BY <1>1, <1>2, <1>3

\* Every step keeps UntimedIsForced.
LEMMA UntimedStep ==
  ASSUME Outcomes = {"ok"}, ~CanRestart, TypeOK, DownIsEmpty,
         NoRecovery, UntimedIsForced, [Next]_vars
  PROVE  UntimedIsForced'
  <1>1. ASSUME NEW m \in ForceModes, ForceCommand(m)
       PROVE  UntimedIsForced'
    <2>1. IssueForce(m, "none")
      BY <1>1 DEF ForceCommand
    <2>2. Range(writes) \subseteq Range(writes') /\ ForceQueued(m)'
      <3>1. PICK w \in Range(writes') :
              /\ w.op = "force" /\ w.mode = m
              /\ Range(writes') = Range(writes) \cup {w}
        BY <2>1, ForceIssued
      <3> QED
        BY <3>1 DEF ForceQueued
    <2>3. \A x \in Modes \ {m} :
            active'[x] /\ ~timed'[x] => active[x] /\ ~timed[x]
      BY <2>1, Shapes DEF IssueForce, Other, ForceModes, Modes
    <2> QED
      BY <2>2, <2>3 DEF UntimedIsForced, ForceQueued
  <1>2. CASE RestoreCommand
    <2>1. \A x \in Modes : active'[x] /\ ~timed'[x] => active[x] /\ ~timed[x]
      BY <1>2, Shapes, RestoreCommandJoins
         DEF IssueRestore, RestoreJoins, Modes
    <2>2. \A w \in Range(writes) : w.op = "force" => w \in Range(writes')
      BY <1>2, Shapes, RestoreCommandJoins
         DEF IssueRestore, RestoreJoins, Modes
    <2> QED
      BY <2>1, <2>2, UntimedFrame
  <1>3. CASE HoldCommand
    <2>1. \A x \in Modes : active'[x] /\ ~timed'[x] => active[x] /\ ~timed[x]
      BY <1>3, Shapes DEF HoldCommand, Modes
    <2>2. \A w \in Range(writes) : w.op = "force" => w \in Range(writes')
      BY <1>3, Shapes, HoldIssued
    <2> QED
      BY <2>1, <2>2, UntimedFrame
  <1>4. CASE SelfCommand
    <2>1. \A x \in Modes : active'[x] /\ ~timed'[x] => active[x] /\ ~timed[x]
      BY <1>4, Shapes, SelfCommandJoins
         DEF IssueRestore, RestoreJoins, Modes, Engage
    <2>2. \A w \in Range(writes) : w.op = "force" => w \in Range(writes')
      BY <1>4, Shapes, SelfCommandJoins
         DEF IssueRestore, RestoreJoins, Modes, Engage
    <2> QED
      BY <2>1, <2>2, UntimedFrame
  <1>5. ASSUME NEW i \in DOMAIN writes, ForceWritten(i)
       PROVE  UntimedIsForced'
    <2>1. writes[i].mode \in ForceModes /\ ForceModes \subseteq Modes
      BY <1>5, ForceWrittenSaves DEF Modes
    <2>2. \A x \in Modes : active'[x] /\ ~timed'[x] =>
            active[x] /\ ~timed[x] /\ x # writes[i].mode
      BY <1>5, <2>1, Shapes DEF ForceWritten
    <2>3. Range(writes) \subseteq Range(writes') \cup {writes[i]}
      BY <1>5, Completed DEF ForceWritten
    <2> QED
      BY <2>2, <2>3 DEF UntimedIsForced, ForceQueued
  <1>6. ASSUME NEW i \in DOMAIN writes, ForceNotWritten(i)
       PROVE  UntimedIsForced'
    BY <1>6 DEF ForceNotWritten
  <1>7. ASSUME NEW i \in DOMAIN writes, HoldWritten(i)
       PROVE  UntimedIsForced'
    <2>1. \A x \in Modes : active'[x] /\ ~timed'[x] => active[x] /\ ~timed[x]
      BY <1>7, Shapes, Completed DEF HoldWritten, Modes
    <2>2. \A w \in Range(writes) : w.op = "force" => w \in Range(writes')
      BY <1>7, Shapes, Completed DEF HoldWritten, Modes
    <2> QED
      BY <2>1, <2>2, UntimedFrame
  <1>8. ASSUME NEW i \in DOMAIN writes, HoldNotWritten(i)
       PROVE  UntimedIsForced'
    BY <1>8 DEF HoldNotWritten
  <1>9. ASSUME NEW i \in DOMAIN writes, SelfWriteCompletes(i)
       PROVE  UntimedIsForced'
    <2>1. \A x \in Modes : active'[x] /\ ~timed'[x] => active[x] /\ ~timed[x]
      BY <1>9, Shapes, Completed DEF SelfWriteCompletes, Modes
    <2>2. \A w \in Range(writes) : w.op = "force" => w \in Range(writes')
      BY <1>9, Shapes, Completed DEF SelfWriteCompletes, Modes
    <2> QED
      BY <2>1, <2>2, UntimedFrame
  <1>10. ASSUME NEW i \in DOMAIN writes, RestoreConfirmed(i)
        PROVE  UntimedIsForced'
    <2>1. \A x \in Modes : active'[x] /\ ~timed'[x] => active[x] /\ ~timed[x]
      BY <1>10, Shapes, Completed DEF RestoreConfirmed, Modes
    <2>2. \A w \in Range(writes) : w.op = "force" => w \in Range(writes')
      BY <1>10, Shapes, Completed DEF RestoreConfirmed, Modes
    <2> QED
      BY <2>1, <2>2, UntimedFrame
  <1>11. ASSUME NEW i \in DOMAIN writes, RestoreSuperseded(i)
        PROVE  UntimedIsForced'
    <2>1. \A x \in Modes : active'[x] /\ ~timed'[x] => active[x] /\ ~timed[x]
      BY <1>11, Shapes, Completed
         DEF RestoreSuperseded, AfterReturn, Engage, Modes
    <2>2. \A w \in Range(writes) : w.op = "force" => w \in Range(writes')
      BY <1>11, Shapes, Completed
         DEF RestoreSuperseded, AfterReturn, Engage, Modes
    <2> QED
      BY <2>1, <2>2, UntimedFrame
  <1>12. ASSUME NEW i \in DOMAIN writes, RestoreSwallowed(i)
        PROVE  UntimedIsForced'
    BY <1>12 DEF RestoreSwallowed
  <1>13. ASSUME NEW i \in DOMAIN writes, RestoreRefused(i)
        PROVE  UntimedIsForced'
    BY <1>13 DEF RestoreRefused
  <1>14. CASE SaveCompletes
    <2>0. UNCHANGED <<active, timed>> \/ Engage(Tail(saves))
      BY <1>14 DEF SaveCompletes, AfterReturn, RearmAfterReplay
    <2>1. \A x \in Modes : active'[x] /\ ~timed'[x] => active[x] /\ ~timed[x]
      BY <2>0, Shapes DEF Engage, Modes
    <2>2. Range(writes) \subseteq Range(writes')
      <3>1. CASE Head(saves).then = "selfwrite"
        BY <1>14, <3>1, SelfWriteJoins
      <3>2. CASE Head(saves).then # "selfwrite"
        BY <1>14, <3>2 DEF SaveCompletes
      <3> QED
        BY <3>1, <3>2
    <2> QED
      BY <2>1, <2>2, UntimedFrame
  <1>15. ASSUME NEW m \in Modes, BecomesDue(m)
        PROVE  UntimedIsForced'
    <2>1. \A x \in Modes : active'[x] /\ ~timed'[x] => active[x] /\ ~timed[x]
      BY <1>15, Shapes DEF BecomesDue
    <2>2. \A w \in Range(writes) : w.op = "force" => w \in Range(writes')
      BY <1>15, Shapes DEF BecomesDue
    <2> QED
      BY <2>1, <2>2, UntimedFrame
  <1>16. ASSUME NEW t \in loose, ExpiryRestores(t)
        PROVE  UntimedIsForced'
    <2>1. \A x \in Modes : active'[x] /\ ~timed'[x] => active[x] /\ ~timed[x]
      BY <1>16, Shapes, ExpiryJoins DEF IssueRestore, RestoreJoins, Modes
    <2>2. \A w \in Range(writes) : w.op = "force" => w \in Range(writes')
      BY <1>16, Shapes, ExpiryJoins DEF IssueRestore, RestoreJoins, Modes
    <2> QED
      BY <2>1, <2>2, UntimedFrame
  <1>17. ASSUME NEW t \in loose, ExpirySkipped(t)
        PROVE  UntimedIsForced'
    <2>0. UNCHANGED writes
      BY <1>17 DEF ExpirySkipped
    <2>1. \A x \in Modes : active'[x] /\ ~timed'[x] => active[x] /\ ~timed[x]
      BY <1>17, Shapes, <2>0, SkippedSaves DEF Modes
    <2>2. \A w \in Range(writes) : w.op = "force" => w \in Range(writes')
      BY <1>17, Shapes, <2>0, SkippedSaves DEF Modes
    <2> QED
      BY <2>1, <2>2, UntimedFrame
  <1>18. CASE Restart
    BY <1>18 DEF Restart
  <1>19. CASE NothingToResume
    <2>1. \A x \in Modes : active'[x] /\ ~timed'[x] => active[x] /\ ~timed[x]
      BY <1>19, Shapes DEF NothingToResume, memory
    <2>2. \A w \in Range(writes) : w.op = "force" => w \in Range(writes')
      BY <1>19, Shapes DEF NothingToResume, memory
    <2> QED
      BY <2>1, <2>2, UntimedFrame
  <1>20. CASE ResumeTimer
    BY <1>20 DEF ResumeTimer, NoRecovery, NoSession
  <1>21. CASE ResumeForce
    BY <1>21 DEF ResumeForce, NoRecovery, NoSession
  <1>22. CASE ResumeExpired
    BY <1>22 DEF ResumeExpired, NoRecovery, NoSession
  <1>23. CASE UNCHANGED vars
    <2>1. \A x \in Modes : active'[x] /\ ~timed'[x] => active[x] /\ ~timed[x]
      BY <1>23, Shapes DEF vars, memory
    <2>2. \A w \in Range(writes) : w.op = "force" => w \in Range(writes')
      BY <1>23, Shapes DEF vars, memory
    <2> QED
      BY <2>1, <2>2, UntimedFrame
  <1> QED
    BY <1>1, <1>2, <1>3, <1>4, <1>5, <1>6, <1>7, <1>8, <1>9, <1>10, <1>11,
       <1>12, <1>13, <1>14, <1>15, <1>16, <1>17, <1>18, <1>19, <1>20, <1>21,
       <1>22, <1>23
       DEF Next, Command, WriteCompletes, CallbackRuns, Resume

\* Every step leaves the record right, or somebody who will write it.
LEMMA MatchStep ==
  ASSUME Outcomes = {"ok"}, ~CanRestart, TypeOK, DownIsEmpty,
         NoRecovery, UntimedIsForced,
         Matches \/ WillSave, [Next]_vars
  PROVE  (Matches \/ WillSave)'
  <1>1. ASSUME NEW m \in ForceModes, ForceCommand(m)
       PROVE  (Matches \/ WillSave)'
    <2>0. IssueForce(m, "none")
      BY <1>1 DEF ForceCommand
    <2>1. \E w \in Range(writes') : w.op = "force"
      BY <2>0, ForceIssued
    <2> QED
      BY <2>1 DEF WillSave
  <1>2. CASE RestoreCommand
    <2>1. \E w \in Range(writes') : w.op = "restore" /\ w.gen = gen'
      BY <1>2, RestoreCommandJoins DEF IssueRestore, RestoreJoins
    <2> QED
      BY <2>1 DEF WillSave
  <1>3. CASE HoldCommand
    <2>1. \E w \in Range(writes') : w.op = "hold"
      BY <1>3, HoldIssued
    <2> QED
      BY <2>1 DEF WillSave
  <1>4. CASE SelfCommand
    <2>1. CASE Engage(saves)
      BY <2>1, Shapes, EngageJoins DEF WillSave
    <2>2. CASE ~Engage(saves)
      <3>1. \E w \in Range(writes') : w.op = "restore" /\ w.gen = gen'
        BY <1>4, <2>2, SelfCommandJoins DEF IssueRestore, RestoreJoins
      <3> QED
        BY <3>1 DEF WillSave
    <2> QED
      BY <2>1, <2>2
  <1>5. ASSUME NEW i \in DOMAIN writes, ForceWritten(i)
       PROVE  (Matches \/ WillSave)'
    BY <1>5, ForceWrittenSaves DEF WillSave
  <1>6. ASSUME NEW i \in DOMAIN writes, ForceNotWritten(i)
       PROVE  (Matches \/ WillSave)'
    BY <1>6 DEF ForceNotWritten
  <1>7. ASSUME NEW i \in DOMAIN writes, HoldWritten(i)
       PROVE  (Matches \/ WillSave)'
    BY <1>7, HoldWrittenSaves DEF WillSave
  <1>8. ASSUME NEW i \in DOMAIN writes, HoldNotWritten(i)
       PROVE  (Matches \/ WillSave)'
    BY <1>8 DEF HoldNotWritten
  <1>9. ASSUME NEW i \in DOMAIN writes, SelfWriteCompletes(i)
       PROVE  (Matches \/ WillSave)'
    <2>1. UNCHANGED <<active, timed, gen, disk>> /\ (saves # <<>> => saves' # <<>>)
      BY <1>9 DEF SelfWriteCompletes
    <2>2. \A w \in Range(writes) :
            \/ w \in Range(writes')
            \/ ~(w.op \in {"force", "hold"} \/ (w.op = "restore" /\ w.gen = gen))
      BY <1>9, Completed DEF SelfWriteCompletes
    <2> QED
      BY <2>1, <2>2, MatchFrame
  <1>10. ASSUME NEW i \in DOMAIN writes, RestoreConfirmed(i)
        PROVE  (Matches \/ WillSave)'
    BY <1>10, RestoreConfirmedSaves DEF WillSave
  <1>11. ASSUME NEW i \in DOMAIN writes, RestoreSuperseded(i)
        PROVE  (Matches \/ WillSave)'
    <2>1. writes[i].next \in {"none", "self"}
      BY <1>11, Completed DEF RestoreSuperseded, NoRecovery
    <2>2. CASE writes[i].next = "self"
      BY <1>11, <2>2, Shapes, EngageJoins
         DEF RestoreSuperseded, AfterReturn, WillSave
    <2>3. CASE writes[i].next = "none"
      <3>1. UNCHANGED <<active, timed, gen, disk, saves>>
        BY <1>11, <2>3 DEF RestoreSuperseded, AfterReturn
      <3>2. \A w \in Range(writes) :
              \/ w \in Range(writes')
              \/ ~(w.op \in {"force", "hold"} \/ (w.op = "restore" /\ w.gen = gen))
        BY <1>11, Completed DEF RestoreSuperseded
      <3> QED
        BY <3>1, <3>2, MatchFrame
    <2> QED
      BY <2>1, <2>2, <2>3
  <1>12. ASSUME NEW i \in DOMAIN writes, RestoreSwallowed(i)
        PROVE  (Matches \/ WillSave)'
    BY <1>12 DEF RestoreSwallowed
  <1>13. ASSUME NEW i \in DOMAIN writes, RestoreRefused(i)
        PROVE  (Matches \/ WillSave)'
    BY <1>13 DEF RestoreRefused
  <1>14. CASE SaveCompletes
    <2>1. /\ Head(saves).then \in {"none", "self", "selfwrite"}
          /\ Tail(saves) \in Seq(Save)
      BY <1>14, SaveServed DEF NoRecovery, SaveCompletes
    <2>2. CASE Head(saves).then = "self"
      <3>1. Engage(Tail(saves))
        BY <1>14, <2>2 DEF SaveCompletes, AfterReturn
      <3> QED
        BY <2>1, <3>1, EngageJoins DEF WillSave
    <2>3. CASE Head(saves).then # "self"
      <3>1. disk' = Snapshot /\ UNCHANGED <<active, timed>>
        BY <1>14, <2>1, <2>3 DEF SaveCompletes, AfterReturn
      <3>2. CASE \A m \in Modes : active[m] => timed[m]
        BY <3>1, <3>2, SnapshotMatches
      <3>3. ASSUME NEW m \in Modes, active[m], ~timed[m]
            PROVE  WillSave'
        <4>1. UntimedIsForced'
          BY UntimedStep
        <4>2. active'[m] /\ ~timed'[m]
          BY <3>1, <3>3
        <4> QED
          BY <4>1, <4>2 DEF UntimedIsForced, ForceQueued, WillSave
      <3> QED
        BY <3>2, <3>3
    <2> QED
      BY <2>2, <2>3
  <1>15. ASSUME NEW m \in Modes, BecomesDue(m)
        PROVE  (Matches \/ WillSave)'
    <2>1. UNCHANGED <<active, timed, gen, disk>> /\ (saves # <<>> => saves' # <<>>)
      BY <1>15 DEF BecomesDue
    <2>2. \A w \in Range(writes) :
            \/ w \in Range(writes')
            \/ ~(w.op \in {"force", "hold"} \/ (w.op = "restore" /\ w.gen = gen))
      BY <1>15 DEF BecomesDue
    <2> QED
      BY <2>1, <2>2, MatchFrame
  <1>16. ASSUME NEW t \in loose, ExpiryRestores(t)
        PROVE  (Matches \/ WillSave)'
    <2>1. \E w \in Range(writes') : w.op = "restore" /\ w.gen = gen'
      BY <1>16, ExpiryJoins DEF IssueRestore, RestoreJoins
    <2> QED
      BY <2>1 DEF WillSave
  <1>17. ASSUME NEW t \in loose, ExpirySkipped(t)
        PROVE  (Matches \/ WillSave)'
    <2>1. UNCHANGED <<writes, gen, disk>>
      BY <1>17 DEF ExpirySkipped
    <2> QED
      BY <1>17, <2>1, SkippedSaves, MatchFrame DEF WillSave
  <1>18. CASE Restart
    BY <1>18 DEF Restart
  <1>19. CASE NothingToResume
    <2>1. UNCHANGED <<active, timed, gen, disk>> /\ (saves # <<>> => saves' # <<>>)
      BY <1>19 DEF NothingToResume, memory
    <2>2. \A w \in Range(writes) :
            \/ w \in Range(writes')
            \/ ~(w.op \in {"force", "hold"} \/ (w.op = "restore" /\ w.gen = gen))
      BY <1>19 DEF NothingToResume, memory
    <2> QED
      BY <2>1, <2>2, MatchFrame
  <1>20. CASE ResumeTimer
    BY <1>20 DEF ResumeTimer, NoRecovery, NoSession
  <1>21. CASE ResumeForce
    BY <1>21 DEF ResumeForce, NoRecovery, NoSession
  <1>22. CASE ResumeExpired
    BY <1>22 DEF ResumeExpired, NoRecovery, NoSession
  <1>23. CASE UNCHANGED vars
    <2>1. UNCHANGED <<active, timed, gen, disk>> /\ (saves # <<>> => saves' # <<>>)
      BY <1>23 DEF vars, memory
    <2>2. \A w \in Range(writes) :
            \/ w \in Range(writes')
            \/ ~(w.op \in {"force", "hold"} \/ (w.op = "restore" /\ w.gen = gen))
      BY <1>23 DEF vars, memory
    <2> QED
      BY <2>1, <2>2, MatchFrame
  <1> QED
    BY <1>1, <1>2, <1>3, <1>4, <1>5, <1>6, <1>7, <1>8, <1>9, <1>10, <1>11,
       <1>12, <1>13, <1>14, <1>15, <1>16, <1>17, <1>18, <1>19, <1>20, <1>21,
       <1>22, <1>23
       DEF Next, Command, WriteCompletes, CallbackRuns, Resume

\* With writes that succeed and within one run of Home Assistant, whatever
\* overlaps and in whatever order the answers come, the record on disk at rest
\* is a session that runs, a running session has one, and a force session
\* comes first: every handler that changes a session has a write of the record
\* ahead of it (persist_force_mode_state, __init__.py:30859).
THEOREM RecordMatchesMemory ==
  ASSUME Outcomes = {"ok"}, ~CanRestart
  PROVE  Spec => []DiskMatchesMemory
  <1> DEFINE I == /\ DownIsEmpty /\ NoRecovery /\ UntimedIsForced
                  /\ Matches \/ WillSave
  <1>1. Init => I
    <2> SUFFICES ASSUME Init
                 PROVE  I
      OBVIOUS
    <2>1. /\ \A m \in Modes : ~active[m] /\ armed[m] = NoTimer
          /\ Range(writes) = {} /\ Range(saves) = {}
      BY DEF Init, NoTimers, Range
    <2>2. DownIsEmpty /\ NoRecovery
      BY <2>1 DEF Init, DownIsEmpty, NoRecovery, NoTimers
    <2>3. UntimedIsForced
      BY <2>1 DEF UntimedIsForced
    <2>4. Matches
      BY <2>1 DEF Init, Matches, Running, NoSession
    <2> QED
      BY <2>2, <2>3, <2>4
  <1>2. TypeOK /\ I /\ [Next]_vars => I'
    BY DownStep, RecoveryStep, UntimedStep, MatchStep
  <1>3. TypeOK /\ I => DiskMatchesMemory
    <2> SUFFICES ASSUME TypeOK, I, Quiet
                 PROVE  Matches
      BY DEF DiskMatchesMemory, Matches
    <2>1. ~WillSave
      BY Shapes DEF Quiet, WillSave
    <2> QED
      BY <2>1
  <1> QED
    BY <1>1, <1>2, <1>3, TypeCorrect, PTL DEF Spec

-----------------------------------------------------------------------------
(* The last command                                                        *)

\* The newest command is a restore whose write is still on its way.
NewestRestores == \E w \in Range(writes) : w.op = "restore" /\ w.gen = gen

\* Self consumption is on, or a handler will engage it.
SelfOnItsWay ==
  \/ active["self"]
  \/ \E w \in Range(writes) : w.op = "restore" /\ w.next = "self"
  \/ \E s \in Range(saves) : s.then = "self"

\* No force mode is on, and none is on its way.
NoForce ==
  /\ \A m \in ForceModes : ~active[m]
  /\ \A w \in Range(writes) : w.op # "force"

\* What each kind of last command has reached so far.
LastFacts ==
  /\ want \in ForceModes => active[want] /\ ~NewestRestores
  /\ want = "self" => SelfOnItsWay
  /\ want = "normal" => NewestRestores \/ NoForce

\* LastFacts is kept by what leaves the force and self consumption flags
\* alone and no restore and no self consumption caller behind.
LEMMA LastFrame ==
  ASSUME LastFacts, UNCHANGED <<want, gen>>,
         \A m \in ForceModes \cup {"self"} : active'[m] = active[m],
         \A w \in Range(writes') : w.op = "self" \/ w \in Range(writes),
         \A w \in Range(writes) : w.op = "restore" => w \in Range(writes'),
         \A s \in Range(saves) : s.then = "self" => s \in Range(saves')
  PROVE  LastFacts'
  <1>1. NewestRestores' <=> NewestRestores
    BY DEF NewestRestores
  <1>2. SelfOnItsWay => SelfOnItsWay'
    BY DEF SelfOnItsWay
  <1>3. NoForce => NoForce'
    BY DEF NoForce
  <1> QED
    BY <1>1, <1>2, <1>3 DEF LastFacts

\* Engaging self consumption is a command of its own.
LEMMA EngageIsLast ==
  ASSUME TypeOK, NEW before, Engage(before)
  PROVE  LastFacts'
  <1>1. want' = "self" /\ active'["self"]
    BY Shapes DEF Engage, Modes
  <1> QED
    BY <1>1 DEF LastFacts, SelfOnItsWay, ForceModes

\* A command that restores is the newest one from now on.
LEMMA RestoreIsLast ==
  ASSUME TypeOK, NEW next, RestoreJoins(next), gen' = gen + 1,
         want' = "normal" \/ (want' = "self" /\ next = "self")
  PROVE  LastFacts'
  <1>1. NewestRestores' /\ (next = "self" => SelfOnItsWay')
    BY DEF RestoreJoins, NewestRestores, SelfOnItsWay
  <1> QED
    BY <1>1 DEF LastFacts, ForceModes

\* Nothing that takes a generation waits behind the newest command.
LEMMA NothingBehindNewest ==
  ASSUME TypeOK, TimedInvariant, InOrder, NEW i \in DOMAIN writes,
         Completes(i), Bump(writes[i]), writes[i].gen = gen,
         writes' = RemoveAt(writes, i)
  PROVE  \A w \in Range(writes') : ~Bump(w)
  <1>1. i = 1
    BY DEF Completes
  <1>2. \A k \in DOMAIN writes' : ~Bump(writes'[k])
    BY <1>1, FirstCompletes
  <1> QED
    BY <1>2 DEF Range

\* Every step keeps LastFacts: an overtaken restore changes no flag, and one
\* that is still the newest has no force command behind it.
LEMMA LastStep ==
  ASSUME InOrder, Outcomes = {"ok"}, "hold" \notin Commands, TypeOK,
         TimedInvariant, LastFacts, [Next]_vars
  PROVE  LastFacts'
  <1>1. ASSUME NEW m \in ForceModes, ForceCommand(m)
       PROVE  LastFacts'
    <2>1. IssueForce(m, "none") /\ UNCHANGED saves
      BY <1>1 DEF ForceCommand
    <2>2. want' = m /\ gen' = gen + 1 /\ active'[m]
      BY <2>1, Shapes DEF IssueForce, Other, ForceModes, Modes
    <2>3. ~NewestRestores'
      <3>1. \A w \in Range(writes) : Bump(w) => w.gen \in Nat /\ w.gen <= gen
        BY Shapes
           DEF TimedInvariant, GenerationsInOrder, Ordered, Range, Write
      <3>2. \A w \in Range(writes') : w \in Range(writes) \/ w.op = "force"
        BY <2>1, ForceIssued
      <3> QED
        BY <2>2, <3>1, <3>2, Shapes DEF NewestRestores, Bump
    <2> QED
      BY <2>2, <2>3 DEF LastFacts, ForceModes
  <1>2. CASE RestoreCommand
    <2>1. RestoreJoins("none") /\ gen' = gen + 1 /\ want' = "normal"
      BY <1>2, RestoreCommandJoins DEF RestoreCommand, IssueRestore
    <2> QED
      BY <2>1, RestoreIsLast
  <1>3. CASE HoldCommand
    BY <1>3 DEF HoldCommand, Admitted
  <1>4. CASE SelfCommand
    <2>1. CASE Engage(saves)
      BY <2>1, EngageIsLast
    <2>2. CASE ~Engage(saves)
      <3>1. RestoreJoins("self") /\ gen' = gen + 1 /\ want' = "self"
        BY <1>4, <2>2, SelfCommandJoins DEF IssueRestore
      <3> QED
        BY <3>1, RestoreIsLast
    <2> QED
      BY <2>1, <2>2
  <1>5. ASSUME NEW i \in DOMAIN writes, ForceWritten(i)
       PROVE  LastFacts'
    <2>1. /\ UNCHANGED <<want, gen>> /\ active'["self"] = active["self"]
          /\ \A m \in ForceModes : active[m] => active'[m]
      BY <1>5, Shapes, ForceWrittenSaves DEF ForceWritten, ForceModes, Modes
    <2>2. /\ Range(writes') \subseteq Range(writes) /\ ~NoForce
          /\ \A w \in Range(writes) : w.op = "restore" => w \in Range(writes')
      BY <1>5, Completed DEF ForceWritten, NoForce
    <2>3. Range(saves) \subseteq Range(saves')
      BY <1>5, ForceWrittenSaves
    <2>4. (NewestRestores' <=> NewestRestores) /\ (SelfOnItsWay => SelfOnItsWay')
      BY <2>1, <2>2, <2>3 DEF NewestRestores, SelfOnItsWay
    <2> QED
      BY <2>1, <2>2, <2>4 DEF LastFacts
  <1>6. ASSUME NEW i \in DOMAIN writes, ForceNotWritten(i)
       PROVE  LastFacts'
    BY <1>6 DEF ForceNotWritten
  <1>7. ASSUME NEW i \in DOMAIN writes, HoldWritten(i)
       PROVE  LastFacts'
    <2>1. /\ UNCHANGED <<want, gen>>
          /\ \A m \in ForceModes \cup {"self"} : active'[m] = active[m]
      BY <1>7, Shapes DEF HoldWritten, ForceModes, Modes
    <2>2. /\ \A w \in Range(writes') : w.op = "self" \/ w \in Range(writes)
          /\ \A w \in Range(writes) : w.op = "restore" => w \in Range(writes')
      BY <1>7, Completed DEF HoldWritten
    <2>3. \A s \in Range(saves) : s.then = "self" => s \in Range(saves')
      BY <1>7, HoldWrittenSaves
    <2> QED
      BY <2>1, <2>2, <2>3, LastFrame
  <1>8. ASSUME NEW i \in DOMAIN writes, HoldNotWritten(i)
       PROVE  LastFacts'
    BY <1>8 DEF HoldNotWritten
  <1>9. ASSUME NEW i \in DOMAIN writes, SelfWriteCompletes(i)
       PROVE  LastFacts'
    <2>1. /\ UNCHANGED <<want, gen>>
          /\ \A m \in ForceModes \cup {"self"} : active'[m] = active[m]
      BY <1>9, Shapes DEF SelfWriteCompletes, ForceModes, Modes
    <2>2. /\ \A w \in Range(writes') : w.op = "self" \/ w \in Range(writes)
          /\ \A w \in Range(writes) : w.op = "restore" => w \in Range(writes')
      BY <1>9, Completed DEF SelfWriteCompletes
    <2>3. \A s \in Range(saves) : s.then = "self" => s \in Range(saves')
      BY <1>9 DEF SelfWriteCompletes
    <2> QED
      BY <2>1, <2>2, <2>3, LastFrame
  <1>10. ASSUME NEW i \in DOMAIN writes, RestoreConfirmed(i)
        PROVE  LastFacts'
    <2>1. /\ UNCHANGED <<want, gen>> /\ active'["self"] = active["self"]
          /\ \A m \in ForceModes : ~active'[m]
      BY <1>10, Shapes DEF RestoreConfirmed, ForceModes, Modes
    <2>2. NoForce'
      <3>1. \A w \in Range(writes') : ~Bump(w)
        BY <1>10, NothingBehindNewest DEF RestoreConfirmed, Bump
      <3> QED
        BY <2>1, <3>1 DEF NoForce, Bump
    <2>3. NewestRestores
      BY <1>10, Completed DEF RestoreConfirmed, NewestRestores
    <2>4. SelfOnItsWay => SelfOnItsWay'
      <3>1. Range(writes) \subseteq Range(writes') \cup {writes[i]}
        BY <1>10, Completed DEF RestoreConfirmed
      <3>2. /\ Range(saves) \subseteq Range(saves')
            /\ writes[i].next = "self" =>
                 \E s \in Range(saves') : s.then = "self"
        BY <1>10, RestoreConfirmedSaves, SavingFields
      <3> QED
        BY <2>1, <3>1, <3>2 DEF SelfOnItsWay
    <2> QED
      BY <2>1, <2>2, <2>3, <2>4 DEF LastFacts
  <1>11. ASSUME NEW i \in DOMAIN writes, RestoreSuperseded(i)
        PROVE  LastFacts'
    <2>1. /\ AfterReturn(writes[i].next, writes[i].mode, writes[i].retry, saves)
          /\ writes[i].gen # gen /\ writes' = RemoveAt(writes, i)
      BY <1>11 DEF RestoreSuperseded
    <2>2. CASE writes[i].next = "self"
      BY <2>1, <2>2, EngageIsLast DEF AfterReturn
    <2>3. CASE writes[i].next # "self"
      <3>1. UNCHANGED <<active, gen, want>>
        BY <2>1, <2>3 DEF AfterReturn
      <3>2. Range(saves) \subseteq Range(saves')
        <4>1. AfterReturn(writes[i].next, writes[i].mode, writes[i].retry, saves)
                => \/ saves' = saves
                   \/ Range(saves') \in {Range(saves),
                          Range(saves) \cup {Saving("clear", "none", 0)}}
          BY <2>3, Shapes, ReturnJoins
        <4> QED
          BY <2>1, <4>1
      <3>3. /\ Range(writes') \subseteq Range(writes)
            /\ Range(writes) \subseteq Range(writes') \cup {writes[i]}
        BY <2>1, Completed
      <3>4. (NewestRestores' <=> NewestRestores) /\ (SelfOnItsWay => SelfOnItsWay')
        BY <2>1, <2>3, <3>1, <3>2, <3>3 DEF NewestRestores, SelfOnItsWay
      <3>5. NoForce => NoForce'
        BY <3>1, <3>3 DEF NoForce
      <3> QED
        BY <3>1, <3>4, <3>5 DEF LastFacts
    <2> QED
      BY <2>2, <2>3
  <1>12. ASSUME NEW i \in DOMAIN writes, RestoreSwallowed(i)
        PROVE  LastFacts'
    BY <1>12 DEF RestoreSwallowed
  <1>13. ASSUME NEW i \in DOMAIN writes, RestoreRefused(i)
        PROVE  LastFacts'
    BY <1>13 DEF RestoreRefused
  <1>14. CASE SaveCompletes
    <2>1. /\ Tail(saves) \in Seq(Save)
          /\ Range(saves) = {Head(saves)} \cup Range(Tail(saves))
      BY <1>14, SaveServed DEF SaveCompletes
    <2>2. CASE Head(saves).then = "self"
      BY <1>14, <2>2, EngageIsLast DEF SaveCompletes, AfterReturn
    <2>3. CASE Head(saves).then = "selfwrite"
      BY <1>14, <2>1, <2>3, SelfWriteJoins, LastFrame
    <2>4. CASE Head(saves).then \notin {"self", "selfwrite"}
      <3>1. UNCHANGED <<active, gen, writes, want>>
        BY <1>14, <2>4 DEF SaveCompletes, AfterReturn
      <3>2. Range(Tail(saves)) \subseteq Range(saves')
        <4>1. CASE Head(saves).then = "replay"
          BY <1>14, <4>1 DEF SaveCompletes
        <4>2. CASE Head(saves).then # "replay"
          <5>1. AfterReturn(Head(saves).then, Head(saves).mode,
                            Head(saves).retry, Tail(saves))
            BY <1>14, <2>4, <4>2 DEF SaveCompletes
          <5> QED
            BY <2>1, <2>4, <5>1, ReturnJoins
        <4> QED
          BY <4>1, <4>2
      <3> QED
        BY <2>1, <2>4, <3>1, <3>2, LastFrame
    <2> QED
      BY <2>2, <2>3, <2>4
  <1>15. ASSUME NEW m \in Modes, BecomesDue(m)
        PROVE  LastFacts'
    <2>1. /\ UNCHANGED <<want, gen>>
          /\ \A k \in ForceModes \cup {"self"} : active'[k] = active[k]
      BY <1>15, Shapes DEF BecomesDue, ForceModes, Modes
    <2>2. /\ \A w \in Range(writes') : w.op = "self" \/ w \in Range(writes)
          /\ \A w \in Range(writes) : w.op = "restore" => w \in Range(writes')
      BY <1>15 DEF BecomesDue
    <2>3. \A s \in Range(saves) : s.then = "self" => s \in Range(saves')
      BY <1>15 DEF BecomesDue
    <2> QED
      BY <2>1, <2>2, <2>3, LastFrame
  <1>16. ASSUME NEW t \in loose, ExpiryRestores(t)
        PROVE  LastFacts'
    <2>1. gen' = gen + 1 /\ want' = "normal"
      BY <1>16, ExpiryJoins DEF ExpiryRestores, IssueRestore
    <2>2. RestoreJoins("none") \/ RestoreJoins("cleanup")
      BY <1>16, ExpiryJoins
    <2> QED
      BY <2>1, <2>2, RestoreIsLast
  <1>17. ASSUME NEW t \in loose, ExpirySkipped(t)
        PROVE  LastFacts'
    <2>1. /\ UNCHANGED <<want, gen>>
          /\ \A m \in ForceModes \cup {"self"} : active'[m] = active[m]
      BY <1>17, Shapes DEF ExpirySkipped, ForceModes, Modes
    <2>2. /\ \A w \in Range(writes') : w.op = "self" \/ w \in Range(writes)
          /\ \A w \in Range(writes) : w.op = "restore" => w \in Range(writes')
      BY <1>17 DEF ExpirySkipped
    <2>3. \A s \in Range(saves) : s.then = "self" => s \in Range(saves')
      BY <1>17, SkippedSaves
    <2> QED
      BY <2>1, <2>2, <2>3, LastFrame
  <1>18. CASE Restart
    <2>1. want' = "unknown"
      BY <1>18 DEF Restart
    <2> QED
      BY <2>1 DEF LastFacts, ForceModes
  <1>19. CASE NothingToResume
    <2>1. /\ UNCHANGED <<want, gen>>
          /\ \A m \in ForceModes \cup {"self"} : active'[m] = active[m]
      BY <1>19, Shapes DEF NothingToResume, memory, ForceModes, Modes
    <2>2. /\ \A w \in Range(writes') : w.op = "self" \/ w \in Range(writes)
          /\ \A w \in Range(writes) : w.op = "restore" => w \in Range(writes')
      BY <1>19 DEF NothingToResume, memory
    <2>3. \A s \in Range(saves) : s.then = "self" => s \in Range(saves')
      BY <1>19 DEF NothingToResume, memory
    <2> QED
      BY <2>1, <2>2, <2>3, LastFrame
  <1>20. CASE ResumeTimer
    <2>1. /\ UNCHANGED <<want, gen, writes, saves>>
          /\ \A m \in ForceModes : active'[m] = active[m]
          /\ active["self"] => active'["self"]
      BY <1>20, Shapes DEF ResumeTimer, Populated, ForceModes, Modes
    <2> QED
      BY <2>1 DEF LastFacts, NewestRestores, SelfOnItsWay, NoForce
  <1>21. CASE ResumeForce
    <2>1. /\ want' = disk.mode /\ want' \in ForceModes /\ active'[want']
      BY <1>21, Shapes DEF ResumeForce, Populated, ForceModes, Modes
    <2>2. ~NewestRestores'
      BY <1>21, RangeOne DEF ResumeForce, NewestRestores
    <2> QED
      BY <2>1, <2>2 DEF LastFacts, ForceModes
  <1>22. CASE ResumeExpired
    <2>1. want' = "normal" /\ NewestRestores'
      <3> DEFINE w == [op |-> "restore", mode |-> disk.mode, gen |-> gen + 1,
                       next |-> "cleanup", retry |-> 0]
      <3>1. writes' = <<w>> /\ gen' = gen + 1 /\ want' = "normal"
        BY <1>22 DEF ResumeExpired
      <3>2. w.op = "restore" /\ w.gen = gen + 1
        OBVIOUS
      <3> HIDE DEF w
      <3>3. w \in Range(writes')
        BY <3>1, RangeOne
      <3> QED
        BY <3>1, <3>2, <3>3 DEF NewestRestores
    <2> QED
      BY <2>1 DEF LastFacts, ForceModes
  <1>23. CASE UNCHANGED vars
    <2>1. /\ UNCHANGED <<want, gen>>
          /\ \A m \in ForceModes \cup {"self"} : active'[m] = active[m]
      BY <1>23, Shapes DEF vars, memory, ForceModes, Modes
    <2>2. /\ \A w \in Range(writes') : w.op = "self" \/ w \in Range(writes)
          /\ \A w \in Range(writes) : w.op = "restore" => w \in Range(writes')
      BY <1>23 DEF vars, memory
    <2>3. \A s \in Range(saves) : s.then = "self" => s \in Range(saves')
      BY <1>23 DEF vars, memory
    <2> QED
      BY <2>1, <2>2, <2>3, LastFrame
  <1> QED
    BY <1>1, <1>2, <1>3, <1>4, <1>5, <1>6, <1>7, <1>8, <1>9, <1>10, <1>11,
       <1>12, <1>13, <1>14, <1>15, <1>16, <1>17, <1>18, <1>19, <1>20, <1>21,
       <1>22, <1>23
       DEF Next, Command, WriteCompletes, CallbackRuns, Resume

\* On an in-order link whose writes succeed, and without hold SoC, at rest the
\* flag of the last command is on, and none is after a restore or an expiry.
LEMMA LastIsAlwaysShown ==
  ASSUME InOrder, Outcomes = {"ok"}, "hold" \notin Commands
  PROVE  Spec => [](TypeOK /\ TimedInvariant /\ LastIsShown)
  <1>1. Init => TimedInvariant
    BY TimedInit
  <1>2. Init => LastFacts
    <2>1. Init => want = "unknown"
      BY DEF Init
    <2> QED
      BY <2>1 DEF LastFacts, ForceModes
  <1>3. TypeOK /\ TimedInvariant /\ LastFacts /\ [Next]_vars
          => (TimedInvariant /\ LastFacts)'
    BY TimedStep, LastStep
  <1>4. TypeOK /\ LastFacts => LastIsShown
    <2> SUFFICES ASSUME TypeOK, LastFacts, Quiet
                 PROVE  /\ want \in ForceModes \cup {"self"} => active[want]
                        /\ want = "normal" => \A m \in ForceModes : ~active[m]
      BY DEF LastIsShown
    <2>1. Range(writes) = {} /\ Range(saves) = {}
      BY Shapes DEF Quiet
    <2> QED
      BY <2>1 DEF LastFacts, NewestRestores, SelfOnItsWay, NoForce
  <1> QED
    BY <1>1, <1>2, <1>3, <1>4, TypeCorrect, PTL DEF Spec

\* A command for this force mode waits for the inverter.
Waits(m) == \E w \in Range(writes) : w.op = "force" /\ w.mode = m

\* A step claims a force mode, adds no flag that nobody waits to turn on, or
\* leaves no force mode at all.
Claims(m) ==
  /\ want' = m /\ ~active'[Other(m)] /\ Waits(m)'
  /\ \A k \in ForceModes : Waits(k)' => Waits(k) \/ k = m
Stays ==
  /\ want' = want
  /\ \A m \in ForceModes : /\ active'[m] => active[m] \/ Waits(m)
                           /\ Waits(m)' => Waits(m)
Empties == want' = "unknown" /\ NoForce'

\* A step that leaves the last command, the flags and the waiting force commands.
LEMMA StaysFrame ==
  ASSUME want' = want, \A m \in ForceModes : active'[m] => active[m],
         \A w \in Range(writes') : w.op = "force" => w \in Range(writes)
  PROVE  Stays
  BY DEF Stays, Waits

\* Every step is one of these, or asks for normal operation or self consumption.
LEMMA FlagSteps ==
  ASSUME TypeOK, DownIsEmpty, [Next]_vars
  PROVE  \/ want' \in {"normal", "self"} \/ Stays \/ Empties
         \/ \E m \in ForceModes : Claims(m)
  <1> DEFINE Goal == \/ want' \in {"normal", "self"} \/ Stays \/ Empties
                     \/ \E m \in ForceModes : Claims(m)
  <1>1. ASSUME NEW m \in ForceModes, ForceCommand(m)
       PROVE  Goal
    <2>1. IssueForce(m, "none")
      BY <1>1 DEF ForceCommand
    <2>2. want' = m /\ ~active'[Other(m)]
      BY <2>1, Shapes DEF IssueForce, Other, ForceModes, Modes
    <2>3. \E w \in Range(writes') :
             w.op = "force" /\ w.mode = m /\ Range(writes') = Range(writes) \cup {w}
      BY <2>1, ForceIssued
    <2>4. Claims(m)
      BY <2>2, <2>3 DEF Claims, Waits
    <2> QED
      BY <2>4
  <1>2. CASE RestoreCommand
    BY <1>2 DEF RestoreCommand
  <1>3. CASE HoldCommand
    <2>1. want' = want /\ \A m \in ForceModes : active'[m] => active[m]
      BY <1>3, Shapes DEF HoldCommand, ForceModes, Modes
    <2>2. \A w \in Range(writes') : w.op = "force" => w \in Range(writes)
      BY <1>3, HoldIssued
    <2> QED
      BY <2>1, <2>2, StaysFrame
  <1>4. CASE SelfCommand
    BY <1>4 DEF SelfCommand, Engage
  <1>5. ASSUME NEW i \in DOMAIN writes, ForceWritten(i)
       PROVE  Goal
    <2>1. /\ want' = want /\ writes[i].op = "force"
          /\ \A m \in ForceModes : active'[m] => active[m] \/ m = writes[i].mode
      BY <1>5, Shapes DEF ForceWritten, ForceModes, Modes
    <2>2. writes[i] \in Range(writes) /\ Range(writes') \subseteq Range(writes)
      BY <1>5, Completed DEF ForceWritten
    <2> QED
      BY <2>1, <2>2 DEF Stays, Waits
  <1>6. ASSUME NEW i \in DOMAIN writes,
               \/ ForceNotWritten(i) \/ HoldWritten(i) \/ HoldNotWritten(i)
               \/ SelfWriteCompletes(i) \/ RestoreConfirmed(i)
       PROVE  Goal
    <2>1. want' = want /\ \A m \in ForceModes : active'[m] => active[m]
      BY <1>6, Shapes
         DEF ForceNotWritten, HoldWritten, HoldNotWritten, SelfWriteCompletes,
             RestoreConfirmed, ForceModes, Modes
    <2>2. Range(writes') \subseteq Range(writes)
      BY <1>6, Completed
         DEF ForceNotWritten, HoldWritten, HoldNotWritten, SelfWriteCompletes,
             RestoreConfirmed
    <2> QED
      BY <2>1, <2>2, StaysFrame
  <1>7. ASSUME NEW i \in DOMAIN writes, RestoreSuperseded(i) \/ RestoreSwallowed(i)
       PROVE  Goal
    <2>1. /\ AfterReturn(writes[i].next, writes[i].mode, writes[i].retry, saves)
          /\ writes' = RemoveAt(writes, i)
      BY <1>7 DEF RestoreSuperseded, RestoreSwallowed
    <2>2. want' = "self" \/ UNCHANGED <<active, want>>
      BY <2>1 DEF AfterReturn, Engage
    <2>3. Range(writes') \subseteq Range(writes)
      BY <2>1, Completed
    <2> QED
      BY <2>2, <2>3, StaysFrame
  <1>8. ASSUME NEW i \in DOMAIN writes, RestoreRefused(i)
       PROVE  Goal
    <2>1. UNCHANGED <<active, want>> /\ Range(writes') \subseteq Range(writes)
      BY <1>8, Completed DEF RestoreRefused
    <2> QED
      BY <2>1, StaysFrame
  <1>9. CASE SaveCompletes
    <2>1. CASE Head(saves).then = "selfwrite"
      BY <1>9, <2>1, SelfWriteJoins, StaysFrame
    <2>2. CASE Head(saves).then = "replay"
      <3>1. UNCHANGED <<active, writes, want>>
        BY <1>9, <2>2 DEF SaveCompletes
      <3> QED
        BY <3>1, StaysFrame
    <2>3. CASE Head(saves).then \notin {"selfwrite", "replay"}
      <3>1. /\ AfterReturn(Head(saves).then, Head(saves).mode, Head(saves).retry,
                           Tail(saves))
            /\ UNCHANGED writes
        BY <1>9, <2>3 DEF SaveCompletes
      <3>2. want' = "self" \/ UNCHANGED <<active, want>>
        BY <3>1 DEF AfterReturn, Engage
      <3> QED
        BY <3>1, <3>2, StaysFrame
    <2> QED
      BY <2>1, <2>2, <2>3
  <1>10. ASSUME NEW m \in Modes, BecomesDue(m)
        PROVE  Goal
    <2>1. UNCHANGED <<active, writes, want>>
      BY <1>10 DEF BecomesDue
    <2> QED
      BY <2>1, StaysFrame
  <1>11. ASSUME NEW t \in loose, ExpiryRestores(t)
        PROVE  Goal
    BY <1>11 DEF ExpiryRestores
  <1>12. ASSUME NEW t \in loose, ExpirySkipped(t)
        PROVE  Goal
    <2>1. UNCHANGED <<writes, want>> /\ \A m \in ForceModes : active'[m] = active[m]
      BY <1>12, Shapes DEF ExpirySkipped, ForceModes, Modes
    <2> QED
      BY <2>1, StaysFrame
  <1>13. CASE Restart
    <2>1. /\ want' = "unknown" /\ writes' = <<>>
          /\ \A m \in ForceModes : ~active'[m]
      BY <1>13 DEF Restart, ForceModes, Modes
    <2>2. Empties
      BY <2>1, Shapes DEF Empties, NoForce
    <2> QED
      BY <2>2
  <1>14. CASE NothingToResume \/ ResumeTimer
    <2>1. UNCHANGED <<writes, want>> /\ \A m \in ForceModes : active'[m] = active[m]
      BY <1>14, Shapes
         DEF NothingToResume, ResumeTimer, Populated, memory, ForceModes, Modes
    <2> QED
      BY <2>1, StaysFrame
  <1>15. CASE ResumeForce
    <2>1. PICK m \in ForceModes : m = disk.mode
      BY <1>15 DEF ResumeForce
    <2>2. want' = m /\ ~active'[Other(m)]
      BY <1>15, <2>1, Shapes
         DEF ResumeForce, Populated, DownIsEmpty, Other, ForceModes, Modes
    <2>3. Waits(m)' /\ \A k \in ForceModes : Waits(k)' => k = m
      <3> DEFINE w == [op |-> "force", mode |-> m, gen |-> gen + 1,
                       next |-> "replay", retry |-> 0]
      <3>1. writes' = <<w>> /\ w.op = "force" /\ w.mode = m
        BY <1>15, <2>1 DEF ResumeForce
      <3> HIDE DEF w
      <3>2. Range(writes') = {w}
        BY <3>1, RangeOne
      <3> QED
        BY <3>1, <3>2 DEF Waits
    <2> QED
      BY <2>2, <2>3 DEF Claims
  <1>16. CASE ResumeExpired
    BY <1>16 DEF ResumeExpired
  <1>17. CASE UNCHANGED vars
    BY <1>17, StaysFrame DEF vars, memory
  <1> QED
    BY <1>1, <1>2, <1>3, <1>4, <1>5, <1>6, <1>7, <1>8, <1>9, <1>10, <1>11,
       <1>12, <1>13, <1>14, <1>15, <1>16, <1>17
       DEF Next, Command, WriteCompletes, CallbackRuns, Resume

\* A force mode that is on or on its way is the last command's, unless that is
\* one for normal operation or self consumption.
OnlyLastFacts ==
  \A m \in ForceModes :
    active[m] \/ Waits(m) => want \in {m, "normal", "self"}

\* What has been asked since the start.
AskedFacts ==
  /\ want \in ForceModes \cup {"normal", "self", "unknown"}
  /\ want = "unknown" => NoForce

LEMMA AskedStep ==
  ASSUME TypeOK, DownIsEmpty, AskedFacts, [Next]_vars
  PROVE  AskedFacts'
  <1>1. CASE want' \in {"normal", "self"}
    BY <1>1 DEF AskedFacts
  <1>2. CASE Stays
    <2>1. NoForce <=> \A m \in ForceModes : ~active[m] /\ ~Waits(m)
      BY Shapes DEF NoForce, Waits, Write
    <2>2. NoForce' <=> \A m \in ForceModes : ~active'[m] /\ ~Waits(m)'
      BY Shapes, TypeStep DEF NoForce, Waits, Write, TypeOK, Range
    <2> QED
      BY <1>2, <2>1, <2>2 DEF AskedFacts, Stays
  <1>3. CASE Empties
    BY <1>3 DEF AskedFacts, Empties
  <1>4. CASE \E m \in ForceModes : Claims(m)
    BY <1>4 DEF AskedFacts, Claims, ForceModes
  <1> QED
    BY <1>1, <1>2, <1>3, <1>4, FlagSteps

LEMMA OnlyLastStep ==
  ASSUME TypeOK, DownIsEmpty, OnlyLastFacts, ~BothWrite', [Next]_vars
  PROVE  OnlyLastFacts'
  <1>1. CASE want' \in {"normal", "self"}
    BY <1>1 DEF OnlyLastFacts
  <1>2. CASE Stays
    BY <1>2 DEF OnlyLastFacts, Stays
  <1>3. CASE Empties
    <2>1. \A m \in ForceModes : ~active'[m] /\ ~Waits(m)'
      BY <1>3 DEF Empties, NoForce, Waits
    <2> QED
      BY <2>1 DEF OnlyLastFacts
  <1>4. ASSUME NEW m \in ForceModes, Claims(m) PROVE OnlyLastFacts'
    <2>1. ForceModes = {m, Other(m)}
      BY DEF ForceModes, Other
    <2>2. ~Waits(Other(m))'
      <3>1. BothWrite' <=> \A k \in ForceModes : Waits(k)'
        BY DEF BothWrite, Waits, Range
      <3> QED
        BY <1>4, <2>1, <3>1 DEF Claims
    <2> QED
      BY <1>4, <2>1, <2>2 DEF OnlyLastFacts, Claims
  <1> QED
    BY <1>1, <1>2, <1>3, <1>4, FlagSteps

\* On an in-order link whose writes succeed, and without hold SoC: at rest the
\* flag of the last command or live expiry is on, however many handlers
\* overlapped with it and across restarts; and from any rest, until two force
\* modes wait for the inverter together, no force flag but the last command's is.
\* A handler that a newer command overtook switches that command's mode neither
\* on nor off (_restore_superseded and the generation checks of the handlers).
THEOREM LastCommandHolds ==
  ASSUME InOrder, Outcomes = {"ok"}, "hold" \notin Commands
  PROVE  Spec => LastCommandWins
  <1>1. Init => AskedFacts
    BY DEF Init, AskedFacts, NoForce, ForceModes, Modes, Range
  <1>2. TypeOK /\ TimedInvariant /\ AskedFacts /\ [Next]_vars => AskedFacts'
    BY AskedStep DEF TimedInvariant
  <1>3. TypeOK /\ TimedInvariant /\ AskedFacts /\ LastIsShown /\ Settled
          => OnlyLastFacts
    <2> SUFFICES ASSUME TypeOK, TimedInvariant, AskedFacts, LastIsShown, Settled
                 PROVE  OnlyLastFacts
      OBVIOUS
    <2>1. CASE ~up
      <3>1. \A m \in ForceModes : ~active[m] /\ ~Waits(m)
        BY <2>1, Shapes DEF TimedInvariant, DownIsEmpty, Waits, ForceModes, Modes
      <3> QED
        BY <3>1 DEF OnlyLastFacts
    <2>2. CASE up
      <3>1. Quiet /\ MutualExclusion
        BY <2>2 DEF Settled
      <3>2. \A m \in ForceModes : ~Waits(m)
        BY <3>1, Shapes DEF Quiet, Waits
      <3>3. \A m \in ForceModes : active[m] => want \in {m, "normal", "self"}
        BY <3>1 DEF AskedFacts, NoForce, LastIsShown, MutualExclusion, ForceModes
      <3> QED
        BY <3>2, <3>3 DEF OnlyLastFacts
    <2> QED
      BY <2>1, <2>2
  <1>4. TypeOK /\ TimedInvariant /\ OnlyLastFacts /\ ~BothWrite' /\ [Next]_vars
          => OnlyLastFacts'
    BY OnlyLastStep DEF TimedInvariant
  <1>5. OnlyLastFacts /\ LastIsShown => OnlyLastIsShown
    BY DEF OnlyLastFacts, LastIsShown, OnlyLastIsShown
  <1>6. Spec => [](TypeOK /\ TimedInvariant /\ LastIsShown)
    BY LastIsAlwaysShown
  <1> QED
    BY <1>1, <1>2, <1>3, <1>4, <1>5, <1>6, PTL DEF Spec, LastCommandWins

-----------------------------------------------------------------------------
(* The inverter, when only the force modes are commanded                   *)

\* Only force modes and restores are at work, stored and on.
OnlyForceModes ==
  /\ \A w \in Range(writes) : w.op \in {"force", "restore"} /\ w.next # "self"
  /\ \A s \in Range(saves) : s.then \notin {"self", "selfwrite"}
  /\ disk.mode \in ForceModes \cup {"none"}
  /\ \A m \in Modes : active[m] => m \in ForceModes

\* The newest command is on its way, or the inverter does what it asked for.
HwFacts ==
  /\ want \notin {"hold", "self"}
  /\ \A w \in Range(writes) : w.op = "force" /\ w.gen = gen => w.mode = want
  /\ want \in ForceModes => \/ writes = <<>> /\ hw = want
                            \/ \E w \in Range(writes) : w.gen = gen
  /\ want = "unknown" => NoForce /\ writes = <<>>

\* What AfterReturn leaves to a caller other than self consumption.
LEMMA ReturnsQuietly ==
  ASSUME NEW next, next # "self", NEW m, NEW r, NEW before \in Seq(Save),
         AfterReturn(next, m, r, before)
  PROVE  /\ \A s \in Range(saves') : s \in Range(before) \/ s.then = "clear"
         /\ UNCHANGED <<active, timed, armed, gen, want>>
         /\ Range(before) \subseteq Range(saves')
  <1>1. UNCHANGED <<active, timed, armed, gen, want>>
    BY DEF AfterReturn
  <1>2. \/ Range(saves') = Range(before)
        \/ Range(saves') = Range(before) \cup {Saving("clear", "none", 0)}
    BY ReturnJoins
  <1>3. Saving("clear", "none", 0).then = "clear"
    BY SavingFields
  <1> QED
    BY <1>1, <1>2, <1>3

\* The record is of a force session when nothing else is on.
LEMMA SnapshotOfForce ==
  ASSUME TypeOK, \A m \in Modes : active[m] => m \in ForceModes
  PROVE  Snapshot.mode \in ForceModes \cup {"none"}
  <1>1. ~active["hold"] /\ ~active["self"]
    BY DEF Modes, ForceModes
  <1>2. CASE active["charge"]
    BY <1>2 DEF Snapshot, ForceModes
  <1>3. CASE ~active["charge"] /\ active["discharge"]
    BY <1>3 DEF Snapshot, ForceModes
  <1>4. CASE ~active["charge"] /\ ~active["discharge"]
    BY <1>1, <1>4 DEF Snapshot, NoSession
  <1> QED
    BY <1>2, <1>3, <1>4

\* HwFacts is kept while command, queue and inverter stay.
LEMMA HwFrame ==
  ASSUME HwFacts, UNCHANGED <<want, gen, hw, writes, active>>
  PROVE  HwFacts'
  BY DEF HwFacts, NoForce

\* Every step keeps OnlyForceModes.
LEMMA OnlyForceStep ==
  ASSUME Commands \cap {"hold", "self"} = {}, TypeOK, DownIsEmpty,
         OnlyForceModes, [Next]_vars
  PROVE  OnlyForceModes'
  <1>1. ASSUME NEW m \in ForceModes, ForceCommand(m)
       PROVE  OnlyForceModes'
    <2>0. IssueForce(m, "none") /\ UNCHANGED <<saves, disk>>
      BY <1>1 DEF ForceCommand
    <2>1. \A w \in Range(writes') :
            w.op \in {"force", "restore"} /\ w.next # "self"
      BY <1>1, Shapes, <2>0, ForceIssued DEF OnlyForceModes
    <2>2. \A s \in Range(saves') : s.then \notin {"self", "selfwrite"}
      BY <1>1, Shapes, <2>0 DEF OnlyForceModes
    <2>3. /\ disk'.mode \in ForceModes \cup {"none"}
          /\ \A k \in Modes : active'[k] => k \in ForceModes
      BY <2>0, Shapes DEF OnlyForceModes, IssueForce, Other, ForceModes, Modes
    <2> QED
      BY <2>1, <2>2, <2>3 DEF OnlyForceModes
  <1>2. CASE RestoreCommand
    <2>1. \A w \in Range(writes') :
            w.op \in {"force", "restore"} /\ w.next # "self"
      BY <1>2, Shapes, RestoreCommandJoins DEF OnlyForceModes, RestoreJoins
    <2>2. \A s \in Range(saves') : s.then \notin {"self", "selfwrite"}
      BY <1>2, Shapes DEF OnlyForceModes, RestoreCommand
    <2>3. /\ disk'.mode \in ForceModes \cup {"none"}
          /\ \A m \in Modes : active'[m] => m \in ForceModes
      BY <1>2, Shapes
         DEF OnlyForceModes, RestoreCommand, IssueRestore, ForceModes, Modes
    <2> QED
      BY <2>1, <2>2, <2>3 DEF OnlyForceModes
  <1>3. CASE HoldCommand
    BY <1>3 DEF HoldCommand, Admitted
  <1>4. CASE SelfCommand
    BY <1>4 DEF SelfCommand, Admitted
  <1>5. ASSUME NEW i \in DOMAIN writes, ForceWritten(i)
       PROVE  OnlyForceModes'
    <2>1. \A w \in Range(writes') :
            w.op \in {"force", "restore"} /\ w.next # "self"
      BY <1>5, Shapes, Completed DEF OnlyForceModes, ForceWritten
    <2>2. \A s \in Range(saves') : s.then \notin {"self", "selfwrite"}
      BY <1>5, ForceWrittenSaves, SavingFields DEF OnlyForceModes
    <2>3. /\ disk'.mode \in ForceModes \cup {"none"}
          /\ \A m \in Modes : active'[m] => m \in ForceModes
      BY <1>5, Shapes, ForceWrittenSaves
         DEF OnlyForceModes, ForceWritten, Modes
    <2> QED
      BY <2>1, <2>2, <2>3 DEF OnlyForceModes
  <1>6. ASSUME NEW i \in DOMAIN writes, ForceNotWritten(i)
       PROVE  OnlyForceModes'
    <2>1. \A w \in Range(writes') :
            w.op \in {"force", "restore"} /\ w.next # "self"
      BY <1>6, Shapes, Completed DEF OnlyForceModes, ForceNotWritten
    <2>2. \A s \in Range(saves') : s.then \notin {"self", "selfwrite"}
      BY <1>6, Shapes DEF OnlyForceModes, ForceNotWritten
    <2>3. /\ disk'.mode \in ForceModes \cup {"none"}
          /\ \A m \in Modes : active'[m] => m \in ForceModes
      BY <1>6, Shapes DEF OnlyForceModes, ForceNotWritten, ForceModes, Modes
    <2> QED
      BY <2>1, <2>2, <2>3 DEF OnlyForceModes
  <1>7. ASSUME NEW i \in DOMAIN writes, HoldWritten(i)
       PROVE  OnlyForceModes'
    BY <1>7, Completed DEF HoldWritten, OnlyForceModes
  <1>8. ASSUME NEW i \in DOMAIN writes, HoldNotWritten(i)
       PROVE  OnlyForceModes'
    BY <1>8, Completed DEF HoldNotWritten, OnlyForceModes
  <1>9. ASSUME NEW i \in DOMAIN writes, SelfWriteCompletes(i)
       PROVE  OnlyForceModes'
    BY <1>9, Completed DEF SelfWriteCompletes, OnlyForceModes
  <1>10. ASSUME NEW i \in DOMAIN writes, RestoreConfirmed(i)
        PROVE  OnlyForceModes'
    <2>0. writes[i].next # "self"
      BY <1>10, Completed DEF OnlyForceModes, RestoreConfirmed
    <2>1. \A w \in Range(writes') :
            w.op \in {"force", "restore"} /\ w.next # "self"
      BY <1>10, Shapes, Completed DEF OnlyForceModes, RestoreConfirmed
    <2>2. \A s \in Range(saves') : s.then \notin {"self", "selfwrite"}
      BY <2>0, <1>10, RestoreConfirmedSaves, SavingFields DEF OnlyForceModes
    <2>3. /\ disk'.mode \in ForceModes \cup {"none"}
          /\ \A m \in Modes : active'[m] => m \in ForceModes
      BY <1>10, Shapes DEF OnlyForceModes, RestoreConfirmed, ForceModes, Modes
    <2> QED
      BY <2>1, <2>2, <2>3 DEF OnlyForceModes
  <1>11. ASSUME NEW i \in DOMAIN writes, RestoreSuperseded(i)
        PROVE  OnlyForceModes'
    <2>0. /\ writes' = RemoveAt(writes, i) /\ writes[i].next # "self"
          /\ AfterReturn(writes[i].next, writes[i].mode, writes[i].retry, saves)
          /\ UNCHANGED disk
      BY <1>11, Completed DEF OnlyForceModes, RestoreSuperseded
    <2>1. /\ Range(writes') \subseteq Range(writes) /\ UNCHANGED active
          /\ \A s \in Range(saves') : s \in Range(saves) \/ s.then = "clear"
      BY <2>0, Shapes, Completed, ReturnsQuietly
    <2> QED
      BY <2>0, <2>1 DEF OnlyForceModes
  <1>12. ASSUME NEW i \in DOMAIN writes, RestoreSwallowed(i)
        PROVE  OnlyForceModes'
    <2>0. /\ writes' = RemoveAt(writes, i) /\ writes[i].next # "self"
          /\ AfterReturn(writes[i].next, writes[i].mode, writes[i].retry, saves)
          /\ UNCHANGED disk
      BY <1>12, Completed DEF OnlyForceModes, RestoreSwallowed
    <2>1. /\ Range(writes') \subseteq Range(writes) /\ UNCHANGED active
          /\ \A s \in Range(saves') : s \in Range(saves) \/ s.then = "clear"
      BY <2>0, Shapes, Completed, ReturnsQuietly
    <2> QED
      BY <2>0, <2>1 DEF OnlyForceModes
  <1>13. ASSUME NEW i \in DOMAIN writes, RestoreRefused(i)
        PROVE  OnlyForceModes'
    <2>0. /\ writes' = RemoveAt(writes, i) /\ UNCHANGED <<active, disk>>
      BY <1>13 DEF RestoreRefused
    <2>1. Saving("clear", "none", 0) \in Save /\ Saving("clear", "none", 0).then = "clear"
      BY DEF Saving, Save, MaxRetries
    <2>2. \A s \in Range(saves') : s \in Range(saves) \/ s.then = "clear"
      BY <1>13, <2>1, Shapes, SaveQueued DEF RestoreRefused
    <2>3. Range(writes') \subseteq Range(writes)
      BY <2>0, Completed
    <2> QED
      BY <2>0, <2>2, <2>3 DEF OnlyForceModes
  <1>14. CASE SaveCompletes
    <2>0. /\ Tail(saves) \in Seq(Save) /\ Range(Tail(saves)) \subseteq Range(saves)
          /\ Head(saves).then \notin {"self", "selfwrite"}
      BY <1>14, SaveServed DEF OnlyForceModes, SaveCompletes
    <2>1. disk' = NoSession \/ disk' = Snapshot
      BY <1>14 DEF SaveCompletes
    <2>2. disk'.mode \in ForceModes \cup {"none"}
      BY <2>1, SnapshotOfForce DEF OnlyForceModes, NoSession
    <2>3. /\ UNCHANGED <<active, writes>>
          /\ \A s \in Range(saves') : s \in Range(saves) \/ s.then = "clear"
      <3>1. CASE Head(saves).then = "replay"
        BY <1>14, <2>0, <3>1 DEF SaveCompletes
      <3>2. CASE Head(saves).then # "replay"
        <4>1. /\ UNCHANGED writes
              /\ AfterReturn(Head(saves).then, Head(saves).mode,
                             Head(saves).retry, Tail(saves))
          BY <1>14, <2>0, <3>2 DEF SaveCompletes
        <4> QED
          BY <2>0, <4>1, ReturnsQuietly
      <3> QED
        BY <3>1, <3>2
    <2> QED
      BY <2>2, <2>3 DEF OnlyForceModes
  <1>15. ASSUME NEW m \in Modes, BecomesDue(m)
        PROVE  OnlyForceModes'
    <2>1. \A w \in Range(writes') :
            w.op \in {"force", "restore"} /\ w.next # "self"
      BY <1>15, Shapes DEF OnlyForceModes, BecomesDue
    <2>2. \A s \in Range(saves') : s.then \notin {"self", "selfwrite"}
      BY <1>15, Shapes DEF OnlyForceModes, BecomesDue
    <2>3. /\ disk'.mode \in ForceModes \cup {"none"}
          /\ \A k \in Modes : active'[k] => k \in ForceModes
      BY <1>15, Shapes DEF OnlyForceModes, BecomesDue, ForceModes, Modes
    <2> QED
      BY <2>1, <2>2, <2>3 DEF OnlyForceModes
  <1>16. ASSUME NEW t \in loose, ExpiryRestores(t)
        PROVE  OnlyForceModes'
    <2>0. UNCHANGED <<saves, disk>> /\ \A m \in Modes : active'[m] => active[m]
      BY <1>16, ExpiryJoins DEF ExpiryRestores, IssueRestore
    <2>1. \A w \in Range(writes') :
            \/ w \in Range(writes)
            \/ w.op = "restore" /\ w.next \in {"none", "cleanup"}
      BY <1>16, ExpiryJoins DEF RestoreJoins
    <2> QED
      BY <2>0, <2>1 DEF OnlyForceModes
  <1>17. ASSUME NEW t \in loose, ExpirySkipped(t)
        PROVE  OnlyForceModes'
    <2>0. UNCHANGED <<writes, disk>> /\ \A m \in Modes : active'[m] => active[m]
      BY <1>17, Shapes DEF ExpirySkipped, Modes
    <2>1. \A s \in Range(saves') : s \in Range(saves) \/ s.then = "none"
      BY <1>17, SkippedSaves, SavingFields
    <2> QED
      BY <2>0, <2>1 DEF OnlyForceModes
  <1>18. CASE Restart
    <2>1. \A w \in Range(writes') :
            w.op \in {"force", "restore"} /\ w.next # "self"
      BY <1>18, Shapes DEF OnlyForceModes, Restart
    <2>2. \A s \in Range(saves') : s.then \notin {"self", "selfwrite"}
      BY <1>18, Shapes DEF OnlyForceModes, Restart
    <2>3. /\ disk'.mode \in ForceModes \cup {"none"}
          /\ \A m \in Modes : active'[m] => m \in ForceModes
      BY <1>18, Shapes DEF OnlyForceModes, Restart, ForceModes, Modes
    <2> QED
      BY <2>1, <2>2, <2>3 DEF OnlyForceModes
  <1>19. CASE NothingToResume
    <2>1. \A w \in Range(writes') :
            w.op \in {"force", "restore"} /\ w.next # "self"
      BY <1>19, Shapes DEF OnlyForceModes, NothingToResume, memory
    <2>2. \A s \in Range(saves') : s.then \notin {"self", "selfwrite"}
      BY <1>19, Shapes DEF OnlyForceModes, NothingToResume, memory
    <2>3. /\ disk'.mode \in ForceModes \cup {"none"}
          /\ \A m \in Modes : active'[m] => m \in ForceModes
      BY <1>19, Shapes
         DEF OnlyForceModes, NothingToResume, memory, memory, ForceModes,
             Modes
    <2> QED
      BY <2>1, <2>2, <2>3 DEF OnlyForceModes
  <1>20. CASE ResumeTimer
    BY <1>20 DEF ResumeTimer, OnlyForceModes, ForceModes
  <1>21. CASE ResumeForce
    <2>1. \A w \in Range(writes') :
            w.op \in {"force", "restore"} /\ w.next # "self"
      BY <1>21, Shapes, RangeOne DEF OnlyForceModes, ResumeForce
    <2>2. \A s \in Range(saves') : s.then \notin {"self", "selfwrite"}
      BY <1>21, Shapes DEF OnlyForceModes, ResumeForce
    <2>3. /\ disk'.mode \in ForceModes \cup {"none"}
          /\ \A m \in Modes : active'[m] => m \in ForceModes
      BY <1>21, Shapes
         DEF OnlyForceModes, ResumeForce, Populated, DownIsEmpty, ForceModes,
             Modes
    <2> QED
      BY <2>1, <2>2, <2>3 DEF OnlyForceModes
  <1>22. CASE ResumeExpired
    <2>1. \A w \in Range(writes') :
            w.op \in {"force", "restore"} /\ w.next # "self"
      BY <1>22, Shapes, RangeOne DEF OnlyForceModes, ResumeExpired
    <2>2. \A s \in Range(saves') : s.then \notin {"self", "selfwrite"}
      BY <1>22, Shapes DEF OnlyForceModes, ResumeExpired
    <2>3. /\ disk'.mode \in ForceModes \cup {"none"}
          /\ \A m \in Modes : active'[m] => m \in ForceModes
      BY <1>22, Shapes
         DEF OnlyForceModes, ResumeExpired, Populated, DownIsEmpty,
             ForceModes, Modes
    <2> QED
      BY <2>1, <2>2, <2>3 DEF OnlyForceModes
  <1>23. CASE UNCHANGED vars
    <2>1. \A w \in Range(writes') :
            w.op \in {"force", "restore"} /\ w.next # "self"
      BY <1>23, Shapes DEF OnlyForceModes, vars, memory
    <2>2. \A s \in Range(saves') : s.then \notin {"self", "selfwrite"}
      BY <1>23, Shapes DEF OnlyForceModes, vars, memory
    <2>3. /\ disk'.mode \in ForceModes \cup {"none"}
          /\ \A m \in Modes : active'[m] => m \in ForceModes
      BY <1>23, Shapes DEF OnlyForceModes, vars, memory, ForceModes, Modes
    <2> QED
      BY <2>1, <2>2, <2>3 DEF OnlyForceModes
  <1> QED
    BY <1>1, <1>2, <1>3, <1>4, <1>5, <1>6, <1>7, <1>8, <1>9, <1>10, <1>11,
       <1>12, <1>13, <1>14, <1>15, <1>16, <1>17, <1>18, <1>19, <1>20, <1>21,
       <1>22, <1>23
       DEF Next, Command, WriteCompletes, CallbackRuns, Resume

\* A write that waits is not newer than the newest command.
LEMMA OldGenerations ==
  ASSUME TypeOK, TimedInvariant
  PROVE  \A w \in Range(writes) : Bump(w) => w.gen # gen + 1
  <1>1. \A w \in Range(writes) : Bump(w) => w.gen \in Nat /\ w.gen <= gen
    BY Shapes DEF TimedInvariant, GenerationsInOrder, Ordered, Range, Write
  <1> QED
    BY <1>1, Shapes

\* Every step keeps HwFacts: the newest write is the last one to reach the
\* inverter.
LEMMA HwStep ==
  ASSUME InOrder, Outcomes = {"ok"}, Commands \cap {"hold", "self"} = {},
         TypeOK, TimedInvariant, LastFacts, OnlyForceModes, HwFacts, [Next]_vars
  PROVE  HwFacts'
  <1>1. ASSUME NEW m \in ForceModes, ForceCommand(m)
       PROVE  HwFacts'
    <2>1. IssueForce(m, "none")
      BY <1>1 DEF ForceCommand
    <2>2. want' = m /\ gen' = gen + 1
      BY <2>1 DEF IssueForce
    <2>3. PICK v \in Range(writes') :
            /\ v.op = "force" /\ v.mode = m /\ v.gen = gen + 1
            /\ Range(writes') = Range(writes) \cup {v}
      BY <2>1, ForceIssued
    <2>4. \A w \in Range(writes) : w.op = "force" => w.gen # gen + 1
      BY OldGenerations DEF Bump
    <2> QED
      BY <2>2, <2>3, <2>4 DEF HwFacts, ForceModes
  <1>2. CASE RestoreCommand
    <2>1. RestoreJoins("none") /\ gen' = gen + 1 /\ want' = "normal"
      BY <1>2, RestoreCommandJoins DEF RestoreCommand, IssueRestore
    <2>2. \A w \in Range(writes') : w.op = "force" => w \in Range(writes)
      BY <2>1 DEF RestoreJoins
    <2>3. \A w \in Range(writes) : w.op = "force" => w.gen # gen + 1
      BY OldGenerations DEF Bump
    <2> QED
      BY <2>1, <2>2, <2>3 DEF HwFacts, ForceModes
  <1>3. CASE HoldCommand
    BY <1>3 DEF HoldCommand, Admitted
  <1>4. CASE SelfCommand
    BY <1>4 DEF SelfCommand, Admitted
  <1>5. ASSUME NEW i \in DOMAIN writes, ForceWritten(i)
       PROVE  HwFacts'
    <2>1. /\ UNCHANGED <<want, gen>> /\ hw' = writes[i].mode
          /\ Completes(i) /\ Bump(writes[i]) /\ writes' = RemoveAt(writes, i)
      BY <1>5 DEF ForceWritten, Bump
    <2>2. /\ Range(writes') \subseteq Range(writes)
          /\ Range(writes) \subseteq Range(writes') \cup {writes[i]}
          /\ writes[i].op = "force" /\ writes[i] \in Range(writes) /\ writes # <<>>
      BY <1>5, <2>1, Completed DEF ForceWritten
    <2>3. ASSUME writes[i].gen = gen
          PROVE  writes' = <<>> /\ hw' = want
      <3>1. \A w \in Range(writes') : ~Bump(w)
        BY <2>1, <2>3, NothingBehindNewest
      <3>2. Range(writes') = {}
        BY <2>2, <3>1 DEF OnlyForceModes, Bump
      <3>3. writes' \in Seq(Write)
        BY <2>1, Shapes, RangeRemove
      <3> QED
        BY <2>1, <2>2, <2>3, <3>2, <3>3, RangeShort DEF HwFacts
    <2> QED
      BY <2>1, <2>2, <2>3 DEF HwFacts
  <1>6. ASSUME NEW i \in DOMAIN writes, ForceNotWritten(i)
       PROVE  HwFacts'
    BY <1>6 DEF ForceNotWritten
  <1>7. ASSUME NEW i \in DOMAIN writes, HoldWritten(i)
       PROVE  HwFacts'
    BY <1>7, Completed DEF HoldWritten, OnlyForceModes
  <1>8. ASSUME NEW i \in DOMAIN writes, HoldNotWritten(i)
       PROVE  HwFacts'
    BY <1>8 DEF HoldNotWritten
  <1>9. ASSUME NEW i \in DOMAIN writes, SelfWriteCompletes(i)
       PROVE  HwFacts'
    BY <1>9, Completed DEF SelfWriteCompletes, OnlyForceModes
  <1>10. ASSUME NEW i \in DOMAIN writes, RestoreConfirmed(i)
        PROVE  HwFacts'
    <2>1. /\ UNCHANGED <<want, gen>> /\ writes # <<>>
          /\ Range(writes') \subseteq Range(writes)
      BY <1>10, Completed DEF RestoreConfirmed
    <2>2. want \notin ForceModes
      BY <1>10, Completed DEF RestoreConfirmed, LastFacts, NewestRestores
    <2> QED
      BY <2>1, <2>2 DEF HwFacts
  <1>11. ASSUME NEW i \in DOMAIN writes, RestoreSuperseded(i)
        PROVE  HwFacts'
    <2>1. /\ writes[i].next # "self" /\ writes[i].gen # gen /\ writes # <<>>
          /\ Range(writes') \subseteq Range(writes)
          /\ Range(writes) \subseteq Range(writes') \cup {writes[i]}
      BY <1>11, Completed DEF RestoreSuperseded, OnlyForceModes
    <2>2. UNCHANGED <<want, gen>>
      BY <1>11, <2>1 DEF RestoreSuperseded, AfterReturn
    <2> QED
      BY <2>1, <2>2 DEF HwFacts
  <1>12. ASSUME NEW i \in DOMAIN writes, RestoreSwallowed(i)
        PROVE  HwFacts'
    BY <1>12 DEF RestoreSwallowed
  <1>13. ASSUME NEW i \in DOMAIN writes, RestoreRefused(i)
        PROVE  HwFacts'
    BY <1>13 DEF RestoreRefused
  <1>14. CASE SaveCompletes
    <2>1. Head(saves).then \notin {"self", "selfwrite"}
      BY <1>14, SaveServed DEF OnlyForceModes, SaveCompletes
    <2> QED
      BY <1>14, <2>1, HwFrame DEF SaveCompletes, AfterReturn
  <1>15. ASSUME NEW m \in Modes, BecomesDue(m)
        PROVE  HwFacts'
    BY <1>15, HwFrame DEF BecomesDue
  <1>16. ASSUME NEW t \in loose, ExpiryRestores(t)
        PROVE  HwFacts'
    <2>1. /\ gen' = gen + 1 /\ want' = "normal"
          /\ \E next \in {"none", "cleanup"} : RestoreJoins(next)
      BY <1>16, ExpiryJoins DEF ExpiryRestores, IssueRestore
    <2>2. \A w \in Range(writes') : w.op = "force" => w \in Range(writes)
      BY <2>1 DEF RestoreJoins
    <2>3. \A w \in Range(writes) : w.op = "force" => w.gen # gen + 1
      BY OldGenerations DEF Bump
    <2> QED
      BY <2>1, <2>2, <2>3 DEF HwFacts, ForceModes
  <1>17. ASSUME NEW t \in loose, ExpirySkipped(t)
        PROVE  HwFacts'
    <2>1. UNCHANGED <<want, gen, hw, writes>> /\ \A m \in ForceModes : active'[m] = active[m]
      BY <1>17, Shapes DEF ExpirySkipped, ForceModes, Modes
    <2> QED
      BY <2>1 DEF HwFacts, NoForce
  <1>18. CASE Restart
    <2>1. /\ want' = "unknown" /\ writes' = <<>> /\ Range(writes') = {}
          /\ \A m \in ForceModes : ~active'[m]
      BY <1>18, Shapes DEF Restart, ForceModes, Modes
    <2> QED
      BY <2>1 DEF HwFacts, NoForce, ForceModes
  <1>19. CASE NothingToResume
    BY <1>19, HwFrame DEF NothingToResume, memory
  <1>20. CASE ResumeTimer
    BY <1>20 DEF ResumeTimer, OnlyForceModes, ForceModes
  <1>21. CASE ResumeForce
    <2> DEFINE w == [op |-> "force", mode |-> disk.mode, gen |-> gen + 1,
                     next |-> "replay", retry |-> 0]
    <2>1. /\ writes' = <<w>> /\ gen' = gen + 1
          /\ want' = disk.mode /\ want' \in ForceModes
      BY <1>21 DEF ResumeForce
    <2>2. w.mode = disk.mode /\ w.gen = gen + 1
      OBVIOUS
    <2> HIDE DEF w
    <2>3. Range(writes') = {w}
      BY <2>1, RangeOne
    <2> QED
      BY <2>1, <2>2, <2>3 DEF HwFacts, ForceModes
  <1>22. CASE ResumeExpired
    <2>1. want' = "normal"
      BY <1>22 DEF ResumeExpired
    <2>2. \A w \in Range(writes') : w.op = "restore"
      BY <1>22, RangeOne DEF ResumeExpired
    <2> QED
      BY <2>1, <2>2 DEF HwFacts, ForceModes
  <1>23. CASE UNCHANGED vars
    BY <1>23, HwFrame DEF vars, memory
  <1> QED
    BY <1>1, <1>2, <1>3, <1>4, <1>5, <1>6, <1>7, <1>8, <1>9, <1>10, <1>11,
       <1>12, <1>13, <1>14, <1>15, <1>16, <1>17, <1>18, <1>19, <1>20, <1>21,
       <1>22, <1>23
       DEF Next, Command, WriteCompletes, CallbackRuns, Resume

\* On an in-order link whose writes succeed, and with the force modes and
\* restores alone, the inverter does at rest what the only active force mode
\* says: no write of an overtaken handler is the last one to reach it (the
\* generation re-checked after the await of the write).
THEOREM InverterIsInForce ==
  ASSUME InOrder, Outcomes = {"ok"}, Commands \cap {"hold", "self"} = {}
  PROVE  Spec => []InverterFollowsFlags
  <1> DEFINE I == TimedInvariant /\ LastFacts /\ OnlyForceModes /\ HwFacts
  <1>0. "hold" \notin Commands
    OBVIOUS
  <1>1. Init => I
    <2> SUFFICES ASSUME Init
                 PROVE  I
      OBVIOUS
    <2>1. /\ want = "unknown" /\ writes = <<>> /\ Range(writes) = {}
          /\ Range(saves) = {} /\ \A m \in Modes : ~active[m]
          /\ disk.mode = "none"
      BY DEF Init, Range, NoSession
    <2>2. LastFacts /\ HwFacts
      BY <2>1 DEF LastFacts, HwFacts, NoForce, ForceModes, Modes
    <2>3. OnlyForceModes
      BY <2>1 DEF OnlyForceModes
    <2> QED
      BY <2>2, <2>3, TimedInit
  <1>2. TypeOK /\ I /\ [Next]_vars => I'
    <2> SUFFICES ASSUME TypeOK, I, [Next]_vars
                 PROVE  I'
      OBVIOUS
    <2>1. DownIsEmpty
      BY DEF TimedInvariant
    <2> QED
      BY <1>0, <2>1, TimedStep, LastStep, OnlyForceStep, HwStep
  <1>3. TypeOK /\ I => InverterFollowsFlags
    <2> SUFFICES ASSUME TypeOK, I, Quiet, NEW m \in ForceModes, active[m],
                        \A x \in Modes \ {m} : ~active[x]
                 PROVE  hw = m
      BY DEF InverterFollowsFlags
    <2>1. writes = <<>> /\ Range(writes) = {} /\ ~NewestRestores /\ ~NoForce
      BY Shapes DEF Quiet, NewestRestores, NoForce
    <2>2. want \in ForceModes
      <3>1. want \in Modes \cup {"normal", "unknown"}
        BY DEF TypeOK
      <3> QED
        BY <2>1, <3>1 DEF LastFacts, HwFacts, Modes
    <2>3. active[want] /\ hw = want
      BY <2>1, <2>2 DEF LastFacts, HwFacts
    <2> QED
      BY <2>2, <2>3 DEF Modes
  <1> QED
    BY <1>1, <1>2, <1>3, TypeCorrect, PTL DEF Spec

-----------------------------------------------------------------------------
(***************************************************************************)
(* Why a force session that nobody will end is still on disk, for any      *)
(* number of refused writes, expiries, cleanup attempts and restarts, and  *)
(* in whatever order the answers come: a force command and the cleanup of  *)
(* an expired session never share the queue with another handler, so that  *)
(* neither a save nor a timer of an older session gets in between.         *)
(***************************************************************************)

\* A write that waits for the inverter alone.
Solo(w) == w.op = "force" \/ w.next = "cleanup"

\* A callback, or one of another cleanup attempt, of the generation in force.
LiveCallback ==
  \/ \E m \in Modes : armed[m] # NoTimer /\ armed[m].gen = gen
  \/ \E t \in loose : t.gen = gen
\* Another cleanup attempt is due in the generation in force.
RetryLives ==
  \/ \E m \in Modes : /\ armed[m] # NoTimer
                      /\ armed[m].gen = gen /\ armed[m].retry # 0
  \/ \E t \in loose : t.gen = gen /\ t.retry # 0

\* No callback is from the future.
NoFuture ==
  /\ \A m \in Modes : armed[m].gen <= gen
  /\ \A t \in loose : t.gen <= gen

\* A force command or a cleanup waits alone, with the newest generation,
\* nothing to save and no callback alive; and a cleanup attempt comes due
\* only when no handler is at work.
SoloFacts ==
  /\ NoFuture
  /\ \A w \in Range(writes) :
       Solo(w) => Len(writes) = 1 /\ saves = <<>> /\ w.gen = gen /\ ~LiveCallback
  /\ RetryLives => writes = <<>> /\ saves = <<>>

\* Cleanups, timers and stored sessions are of the force modes.
OfForceModes ==
  /\ \A w \in Range(writes) : w.next = "cleanup" => w.mode \in ForceModes
  /\ \A m \in Modes : armed[m] # NoTimer => m \in ForceModes
  /\ \A t \in loose : t.mode \in ForceModes
  /\ disk.timed => disk.mode \in ForceModes

\* Some force mode is on.
ForceActive == \E m \in ForceModes : active[m]

\* The record, the handlers that will write it, and the inverter.
StoredFacts ==
  /\ \A s \in Range(saves) : s.then \in {"cleanup", "clear"} => NoForce
  /\ \A m \in ForceModes : active[m] /\ ~timed[m] => ForceQueued(m)
  /\ saves # <<>> /\ ~ForceActive => hw = "normal"
  /\ ForceActive => \/ disk.timed \/ saves # <<>>
                    \/ \E m \in ForceModes : ForceQueued(m)

-----------------------------------------------------------------------------
(* Lemmas about the operators                                              *)

\* What is written of a force session, and of none.
LEMMA SnapshotIsForce ==
  ASSUME TypeOK, OnlyForceModes
  PROVE  /\ ForceActive => \E m \in ForceModes :
              active[m] /\ Snapshot = [mode |-> m, timed |-> timed[m]]
         /\ ~ForceActive => Snapshot = NoSession
  <1>1. ~active["hold"] /\ ~active["self"]
    BY DEF OnlyForceModes, Modes, ForceModes
  <1>2. CASE active["charge"]
    BY <1>2 DEF Snapshot, ForceActive, ForceModes
  <1>3. CASE ~active["charge"] /\ active["discharge"]
    BY <1>3 DEF Snapshot, ForceActive, ForceModes
  <1>4. CASE ~active["charge"] /\ ~active["discharge"]
    BY <1>1, <1>4 DEF Snapshot, ForceActive, ForceModes
  <1> QED
    BY <1>2, <1>3, <1>4

\* The expiry of a live session adds a restore of its own generation.
LEMMA ExpiryAdds ==
  ASSUME TypeOK, NEW t \in loose, ExpiryRestores(t)
  PROVE  /\ \A w \in Range(writes') :
              \/ w \in Range(writes)
              \/ /\ w.op = "restore" /\ w.gen = gen + 1
                 /\ w.next = "cleanup" => w.mode = t.mode /\ t.retry # 0
         /\ Len(writes') = Len(writes) + 1
  <1>1. /\ 0 \in 0..MaxRetries /\ t.retry \in 0..MaxRetries /\ t.mode \in Modes
    BY DEF TypeOK, Due, MaxRetries
  <1>2. CASE t.retry = 0
    <2> DEFINE w == [op |-> "restore", mode |-> "none", gen |-> gen + 1,
                     next |-> "none", retry |-> 0]
    <2>1. IssueRestore(ExpirySource(t.mode), "none", "none", 0)
      BY <1>2 DEF ExpiryRestores
    <2>2. Range(writes') = Range(writes) \cup {w} /\ Len(writes') = Len(writes) + 1
      BY <1>1, <2>1, RestoreIssued
    <2>3. w.op = "restore" /\ w.gen = gen + 1 /\ w.next = "none"
      OBVIOUS
    <2> HIDE DEF w
    <2> QED
      BY <2>2, <2>3
  <1>3. CASE t.retry # 0
    <2> DEFINE w == [op |-> "restore", mode |-> t.mode, gen |-> gen + 1,
                     next |-> "cleanup", retry |-> t.retry]
    <2>1. IssueRestore("force_timer", "cleanup", t.mode, t.retry)
      BY <1>3 DEF ExpiryRestores
    <2>2. Range(writes') = Range(writes) \cup {w} /\ Len(writes') = Len(writes) + 1
      BY <1>1, <2>1, RestoreIssued
    <2>3. w.op = "restore" /\ w.gen = gen + 1 /\ w.mode = t.mode
      OBVIOUS
    <2> HIDE DEF w
    <2> QED
      BY <1>3, <2>2, <2>3
  <1> QED
    BY <1>2, <1>3

\* A handler that takes a generation leaves no callback alive.
LEMMA NewGeneration ==
  ASSUME TypeOK, NoFuture, armed' = NoTimers, gen' = gen + 1, loose' \subseteq loose
  PROVE  ~LiveCallback' /\ ~RetryLives' /\ NoFuture'
  <1>1. \A m \in Modes : armed'[m] = NoTimer
    BY DEF NoTimers
  <1>2. gen \in Nat /\ NoTimer.gen = 0
    BY Shapes DEF NoTimer
  <1>3. \A t \in loose : t.gen \in Nat /\ t.gen <= gen
    BY Shapes DEF Due, NoFuture
  <1>4. \A t \in loose' : t.gen # gen + 1 /\ t.gen <= gen + 1
    BY <1>2, <1>3
  <1> QED
    BY <1>1, <1>2, <1>4 DEF LiveCallback, RetryLives, NoFuture

\* The timer of a re-issued session is a live one, and no retry.
LEMMA RearmLives ==
  ASSUME TypeOK, NoFuture, NEW m \in Modes, RearmAfterReplay(m), UNCHANGED gen,
         ~RetryLives
  PROVE  ~RetryLives' /\ NoFuture'
  <1> DEFINE a == [gen |-> gen, restored |-> TRUE, retry |-> 0]
             c == Callback(m, armed[m])
  <1>1. armed' = [armed EXCEPT ![m] = a] /\ (loose' = loose \/
          (armed[m] # NoTimer /\ loose' = loose \cup {c}))
    BY DEF RearmAfterReplay
  <1>2. a.gen = gen /\ a.retry = 0 /\ gen \in Nat
    BY Shapes
  <1>3. c.gen = armed[m].gen /\ c.retry = armed[m].retry
    BY DEF Callback
  <1> HIDE DEF a, c
  <1>4. armed'[m] = a /\ \A x \in Modes \ {m} : armed'[x] = armed[x]
    BY <1>1, Shapes
  <1>5. NoFuture'
    BY <1>1, <1>2, <1>3, <1>4 DEF NoFuture
  <1>6. ~RetryLives'
    BY <1>1, <1>2, <1>3, <1>4 DEF RetryLives
  <1> QED
    BY <1>5, <1>6

\* A completed write leaves no lone one behind it.
LEMMA NoSoloLeft ==
  ASSUME TypeOK, SoloFacts, NEW i \in DOMAIN writes,
         writes' = RemoveAt(writes, i)
  PROVE  /\ \A w \in Range(writes') : ~Solo(w)
         /\ ~RetryLives
         /\ Solo(writes[i]) => /\ writes' = <<>> /\ saves = <<>>
                               /\ writes[i].gen = gen /\ ~LiveCallback
  <1>1. /\ writes' \in Seq(Write) /\ Len(writes') = Len(writes) - 1
        /\ Range(writes') \subseteq Range(writes)
        /\ writes[i] \in Range(writes) /\ writes # <<>>
    BY Shapes, RangeRemove, Completed
  <1>2. Len(writes) = 1 => writes' = <<>> /\ Range(writes') = {}
    <2>1. writes' = <<>> <=> Len(writes') = 0
      BY <1>1, RangeShort
    <2>2. writes' = <<>> <=> Range(writes') = {}
      BY <1>1, RangeShort
    <2> QED
      BY <1>1, <2>1, <2>2
  <1> QED
    BY <1>1, <1>2 DEF SoloFacts

-----------------------------------------------------------------------------
(* The invariants are kept                                                 *)

\* The timer of a re-issued session is a force mode's.
LEMMA RearmIsOfForceModes ==
  ASSUME TypeOK, OfForceModes, NEW m \in ForceModes, RearmAfterReplay(m)
  PROVE  /\ \A x \in Modes : armed'[x] # NoTimer => x \in ForceModes
         /\ \A t \in loose' : t.mode \in ForceModes
  BY Shapes DEF RearmAfterReplay, OfForceModes, Callback, Modes

\* Every step keeps OfForceModes.
LEMMA OfForceStep ==
  ASSUME MaxInFlight = 1, "raised" \notin Outcomes,
         Commands \cap {"hold", "self"} = {}, TypeOK, DownIsEmpty,
         OnlyForceModes, OfForceModes, [Next]_vars
  PROVE  OfForceModes'
  <1>1. ASSUME NEW m \in ForceModes, ForceCommand(m)
       PROVE  OfForceModes'
    <2>0. IssueForce(m, "none") /\ UNCHANGED <<loose, disk>>
      BY <1>1 DEF ForceCommand
    <2>1. \A w \in Range(writes') : w.next = "cleanup" => w.mode \in ForceModes
      BY <1>1, <2>0, ForceIssued DEF OfForceModes
    <2>2. \A k \in Modes : armed'[k] # NoTimer => k \in ForceModes
      BY <1>1, Shapes, <2>0 DEF OfForceModes, IssueForce, NoTimers
    <2>3. \A t \in loose' : t.mode \in ForceModes
      BY <1>1, <2>0 DEF OfForceModes
    <2>4. disk'.timed => disk'.mode \in ForceModes
      BY <1>1, <2>0 DEF OfForceModes
    <2> QED
      BY <2>1, <2>2, <2>3, <2>4 DEF OfForceModes
  <1>2. CASE RestoreCommand
    <2>1. \A w \in Range(writes') : w.next = "cleanup" => w.mode \in ForceModes
      BY <1>2, RestoreCommandJoins DEF OfForceModes, RestoreJoins
    <2>2. \A m \in Modes : armed'[m] # NoTimer => m \in ForceModes
      BY <1>2, Shapes DEF OfForceModes, RestoreCommand, IssueRestore, NoTimers
    <2>3. \A t \in loose' : t.mode \in ForceModes
      BY <1>2 DEF OfForceModes, RestoreCommand
    <2>4. disk'.timed => disk'.mode \in ForceModes
      BY <1>2 DEF OfForceModes, RestoreCommand
    <2> QED
      BY <2>1, <2>2, <2>3, <2>4 DEF OfForceModes
  <1>3. CASE HoldCommand
    BY <1>3 DEF HoldCommand, Admitted
  <1>4. CASE SelfCommand
    BY <1>4 DEF SelfCommand, Admitted
  <1>5. ASSUME NEW i \in DOMAIN writes, ForceWritten(i)
       PROVE  OfForceModes'
    <2>1. \A w \in Range(writes') : w.next = "cleanup" => w.mode \in ForceModes
      BY <1>5, Completed DEF OfForceModes, ForceWritten
    <2>2. \A m \in Modes : armed'[m] # NoTimer => m \in ForceModes
      BY <1>5, Shapes, ForceWrittenSaves DEF OfForceModes, ForceWritten
    <2>3. \A t \in loose' : t.mode \in ForceModes
      BY <1>5 DEF OfForceModes, ForceWritten
    <2>4. disk'.timed => disk'.mode \in ForceModes
      BY <1>5 DEF OfForceModes, ForceWritten
    <2> QED
      BY <2>1, <2>2, <2>3, <2>4 DEF OfForceModes
  <1>6. ASSUME NEW i \in DOMAIN writes, ForceNotWritten(i)
       PROVE  OfForceModes'
    <2>0. writes[i].mode \in ForceModes /\ ForceModes \subseteq Modes
      BY <1>6, Completed DEF ForceNotWritten, Write, Modes
    <2>1. \A w \in Range(writes') : w \in Range(writes)
      BY <1>6, Completed DEF ForceNotWritten
    <2>2. UNCHANGED disk
      BY <1>6 DEF ForceNotWritten
    <2>3. UNCHANGED <<armed, loose>> \/ RearmAfterReplay(writes[i].mode)
      BY <1>6 DEF ForceNotWritten
    <2> QED
      BY <2>0, <2>1, <2>2, <2>3, RearmIsOfForceModes DEF OfForceModes
  <1>7. ASSUME NEW i \in DOMAIN writes, HoldWritten(i)
       PROVE  OfForceModes'
    BY <1>7, Completed DEF HoldWritten, OnlyForceModes
  <1>8. ASSUME NEW i \in DOMAIN writes, HoldNotWritten(i)
       PROVE  OfForceModes'
    BY <1>8, Completed DEF HoldNotWritten, OnlyForceModes
  <1>9. ASSUME NEW i \in DOMAIN writes, SelfWriteCompletes(i)
       PROVE  OfForceModes'
    BY <1>9, Completed DEF SelfWriteCompletes, OnlyForceModes
  <1>10. ASSUME NEW i \in DOMAIN writes, RestoreConfirmed(i)
        PROVE  OfForceModes'
    <2>1. \A w \in Range(writes') : w.next = "cleanup" => w.mode \in ForceModes
      BY <1>10, Completed DEF OfForceModes, RestoreConfirmed
    <2>2. \A m \in Modes : armed'[m] # NoTimer => m \in ForceModes
      BY <1>10, Shapes DEF OfForceModes, RestoreConfirmed
    <2>3. \A t \in loose' : t.mode \in ForceModes
      BY <1>10 DEF OfForceModes, RestoreConfirmed
    <2>4. disk'.timed => disk'.mode \in ForceModes
      BY <1>10 DEF OfForceModes, RestoreConfirmed
    <2> QED
      BY <2>1, <2>2, <2>3, <2>4 DEF OfForceModes
  <1>11. ASSUME NEW i \in DOMAIN writes, RestoreSuperseded(i)
        PROVE  OfForceModes'
    <2>0. /\ writes' = RemoveAt(writes, i) /\ writes[i].next # "self"
          /\ AfterReturn(writes[i].next, writes[i].mode, writes[i].retry, saves)
          /\ UNCHANGED <<loose, disk>>
      BY <1>11, Completed DEF OnlyForceModes, RestoreSuperseded
    <2>1. Range(writes') \subseteq Range(writes) /\ UNCHANGED armed
      BY <2>0, Shapes, Completed, ReturnsQuietly
    <2> QED
      BY <2>0, <2>1 DEF OfForceModes
  <1>12. ASSUME NEW i \in DOMAIN writes, RestoreSwallowed(i)
        PROVE  OfForceModes'
    BY <1>12 DEF RestoreSwallowed
  <1>13. ASSUME NEW i \in DOMAIN writes, RestoreRefused(i)
        PROVE  OfForceModes'
    <2>1. \A w \in Range(writes') : w.next = "cleanup" => w.mode \in ForceModes
      BY <1>13, Completed DEF OfForceModes, RestoreRefused
    <2>2. \A m \in Modes : armed'[m] # NoTimer => m \in ForceModes
      BY <1>13, Shapes DEF OfForceModes, RestoreRefused, ScheduleRetry
    <2>3. \A t \in loose' : t.mode \in ForceModes
      BY <1>13 DEF OfForceModes, RestoreRefused
    <2>4. disk'.timed => disk'.mode \in ForceModes
      BY <1>13 DEF OfForceModes, RestoreRefused
    <2> QED
      BY <2>1, <2>2, <2>3, <2>4 DEF OfForceModes
  <1>14. CASE SaveCompletes
    <2>0. /\ Head(saves) \in Save /\ Tail(saves) \in Seq(Save)
          /\ Head(saves).then \notin {"self", "selfwrite"}
      BY <1>14, SaveServed DEF OnlyForceModes, SaveCompletes
    <2>1. UNCHANGED writes
      BY <1>14, <2>0 DEF SaveCompletes
    <2>2. disk' = NoSession \/ disk' = Snapshot
      BY <1>14 DEF SaveCompletes
    <2>3. disk'.timed => disk'.mode \in ForceModes
      BY <2>2, SnapshotIsForce DEF NoSession
    <2>4. CASE Head(saves).then = "replay"
      <3>1. RearmAfterReplay(Head(saves).mode)
        BY <1>14, <2>4 DEF SaveCompletes
      <3>2. Head(saves).mode \in ForceModes
        BY <2>0, <2>4 DEF Save
      <3> QED
        BY <2>1, <2>3, <3>1, <3>2, RearmIsOfForceModes DEF OfForceModes
    <2>5. CASE Head(saves).then # "replay"
      <3>1. /\ AfterReturn(Head(saves).then, Head(saves).mode,
                           Head(saves).retry, Tail(saves))
            /\ UNCHANGED loose
        BY <1>14, <2>0, <2>5 DEF SaveCompletes
      <3>2. UNCHANGED armed
        BY <2>0, <3>1, ReturnsQuietly
      <3> QED
        BY <2>1, <2>3, <3>1, <3>2 DEF OfForceModes
    <2> QED
      BY <2>4, <2>5
  <1>15. ASSUME NEW m \in Modes, BecomesDue(m)
        PROVE  OfForceModes'
    <2>1. \A w \in Range(writes') : w.next = "cleanup" => w.mode \in ForceModes
      BY <1>15 DEF OfForceModes, BecomesDue
    <2>2. \A k \in Modes : armed'[k] # NoTimer => k \in ForceModes
      BY <1>15, Shapes DEF OfForceModes, BecomesDue
    <2>3. \A t \in loose' : t.mode \in ForceModes
      BY <1>15 DEF OfForceModes, BecomesDue, Callback
    <2>4. disk'.timed => disk'.mode \in ForceModes
      BY <1>15 DEF OfForceModes, BecomesDue
    <2> QED
      BY <2>1, <2>2, <2>3, <2>4 DEF OfForceModes
  <1>16. ASSUME NEW t \in loose, ExpiryRestores(t)
        PROVE  OfForceModes'
    <2>0. armed' = NoTimers /\ loose' \subseteq loose /\ UNCHANGED disk
      BY <1>16 DEF ExpiryRestores, IssueRestore
    <2>1. \A w \in Range(writes') : w.next = "cleanup" => w.mode \in ForceModes
      BY <1>16, ExpiryAdds DEF OfForceModes
    <2>2. \A m \in Modes : armed'[m] # NoTimer => m \in ForceModes
      BY <1>16, Shapes, <2>0 DEF OfForceModes, NoTimers
    <2>3. \A c \in loose' : c.mode \in ForceModes
      BY <1>16, <2>0 DEF OfForceModes
    <2>4. disk'.timed => disk'.mode \in ForceModes
      BY <1>16, <2>0 DEF OfForceModes
    <2> QED
      BY <2>1, <2>2, <2>3, <2>4 DEF OfForceModes
  <1>17. ASSUME NEW t \in loose, ExpirySkipped(t)
        PROVE  OfForceModes'
    <2>1. \A w \in Range(writes') : w.next = "cleanup" => w.mode \in ForceModes
      BY <1>17 DEF OfForceModes, ExpirySkipped
    <2>2. \A m \in Modes : armed'[m] # NoTimer => m \in ForceModes
      BY <1>17, Shapes DEF OfForceModes, ExpirySkipped
    <2>3. \A c \in loose' : c.mode \in ForceModes
      BY <1>17 DEF OfForceModes, ExpirySkipped
    <2>4. disk'.timed => disk'.mode \in ForceModes
      BY <1>17 DEF OfForceModes, ExpirySkipped
    <2> QED
      BY <2>1, <2>2, <2>3, <2>4 DEF OfForceModes
  <1>18. CASE Restart
    <2>1. \A w \in Range(writes') : w.next = "cleanup" => w.mode \in ForceModes
      BY <1>18 DEF OfForceModes, Restart, Range
    <2>2. \A m \in Modes : armed'[m] # NoTimer => m \in ForceModes
      BY <1>18, Shapes DEF OfForceModes, Restart, NoTimers
    <2>3. \A t \in loose' : t.mode \in ForceModes
      BY <1>18 DEF OfForceModes, Restart
    <2>4. disk'.timed => disk'.mode \in ForceModes
      BY <1>18 DEF OfForceModes, Restart
    <2> QED
      BY <2>1, <2>2, <2>3, <2>4 DEF OfForceModes
  <1>19. CASE NothingToResume
    <2>1. \A w \in Range(writes') : w.next = "cleanup" => w.mode \in ForceModes
      BY <1>19 DEF OfForceModes, NothingToResume, memory
    <2>2. \A m \in Modes : armed'[m] # NoTimer => m \in ForceModes
      BY <1>19, Shapes DEF OfForceModes, NothingToResume, memory
    <2>3. \A t \in loose' : t.mode \in ForceModes
      BY <1>19 DEF OfForceModes, NothingToResume, memory
    <2>4. disk'.timed => disk'.mode \in ForceModes
      BY <1>19 DEF OfForceModes, NothingToResume, memory
    <2> QED
      BY <2>1, <2>2, <2>3, <2>4 DEF OfForceModes
  <1>20. CASE ResumeTimer
    BY <1>20 DEF ResumeTimer, OnlyForceModes, ForceModes
  <1>21. CASE ResumeForce
    <2>1. \A w \in Range(writes') : w.next = "cleanup" => w.mode \in ForceModes
      BY <1>21, RangeOne DEF OfForceModes, ResumeForce
    <2>2. \A m \in Modes : armed'[m] # NoTimer => m \in ForceModes
      BY <1>21, Shapes DEF OfForceModes, ResumeForce, NoTimers
    <2>3. \A t \in loose' : t.mode \in ForceModes
      BY <1>21 DEF OfForceModes, ResumeForce
    <2>4. disk'.timed => disk'.mode \in ForceModes
      BY <1>21 DEF OfForceModes, ResumeForce
    <2> QED
      BY <2>1, <2>2, <2>3, <2>4 DEF OfForceModes
  <1>22. CASE ResumeExpired
    <2>1. \A w \in Range(writes') : w.next = "cleanup" => w.mode \in ForceModes
      BY <1>22, RangeOne DEF OfForceModes, ResumeExpired
    <2>2. \A m \in Modes : armed'[m] # NoTimer => m \in ForceModes
      BY <1>22, Shapes DEF OfForceModes, ResumeExpired, NoTimers
    <2>3. \A t \in loose' : t.mode \in ForceModes
      BY <1>22 DEF OfForceModes, ResumeExpired
    <2>4. disk'.timed => disk'.mode \in ForceModes
      BY <1>22 DEF OfForceModes, ResumeExpired
    <2> QED
      BY <2>1, <2>2, <2>3, <2>4 DEF OfForceModes
  <1>23. CASE UNCHANGED vars
    <2>1. \A w \in Range(writes') : w.next = "cleanup" => w.mode \in ForceModes
      BY <1>23 DEF OfForceModes, vars, memory
    <2>2. \A m \in Modes : armed'[m] # NoTimer => m \in ForceModes
      BY <1>23, Shapes DEF OfForceModes, vars, memory
    <2>3. \A t \in loose' : t.mode \in ForceModes
      BY <1>23 DEF OfForceModes, vars, memory
    <2>4. disk'.timed => disk'.mode \in ForceModes
      BY <1>23 DEF OfForceModes, vars, memory
    <2> QED
      BY <2>1, <2>2, <2>3, <2>4 DEF OfForceModes
  <1> QED
    BY <1>1, <1>2, <1>3, <1>4, <1>5, <1>6, <1>7, <1>8, <1>9, <1>10, <1>11,
       <1>12, <1>13, <1>14, <1>15, <1>16, <1>17, <1>18, <1>19, <1>20, <1>21,
       <1>22, <1>23
       DEF Next, Command, WriteCompletes, CallbackRuns, Resume

\* Every step keeps SoloFacts: a generation that is taken kills every
\* callback, and a completed write had no other handler behind it.
LEMMA SoloStep ==
  ASSUME MaxInFlight = 1, "raised" \notin Outcomes,
         Commands \cap {"hold", "self"} = {}, TypeOK, DownIsEmpty,
         OnlyForceModes, OfForceModes, SoloFacts, [Next]_vars
  PROVE  SoloFacts'
  <1>1. ASSUME NEW m \in ForceModes, ForceCommand(m)
       PROVE  SoloFacts'
    <2>1. /\ IssueForce(m, "none") /\ writes = <<>> /\ Len(writes) = 0
          /\ Range(writes) = {} /\ saves' = <<>> /\ loose' = loose
      BY <1>1, IdleCommand DEF ForceCommand
    <2>2. /\ Len(writes') = 1
          /\ \A w \in Range(writes') : w.gen = gen + 1
      BY <2>1, ForceIssued
    <2>3. gen' = gen + 1 /\ armed' = NoTimers
      BY <2>1 DEF IssueForce
    <2> QED
      BY <2>1, <2>2, <2>3, NewGeneration DEF SoloFacts
  <1>2. CASE RestoreCommand
    <2>1. /\ RestoreJoins("none") /\ IssueRestore("user", "none", "none", 0)
          /\ writes = <<>> /\ Range(writes) = {} /\ loose' = loose
      BY <1>2, IdleCommand, RestoreCommandJoins DEF RestoreCommand
    <2>2. \A w \in Range(writes') : ~Solo(w)
      BY <2>1 DEF RestoreJoins, Solo
    <2>3. gen' = gen + 1 /\ armed' = NoTimers
      BY <2>1 DEF IssueRestore
    <2> QED
      BY <2>1, <2>2, <2>3, NewGeneration DEF SoloFacts
  <1>3. CASE HoldCommand
    BY <1>3 DEF HoldCommand, Admitted
  <1>4. CASE SelfCommand
    BY <1>4 DEF SelfCommand, Admitted
  <1>5. ASSUME NEW i \in DOMAIN writes, ForceWritten(i)
       PROVE  SoloFacts'
    <2>1. /\ writes' = RemoveAt(writes, i) /\ Solo(writes[i])
          /\ armed' = [armed EXCEPT ![writes[i].mode] = Fresh(writes[i].gen)]
          /\ UNCHANGED <<loose, gen>>
      BY <1>5 DEF ForceWritten, Solo
    <2>2. /\ \A w \in Range(writes') : ~Solo(w)
          /\ ~RetryLives /\ writes[i].gen = gen
      BY <2>1, NoSoloLeft
    <2>3. NoFuture'
      BY <2>1, <2>2, Shapes DEF SoloFacts, NoFuture, Fresh
    <2>4. ~RetryLives'
      BY <2>1, Shapes, <2>2 DEF RetryLives, Fresh
    <2> QED
      BY <2>2, <2>3, <2>4 DEF SoloFacts
  <1>6. ASSUME NEW i \in DOMAIN writes, ForceNotWritten(i)
       PROVE  SoloFacts'
    <2>1. /\ writes' = RemoveAt(writes, i) /\ UNCHANGED gen
          /\ UNCHANGED <<armed, loose>> \/ RearmAfterReplay(writes[i].mode)
          /\ writes[i].mode \in Modes
      BY <1>6, Completed DEF ForceNotWritten, Write, Modes
    <2>2. /\ \A w \in Range(writes') : ~Solo(w)
          /\ ~RetryLives
      BY <2>1, NoSoloLeft
    <2>3. NoFuture' /\ ~RetryLives'
      BY <2>1, <2>2, RearmLives DEF SoloFacts, NoFuture, RetryLives
    <2> QED
      BY <2>2, <2>3 DEF SoloFacts
  <1>7. ASSUME NEW i \in DOMAIN writes, HoldWritten(i)
       PROVE  SoloFacts'
    BY <1>7, Completed DEF HoldWritten, OnlyForceModes
  <1>8. ASSUME NEW i \in DOMAIN writes, HoldNotWritten(i)
       PROVE  SoloFacts'
    BY <1>8, Completed DEF HoldNotWritten, OnlyForceModes
  <1>9. ASSUME NEW i \in DOMAIN writes, SelfWriteCompletes(i)
       PROVE  SoloFacts'
    BY <1>9, Completed DEF SelfWriteCompletes, OnlyForceModes
  <1>10. ASSUME NEW i \in DOMAIN writes, RestoreConfirmed(i)
        PROVE  SoloFacts'
    <2>1. writes' = RemoveAt(writes, i) /\ UNCHANGED <<armed, loose, gen>>
      BY <1>10 DEF RestoreConfirmed
    <2>2. (\A w \in Range(writes') : ~Solo(w)) /\ ~RetryLives
      BY <2>1, NoSoloLeft
    <2>3. ~RetryLives' /\ NoFuture'
      BY <2>1, <2>2 DEF RetryLives, NoFuture, SoloFacts
    <2> QED
      BY <2>2, <2>3 DEF SoloFacts
  <1>11. ASSUME NEW i \in DOMAIN writes, RestoreSuperseded(i)
        PROVE  SoloFacts'
    <2>0. /\ writes' = RemoveAt(writes, i) /\ writes[i].next # "self"
          /\ AfterReturn(writes[i].next, writes[i].mode, writes[i].retry, saves)
          /\ UNCHANGED loose
      BY <1>11, Completed DEF OnlyForceModes, RestoreSuperseded
    <2>1. UNCHANGED <<armed, loose, gen>>
      BY <2>0, Shapes, ReturnsQuietly
    <2>2. (\A w \in Range(writes') : ~Solo(w)) /\ ~RetryLives
      BY <2>0, NoSoloLeft
    <2>3. ~RetryLives' /\ NoFuture'
      BY <2>1, <2>2 DEF RetryLives, NoFuture, SoloFacts
    <2> QED
      BY <2>2, <2>3 DEF SoloFacts
  <1>12. ASSUME NEW i \in DOMAIN writes, RestoreSwallowed(i)
        PROVE  SoloFacts'
    BY <1>12 DEF RestoreSwallowed
  <1>13. ASSUME NEW i \in DOMAIN writes, RestoreRefused(i)
        PROVE  SoloFacts'
    <2>1. writes' = RemoveAt(writes, i) /\ UNCHANGED <<loose, gen>>
      BY <1>13 DEF RestoreRefused
    <2>2. /\ \A w \in Range(writes') : ~Solo(w)
          /\ ~RetryLives
          /\ Solo(writes[i]) => writes' = <<>> /\ saves = <<>>
      BY <2>1, NoSoloLeft
    <2>3. CASE writes[i].next = "cleanup"
      <3>1. /\ writes[i].mode \in ForceModes
            /\ ScheduleRetry(writes[i].mode, writes[i].retry)
        BY <1>13, <2>3, Completed DEF RestoreRefused, OfForceModes
      <3>2. saves' = <<>> /\ writes' = <<>>
        BY <1>13, <2>2, <2>3, <3>1 DEF RestoreRefused, Solo, ForceModes
      <3>3. NoFuture'
        BY <2>1, <3>1, Shapes DEF SoloFacts, NoFuture, ScheduleRetry
      <3> QED
        BY <2>2, <3>2, <3>3 DEF SoloFacts
    <2>4. CASE writes[i].next # "cleanup"
      <3>1. UNCHANGED armed
        BY <1>13, <2>4 DEF RestoreRefused
      <3>2. ~RetryLives' /\ NoFuture'
        BY <2>1, <2>2, <3>1 DEF RetryLives, NoFuture, SoloFacts
      <3> QED
        BY <2>2, <3>2 DEF SoloFacts
    <2> QED
      BY <2>3, <2>4
  <1>14. CASE SaveCompletes
    <2>1. /\ Head(saves) \in Save /\ Tail(saves) \in Seq(Save)
          /\ Head(saves).then \notin {"self", "selfwrite"} /\ saves # <<>>
      BY <1>14, SaveServed DEF OnlyForceModes, SaveCompletes
    <2>2. /\ UNCHANGED <<writes, gen>>
          /\ (\A w \in Range(writes) : ~Solo(w)) /\ ~RetryLives
      <3>1. UNCHANGED writes
        BY <1>14, <2>1 DEF SaveCompletes
      <3>2. UNCHANGED gen
        BY <1>14, <2>1 DEF SaveCompletes, AfterReturn
      <3> QED
        BY <2>1, <3>1, <3>2 DEF SoloFacts
    <2>3. ~RetryLives' /\ NoFuture'
      <3>1. CASE Head(saves).then = "replay"
        <4>1. RearmAfterReplay(Head(saves).mode) /\ Head(saves).mode \in Modes
          BY <1>14, <2>1, <3>1 DEF SaveCompletes, Save, Modes
        <4> QED
          BY <2>2, <4>1, RearmLives DEF SoloFacts
      <3>2. CASE Head(saves).then # "replay"
        <4>1. /\ AfterReturn(Head(saves).then, Head(saves).mode,
                             Head(saves).retry, Tail(saves))
              /\ UNCHANGED loose
          BY <1>14, <2>1, <3>2 DEF SaveCompletes
        <4>2. UNCHANGED armed
          BY <2>1, <4>1, ReturnsQuietly
        <4> QED
          BY <2>2, <4>1, <4>2 DEF RetryLives, NoFuture, SoloFacts
      <3> QED
        BY <3>1, <3>2
    <2> QED
      BY <2>2, <2>3 DEF SoloFacts
  <1>15. ASSUME NEW m \in Modes, BecomesDue(m)
        PROVE  SoloFacts'
    <2> DEFINE c == Callback(m, armed[m])
    <2>1. /\ armed[m] # NoTimer /\ armed' = [armed EXCEPT ![m] = NoTimer]
          /\ loose' = loose \cup {c} /\ UNCHANGED <<gen, writes, saves>>
      BY <1>15 DEF BecomesDue
    <2>2. c.gen = armed[m].gen /\ c.retry = armed[m].retry
      BY DEF Callback
    <2> HIDE DEF c
    <2>3. /\ \A x \in Modes : armed'[x] = NoTimer \/ armed'[x] = armed[x]
          /\ NoTimer.gen = 0 /\ gen \in Nat
      BY <2>1, Shapes DEF NoTimer
    <2>4. NoFuture'
      BY <2>1, <2>2, <2>3 DEF SoloFacts, NoFuture
    <2>5. (LiveCallback' => LiveCallback) /\ (RetryLives' => RetryLives)
      BY <2>1, <2>2, <2>3 DEF LiveCallback, RetryLives
    <2> QED
      BY <2>1, <2>4, <2>5 DEF SoloFacts
  <1>16. ASSUME NEW t \in loose, ExpiryRestores(t)
        PROVE  SoloFacts'
    <2>1. /\ armed' = NoTimers /\ gen' = gen + 1 /\ loose' \subseteq loose
          /\ saves' = saves /\ t.gen = gen
      BY <1>16 DEF ExpiryRestores, IssueRestore
    <2>2. \A w \in Range(writes) : ~Solo(w)
      BY <2>1 DEF LiveCallback, SoloFacts
    <2>3. ~LiveCallback' /\ ~RetryLives' /\ NoFuture'
      BY <2>1, NewGeneration DEF SoloFacts
    <2>4. CASE t.retry = 0
      <3>1. \A w \in Range(writes') : ~Solo(w)
        BY <1>16, <2>2, <2>4, ExpiryAdds DEF Solo
      <3> QED
        BY <2>3, <3>1 DEF SoloFacts
    <2>5. CASE t.retry # 0
      <3>1. writes = <<>> /\ saves = <<>>
        BY <2>1, <2>5 DEF RetryLives, SoloFacts
      <3>2. Range(writes) = {} /\ Len(writes) = 0
        BY <3>1, Shapes
      <3>3. Len(writes') = 1 /\ \A w \in Range(writes') : w.gen = gen + 1
        BY <1>16, <3>2, ExpiryAdds
      <3> QED
        BY <2>1, <2>3, <3>1, <3>3 DEF SoloFacts
    <2> QED
      BY <2>4, <2>5
  <1>17. ASSUME NEW t \in loose, ExpirySkipped(t)
        PROVE  SoloFacts'
    <2>1. t.mode # "hold"
      BY DEF OfForceModes, ForceModes
    <2>2. /\ UNCHANGED <<gen, writes, saves>> /\ loose' \subseteq loose
          /\ \A x \in Modes : armed'[x] = armed[x]
      BY <1>17, <2>1, Shapes DEF ExpirySkipped, Modes
    <2>3. NoFuture' /\ (LiveCallback' => LiveCallback) /\ (RetryLives' => RetryLives)
      BY <2>2 DEF SoloFacts, NoFuture, LiveCallback, RetryLives
    <2> QED
      BY <2>2, <2>3 DEF SoloFacts
  <1>18. CASE Restart
    <2>1. /\ writes' = <<>> /\ saves' = <<>> /\ armed' = NoTimers
          /\ loose' = {} /\ gen' = 0 /\ Range(writes') = {}
      BY <1>18, Shapes DEF Restart
    <2>2. \A m \in Modes : armed'[m] = NoTimer /\ NoTimer.gen = 0
      BY <2>1 DEF NoTimers, NoTimer
    <2> QED
      BY <2>1, <2>2 DEF SoloFacts, NoFuture
  <1>19. CASE NothingToResume
    <2>1. UNCHANGED <<armed, loose, gen, writes, saves>>
      BY <1>19 DEF NothingToResume, memory
    <2> QED
      BY <2>1 DEF SoloFacts, NoFuture, LiveCallback, RetryLives
  <1>20. CASE ResumeTimer
    BY <1>20 DEF ResumeTimer, OnlyForceModes, ForceModes
  <1>21. CASE ResumeForce
    <2> DEFINE w == [op |-> "force", mode |-> disk.mode, gen |-> gen + 1,
                     next |-> "replay", retry |-> 0]
    <2>1. /\ writes' = <<w>> /\ gen' = gen + 1 /\ armed' = NoTimers
          /\ loose' = loose /\ saves' = <<>>
      BY <1>21 DEF ResumeForce, DownIsEmpty
    <2>2. w.gen = gen + 1
      OBVIOUS
    <2> HIDE DEF w
    <2>3. Range(writes') = {w} /\ Len(writes') = 1
      BY <2>1, RangeOne
    <2>4. ~LiveCallback' /\ ~RetryLives' /\ NoFuture'
      BY <2>1, NewGeneration DEF SoloFacts
    <2> QED
      BY <2>1, <2>2, <2>3, <2>4 DEF SoloFacts
  <1>22. CASE ResumeExpired
    <2> DEFINE w == [op |-> "restore", mode |-> disk.mode, gen |-> gen + 1,
                     next |-> "cleanup", retry |-> 0]
    <2>1. /\ writes' = <<w>> /\ gen' = gen + 1 /\ armed' = NoTimers
          /\ loose' = loose /\ saves' = <<>>
      BY <1>22 DEF ResumeExpired, DownIsEmpty
    <2>2. w.gen = gen + 1
      OBVIOUS
    <2> HIDE DEF w
    <2>3. Range(writes') = {w} /\ Len(writes') = 1
      BY <2>1, RangeOne
    <2>4. ~LiveCallback' /\ ~RetryLives' /\ NoFuture'
      BY <2>1, NewGeneration DEF SoloFacts
    <2> QED
      BY <2>1, <2>2, <2>3, <2>4 DEF SoloFacts
  <1>23. CASE UNCHANGED vars
    <2>1. UNCHANGED <<armed, loose, gen, writes, saves>>
      BY <1>23 DEF vars, memory
    <2> QED
      BY <2>1 DEF SoloFacts, NoFuture, LiveCallback, RetryLives
  <1> QED
    BY <1>1, <1>2, <1>3, <1>4, <1>5, <1>6, <1>7, <1>8, <1>9, <1>10, <1>11,
       <1>12, <1>13, <1>14, <1>15, <1>16, <1>17, <1>18, <1>19, <1>20, <1>21,
       <1>22, <1>23
       DEF Next, Command, WriteCompletes, CallbackRuns, Resume

\* StoredFacts is kept while flags, record and force commands stay.
LEMMA StoredFrame ==
  ASSUME StoredFacts, UNCHANGED <<saves, disk>>, hw' \in {hw, "normal"},
         \A m \in ForceModes : active'[m] = active[m] /\ timed'[m] = timed[m],
         \A w \in Range(writes') : w.op = "force" => w \in Range(writes),
         \A w \in Range(writes) : w.op = "force" => w \in Range(writes')
  PROVE  StoredFacts'
  <1>1. \A m \in ForceModes : ForceQueued(m)' <=> ForceQueued(m)
    BY DEF ForceQueued
  <1>2. (NoForce => NoForce') /\ (ForceActive' <=> ForceActive)
    BY DEF NoForce, ForceActive
  <1>3. \A s \in Range(saves') : s.then \in {"cleanup", "clear"} => NoForce'
    BY <1>2 DEF StoredFacts
  <1>4. \A m \in ForceModes : active'[m] /\ ~timed'[m] => ForceQueued(m)'
    BY <1>1 DEF StoredFacts
  <1>5. saves' # <<>> /\ ~ForceActive' => hw' = "normal"
    BY <1>2 DEF StoredFacts
  <1>6. ForceActive' => \/ disk'.timed \/ saves' # <<>>
                       \/ \E m \in ForceModes : ForceQueued(m)'
    BY <1>1, <1>2 DEF StoredFacts
  <1> QED
    BY <1>3, <1>4, <1>5, <1>6 DEF StoredFacts

\* A force command waits with no save pending.
LEMMA QueuedForceIsAlone ==
  ASSUME SoloFacts, NEW m, ForceQueued(m)
  PROVE  saves = <<>>
  BY DEF SoloFacts, Solo, ForceQueued

\* Every step keeps StoredFacts: a record is cleared for a cleanup that went
\* through, and a snapshot of a force session is of a timed one.
LEMMA StoredStep ==
  ASSUME MaxInFlight = 1, "raised" \notin Outcomes,
         Commands \cap {"hold", "self"} = {}, TypeOK, DownIsEmpty,
         OnlyForceModes, ExclusionFacts, OfForceModes, SoloFacts,
         StoredFacts, [Next]_vars
  PROVE  StoredFacts'
  <1>1. ASSUME NEW m \in ForceModes, ForceCommand(m)
       PROVE  StoredFacts'
    <2>1. /\ IssueForce(m, "none") /\ saves' = <<>> /\ Range(saves') = {}
      BY <1>1, IdleCommand DEF ForceCommand
    <2>2. PICK w \in Range(writes') : w.op = "force" /\ w.mode = m
      BY <2>1, ForceIssued
    <2>3. ForceQueued(m)'
      BY <2>2 DEF ForceQueued
    <2>4. ~active'[Other(m)] /\ ForceModes = {m, Other(m)}
      BY <2>1, Shapes DEF IssueForce, Other, ForceModes, Modes
    <2> QED
      BY <2>1, <2>3, <2>4 DEF StoredFacts
  <1>2. CASE RestoreCommand
    <2>1. /\ UNCHANGED <<saves, disk>> /\ hw' \in {hw, "normal"}
          /\ \A m \in ForceModes : active'[m] = active[m] /\ timed'[m] = timed[m]
      BY <1>2, Shapes DEF RestoreCommand, IssueRestore, ForceModes, Modes
    <2>2. /\ \A w \in Range(writes') : w.op = "force" => w \in Range(writes)
          /\ \A w \in Range(writes) : w.op = "force" => w \in Range(writes')
      BY <1>2, RestoreCommandJoins DEF RestoreJoins
    <2> QED
      BY <2>1, <2>2, StoredFrame
  <1>3. CASE HoldCommand
    BY <1>3 DEF HoldCommand, Admitted
  <1>4. CASE SelfCommand
    BY <1>4 DEF SelfCommand, Admitted
  <1>5. ASSUME NEW i \in DOMAIN writes, ForceWritten(i)
       PROVE  StoredFacts'
    <2>1. PICK m \in ForceModes : m = writes[i].mode /\ ForceQueued(m)
      BY <1>5, Completed DEF ForceWritten, Write, ForceQueued
    <2>2. saves = <<>> /\ Range(saves) = {}
      BY <2>1, QueuedForceIsAlone, Shapes
    <2>3. /\ \A s \in Range(saves') : s.then \in {"none", "replay"}
          /\ saves' # <<>>
      BY <1>5, <2>2, ForceWrittenSaves, SavingFields
    <2>4. /\ active'[m] /\ timed'[m] /\ ~active'[Other(m)]
          /\ ForceModes = {m, Other(m)}
      BY <1>5, <2>1, Shapes
         DEF ForceWritten, ExclusionFacts, Other, ForceModes, Modes
    <2> QED
      BY <2>1, <2>3, <2>4 DEF StoredFacts, ForceActive
  <1>6. ASSUME NEW i \in DOMAIN writes, ForceNotWritten(i)
       PROVE  StoredFacts'
    <2>1. PICK m \in ForceModes : m = writes[i].mode /\ ForceQueued(m)
      BY <1>6, Completed DEF ForceNotWritten, Write, ForceQueued
    <2>2. saves' = <<>> /\ Range(saves') = {}
      BY <1>6, <2>1, QueuedForceIsAlone, Shapes DEF ForceNotWritten
    <2>3. \A x \in ForceModes : ~active'[x]
      BY <1>6, <2>1, Shapes
         DEF ForceNotWritten, ExclusionFacts, Other, ForceModes, Modes
    <2> QED
      BY <2>2, <2>3 DEF StoredFacts, ForceActive
  <1>7. ASSUME NEW i \in DOMAIN writes, HoldWritten(i)
       PROVE  StoredFacts'
    BY <1>7, Completed DEF HoldWritten, OnlyForceModes
  <1>8. ASSUME NEW i \in DOMAIN writes, HoldNotWritten(i)
       PROVE  StoredFacts'
    BY <1>8, Completed DEF HoldNotWritten, OnlyForceModes
  <1>9. ASSUME NEW i \in DOMAIN writes, SelfWriteCompletes(i)
       PROVE  StoredFacts'
    BY <1>9, Completed DEF SelfWriteCompletes, OnlyForceModes
  <1>10. ASSUME NEW i \in DOMAIN writes, RestoreConfirmed(i)
        PROVE  StoredFacts'
    <2>1. /\ \A x \in ForceModes : ~active'[x]
          /\ hw' = "normal" /\ writes' = RemoveAt(writes, i)
      BY <1>10, Shapes DEF RestoreConfirmed, ForceModes, Modes
    <2>2. NoForce'
      BY <2>1, NoSoloLeft DEF NoForce, Solo
    <2> QED
      BY <2>1, <2>2 DEF StoredFacts, ForceActive
  <1>11. ASSUME NEW i \in DOMAIN writes, RestoreSuperseded(i)
        PROVE  StoredFacts'
    <2>0. /\ writes' = RemoveAt(writes, i)
          /\ writes[i].next \in {"none", "self", "cleanup"} /\ writes[i].next # "self"
          /\ writes[i].gen # gen
          /\ AfterReturn(writes[i].next, writes[i].mode, writes[i].retry, saves)
      BY <1>11, Completed DEF OnlyForceModes, RestoreSuperseded, Write
    <2>3. writes[i].next = "none"
      BY <2>0, NoSoloLeft DEF Solo
    <2>4. UNCHANGED <<saves, active, timed>>
      BY <2>0, <2>3, Shapes, ReturnJoins, ReturnsQuietly
    <2>1. /\ UNCHANGED <<saves, disk>> /\ hw' \in {hw, "normal"}
          /\ \A m \in ForceModes : active'[m] = active[m] /\ timed'[m] = timed[m]
      BY <1>11, Shapes, <2>4 DEF RestoreSuperseded, ForceModes, Modes
    <2>2. /\ \A w \in Range(writes') : w.op = "force" => w \in Range(writes)
          /\ \A w \in Range(writes) : w.op = "force" => w \in Range(writes')
      BY <1>11, Completed DEF RestoreSuperseded
    <2> QED
      BY <2>1, <2>2, StoredFrame
  <1>12. ASSUME NEW i \in DOMAIN writes, RestoreSwallowed(i)
        PROVE  StoredFacts'
    BY <1>12 DEF RestoreSwallowed
  <1>13. ASSUME NEW i \in DOMAIN writes, RestoreRefused(i)
        PROVE  StoredFacts'
    <2>0. writes[i].next = "cleanup" => writes[i].mode # "hold"
      BY <1>13, Completed DEF RestoreRefused, OfForceModes, ForceModes
    <2>3. UNCHANGED saves
      BY <1>13, <2>0 DEF RestoreRefused
    <2>1. /\ UNCHANGED <<saves, disk>> /\ hw' \in {hw, "normal"}
          /\ \A m \in ForceModes : active'[m] = active[m] /\ timed'[m] = timed[m]
      BY <1>13, Shapes, <2>3 DEF RestoreRefused, ForceModes, Modes
    <2>2. /\ \A w \in Range(writes') : w.op = "force" => w \in Range(writes)
          /\ \A w \in Range(writes) : w.op = "force" => w \in Range(writes')
      BY <1>13, Completed DEF RestoreRefused
    <2> QED
      BY <2>1, <2>2, StoredFrame
  <1>14. CASE SaveCompletes
    <2>1. /\ Head(saves) \in Range(saves) /\ Tail(saves) \in Seq(Save)
          /\ Range(Tail(saves)) \subseteq Range(saves)
          /\ Head(saves).then \notin {"self", "selfwrite"} /\ saves # <<>>
      BY <1>14, SaveServed DEF OnlyForceModes, SaveCompletes
    <2>2. /\ UNCHANGED <<active, timed, writes, hw>>
          /\ Head(saves).then # "cleanup" =>
               Range(saves') \subseteq Range(saves)
      <3>1. CASE Head(saves).then = "replay"
        BY <1>14, <2>1, <3>1 DEF SaveCompletes
      <3>2. CASE Head(saves).then # "replay"
        <4>1. /\ AfterReturn(Head(saves).then, Head(saves).mode,
                             Head(saves).retry, Tail(saves))
              /\ UNCHANGED <<writes, hw>>
          BY <1>14, <2>1, <3>2 DEF SaveCompletes
        <4> QED
          BY <2>1, <4>1, ReturnsQuietly, ReturnJoins
      <3> QED
        BY <3>1, <3>2
    <2>3. Head(saves).then \in {"cleanup", "clear"} => NoForce
      BY <2>1 DEF StoredFacts
    <2>4. \A s \in Range(saves') : s.then \in {"cleanup", "clear"} => NoForce'
      BY <2>2, <2>3 DEF StoredFacts, NoForce
    <2>5. \A m \in ForceModes : active'[m] /\ ~timed'[m] => ForceQueued(m)'
      BY <2>2 DEF StoredFacts, ForceQueued
    <2>6. ~ForceActive' => hw' = "normal"
      BY <2>1, <2>2 DEF StoredFacts, ForceActive
    <2>7. ASSUME ForceActive'
          PROVE  disk'.timed
      <3>1. ForceActive /\ ~NoForce
        BY <2>2, <2>7 DEF ForceActive, NoForce
      <3>2. disk' = Snapshot
        BY <1>14, <2>3, <3>1 DEF SaveCompletes
      <3>3. PICK m \in ForceModes :
              active[m] /\ Snapshot = [mode |-> m, timed |-> timed[m]]
        BY <3>1, SnapshotIsForce
      <3>4. timed[m]
        BY <2>1, <3>3, QueuedForceIsAlone DEF StoredFacts
      <3> QED
        BY <3>2, <3>3, <3>4
    <2> QED
      BY <2>4, <2>5, <2>6, <2>7 DEF StoredFacts
  <1>15. ASSUME NEW m \in Modes, BecomesDue(m)
        PROVE  StoredFacts'
    <2>1. /\ UNCHANGED <<saves, disk>> /\ hw' \in {hw, "normal"}
          /\ \A k \in ForceModes : active'[k] = active[k] /\ timed'[k] = timed[k]
      BY <1>15, Shapes DEF BecomesDue, ForceModes, Modes
    <2>2. /\ \A w \in Range(writes') : w.op = "force" => w \in Range(writes)
          /\ \A w \in Range(writes) : w.op = "force" => w \in Range(writes')
      BY <1>15 DEF BecomesDue
    <2> QED
      BY <2>1, <2>2, StoredFrame
  <1>16. ASSUME NEW t \in loose, ExpiryRestores(t)
        PROVE  StoredFacts'
    <2>0. \E source, next, m, r : IssueRestore(source, next, m, r)
      BY <1>16 DEF ExpiryRestores
    <2>1. /\ UNCHANGED <<saves, disk>> /\ hw' \in {hw, "normal"}
          /\ \A m \in ForceModes : active'[m] = active[m] /\ timed'[m] = timed[m]
      BY <1>16, Shapes, <2>0
         DEF ExpiryRestores, IssueRestore, ForceModes, Modes
    <2>2. /\ \A w \in Range(writes') : w.op = "force" => w \in Range(writes)
          /\ \A w \in Range(writes) : w.op = "force" => w \in Range(writes')
      BY <1>16, ExpiryJoins DEF RestoreJoins
    <2> QED
      BY <2>1, <2>2, StoredFrame
  <1>17. ASSUME NEW t \in loose, ExpirySkipped(t)
        PROVE  StoredFacts'
    <2>0. t.mode # "hold"
      BY DEF OfForceModes, ForceModes
    <2>1. /\ UNCHANGED <<saves, disk>> /\ hw' \in {hw, "normal"}
          /\ \A m \in ForceModes : active'[m] = active[m] /\ timed'[m] = timed[m]
      BY <1>17, Shapes, <2>0 DEF ExpirySkipped, ForceModes, Modes
    <2>2. /\ \A w \in Range(writes') : w.op = "force" => w \in Range(writes)
          /\ \A w \in Range(writes) : w.op = "force" => w \in Range(writes')
      BY <1>17 DEF ExpirySkipped
    <2> QED
      BY <2>1, <2>2, StoredFrame
  <1>18. CASE Restart
    <2>1. /\ saves' = <<>> /\ Range(saves') = {}
          /\ \A m \in ForceModes : ~active'[m]
      BY <1>18, Shapes DEF Restart, ForceModes, Modes
    <2> QED
      BY <2>1 DEF StoredFacts, ForceActive
  <1>19. CASE NothingToResume
    <2>1. /\ UNCHANGED <<saves, disk>> /\ hw' \in {hw, "normal"}
          /\ \A m \in ForceModes : active'[m] = active[m] /\ timed'[m] = timed[m]
      BY <1>19, Shapes DEF NothingToResume, memory, ForceModes, Modes
    <2>2. /\ \A w \in Range(writes') : w.op = "force" => w \in Range(writes)
          /\ \A w \in Range(writes) : w.op = "force" => w \in Range(writes')
      BY <1>19 DEF NothingToResume, memory
    <2> QED
      BY <2>1, <2>2, StoredFrame
  <1>20. CASE ResumeTimer
    BY <1>20 DEF ResumeTimer, OnlyForceModes, ForceModes
  <1>21. CASE ResumeForce
    <2>1. /\ saves' = <<>> /\ Range(saves') = {} /\ disk'.timed
      BY <1>21, Shapes DEF ResumeForce, DownIsEmpty
    <2>2. \A m \in ForceModes : active'[m] => timed'[m]
      BY <1>21, Shapes
         DEF ResumeForce, DownIsEmpty, Populated, ForceModes, Modes
    <2> QED
      BY <2>1, <2>2 DEF StoredFacts
  <1>22. CASE ResumeExpired
    <2>1. /\ saves' = <<>> /\ Range(saves') = {} /\ disk'.timed
      BY <1>22, Shapes DEF ResumeExpired, DownIsEmpty
    <2>2. \A m \in ForceModes : active'[m] => timed'[m]
      BY <1>22, Shapes
         DEF ResumeExpired, DownIsEmpty, Populated, ForceModes, Modes
    <2> QED
      BY <2>1, <2>2 DEF StoredFacts
  <1>23. CASE UNCHANGED vars
    <2>1. /\ UNCHANGED <<saves, disk>> /\ hw' \in {hw, "normal"}
          /\ \A m \in ForceModes : active'[m] = active[m] /\ timed'[m] = timed[m]
      BY <1>23, Shapes DEF vars, memory, ForceModes, Modes
    <2>2. /\ \A w \in Range(writes') : w.op = "force" => w \in Range(writes)
          /\ \A w \in Range(writes) : w.op = "force" => w \in Range(writes')
      BY <1>23 DEF vars, memory
    <2> QED
      BY <2>1, <2>2, StoredFrame
  <1> QED
    BY <1>1, <1>2, <1>3, <1>4, <1>5, <1>6, <1>7, <1>8, <1>9, <1>10, <1>11,
       <1>12, <1>13, <1>14, <1>15, <1>16, <1>17, <1>18, <1>19, <1>20, <1>21,
       <1>22, <1>23
       DEF Next, Command, WriteCompletes, CallbackRuns, Resume

\* Only the store's answer changes the record.
LEMMA OnlySavesWriteTheRecord ==
  ASSUME [Next]_vars, disk' # disk
  PROVE  SaveCompletes
  <1>1. ~Command
    BY DEF Command, ForceCommand, RestoreCommand, HoldCommand, SelfCommand
  <1>2. ~WriteCompletes
    BY DEF WriteCompletes, ForceWritten, ForceNotWritten, HoldWritten,
           HoldNotWritten, SelfWriteCompletes, RestoreConfirmed,
           RestoreSuperseded, RestoreSwallowed, RestoreRefused
  <1>3. ~(\E m \in Modes : BecomesDue(m)) /\ ~CallbackRuns /\ ~Restart /\ ~Resume
    BY DEF BecomesDue, CallbackRuns, ExpiryRestores, ExpirySkipped, Restart,
           Resume, NothingToResume, ResumeTimer, ResumeForce, ResumeExpired
  <1> QED
    BY <1>1, <1>2, <1>3 DEF Next, vars

-----------------------------------------------------------------------------
(* The theorems                                                            *)

\* The inductive invariant.
Recoverable ==
  /\ DownIsEmpty /\ OnlyForceModes /\ ExclusionFacts
  /\ OfForceModes /\ SoloFacts /\ StoredFacts

\* It holds at the start.
LEMMA InitRecoverable == Init => Recoverable
  <1> SUFFICES ASSUME Init
               PROVE  Recoverable
    OBVIOUS
  <1>1. /\ \A m \in Modes : ~active[m] /\ armed[m] = NoTimer /\ NoTimer.gen = 0
        /\ Range(writes) = {} /\ writes = <<>> /\ saves = <<>>
        /\ Range(saves) = {} /\ gen = 0 /\ loose = {} /\ hw = "normal"
        /\ disk.mode = "none" /\ ~disk.timed
    BY DEF Init, NoTimers, NoTimer, Range, NoSession
  <1>2. ForceModes \subseteq Modes /\ {"charge", "discharge"} = ForceModes
    BY DEF ForceModes, Modes
  <1>3. DownIsEmpty
    BY <1>1 DEF Init, DownIsEmpty
  <1>4. OnlyForceModes /\ OfForceModes
    BY <1>1 DEF OnlyForceModes, OfForceModes
  <1>5. ExclusionFacts
    BY <1>1, <1>2 DEF ExclusionFacts, MutualExclusion, ForceQueued
  <1>6. SoloFacts
    BY <1>1 DEF SoloFacts, NoFuture
  <1>7. StoredFacts
    BY <1>1, <1>2 DEF StoredFacts, ForceActive
  <1> QED
    BY <1>3, <1>4, <1>5, <1>6, <1>7 DEF Recoverable

\* Every step keeps it.
LEMMA RecoverableStep ==
  ASSUME MaxInFlight = 1, "raised" \notin Outcomes,
         Commands \cap {"hold", "self"} = {}
  PROVE  TypeOK /\ Recoverable /\ [Next]_vars => Recoverable'
  <1> SUFFICES ASSUME TypeOK, Recoverable, [Next]_vars
               PROVE  Recoverable'
    OBVIOUS
  <1> USE DEF Recoverable
  <1>1. DownIsEmpty' /\ OnlyForceModes' /\ ExclusionFacts'
    BY DownStep, OnlyForceStep, ExclusionStep
  <1>2. OfForceModes' /\ SoloFacts'
    BY OfForceStep, SoloStep
  <1>3. StoredFacts'
    BY StoredStep
  <1> QED
    BY <1>1, <1>2, <1>3

\* Whatever is refused and however often Home Assistant restarts, when a user
\* command finds no handler at work and the inverter calls do not raise, a
\* force session that no callback will end has its record on disk, where the
\* next restart finds it (persist_force_mode_state and
\* restore_force_mode_from_persistence).
THEOREM StrandedSessionsAreOnDisk ==
  ASSUME MaxInFlight = 1, "raised" \notin Outcomes,
         Commands \cap {"hold", "self"} = {}
  PROVE  Spec => []StrandedSessionIsOnDisk
  <1>1. TypeOK /\ Recoverable => StrandedSessionIsOnDisk
    <2> SUFFICES ASSUME TypeOK, Recoverable, Quiet, ForceActive
                 PROVE  disk.timed /\ disk.mode \in ForceModes
      BY DEF StrandedSessionIsOnDisk, ForceActive
    <2>1. saves = <<>> /\ Range(writes) = {}
      BY Shapes DEF Quiet
    <2>2. disk.timed
      BY <2>1 DEF Recoverable, StoredFacts, ForceQueued
    <2> QED
      BY <2>2 DEF Recoverable, OfForceModes
  <1> QED
    BY <1>1, InitRecoverable, RecoverableStep, TypeCorrect, PTL DEF Spec

\* Under the same conditions the record of a session is only dropped when the
\* inverter is back to normal: a cleanup attempt that was refused keeps it
\* (_schedule_persisted_force_cleanup_retry).
THEOREM RecordOutlivesSession ==
  ASSUME MaxInFlight = 1, "raised" \notin Outcomes,
         Commands \cap {"hold", "self"} = {}
  PROVE  Spec => RecordDroppedOnlyWhenNormal
  <1>1. TypeOK /\ Recoverable /\ [Next]_vars
          => [disk.timed /\ ~disk'.timed => hw' = "normal"]_vars
    <2> SUFFICES ASSUME TypeOK, Recoverable, [Next]_vars,
                        disk.timed, ~disk'.timed
                 PROVE  hw' = "normal"
      OBVIOUS
    <2>1. SaveCompletes
      BY OnlySavesWriteTheRecord
    <2>2. saves # <<>> /\ hw' = hw
      BY <2>1 DEF SaveCompletes
    <2>3. ASSUME ForceActive
          PROVE  FALSE
      <3>1. PICK m \in ForceModes :
              active[m] /\ Snapshot = [mode |-> m, timed |-> timed[m]]
        BY <2>3, SnapshotIsForce DEF Recoverable
      <3>2. timed[m]
        BY <2>2, <3>1, QueuedForceIsAlone DEF Recoverable, StoredFacts
      <3>3. disk' # Snapshot
        BY <3>1, <3>2
      <3>4. Head(saves).then = "clear"
        BY <2>1, <3>3 DEF SaveCompletes
      <3>5. Head(saves) \in Range(saves)
        BY <2>2, SaveServed
      <3> QED
        BY <2>3, <3>4, <3>5 DEF Recoverable, StoredFacts, NoForce, ForceActive
    <2> QED
      BY <2>2, <2>3 DEF Recoverable, StoredFacts
  <1> QED
    BY <1>1, InitRecoverable, RecoverableStep, TypeCorrect, PTL
       DEF Spec, RecordDroppedOnlyWhenNormal
=============================================================================
