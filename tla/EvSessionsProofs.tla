--------------------------- MODULE EvSessionsProofs ---------------------------
(***************************************************************************)
(* Theorems about EvSessions, for any number of starts, stops and toggles  *)
(* that overlap in any way, with every owner mode and permission: a lease, *)
(* the stored session and its update loop belong together, and the Solar   *)
(* Surplus toggle ends no other owner's session.  The same where a manual  *)
(* session is restored while stops, toggles and other history writers run. *)
(***************************************************************************)
EXTENDS EvSessions, TLAPS

-----------------------------------------------------------------------------
(* Tasks and the queue                                                     *)

States == {"idle", "checked", "decided", "ending", "stopping", "starting",
           "tracking", "done", "failed"}

\* A task that goes on changes its own place only.
LEMMA Goes ==
  ASSUME op \in [Ops -> Tasks], NEW o \in Ops, NEW pc \in States,
         op' = [op EXCEPT ![o].pc = pc]
  PROVE  /\ op' \in [Ops -> Tasks] /\ op'[o].pc = pc
         /\ op'[o] = [op[o] EXCEPT !.pc = pc]
         /\ \A p \in Ops : /\ op'[p].dict = op[p].dict /\ op'[p].sess = op[p].sess
                           /\ op'[p].mode = op[p].mode /\ op'[p].stop = op[p].stop
         /\ \A p \in Ops \ {o} : op'[p] = op[p]
  <1>1. op[o] \in Tasks
    OBVIOUS
  <1>2. [op[o] EXCEPT !.pc = pc] \in Tasks
    BY <1>1 DEF Tasks, States
  <1>3. /\ op'[o] = [op[o] EXCEPT !.pc = pc]
        /\ \A p \in Ops \ {o} : op'[p] = op[p]
    OBVIOUS
  <1>4. op' \in [Ops -> Tasks]
    BY <1>2
  <1>5. /\ op'[o].pc = pc /\ op'[o].dict = op[o].dict /\ op'[o].sess = op[o].sess
        /\ op'[o].mode = op[o].mode /\ op'[o].stop = op[o].stop
    BY <1>1, <1>3 DEF Tasks
  <1> QED
    BY <1>3, <1>4, <1>5

\* A task that waits for the history notes the session it is to end.
LEMMA GoesEnding ==
  ASSUME op \in [Ops -> Tasks], NEW o \in Ops, NEW d \in Ops, NEW s \in Ops,
         NEW saw \in Owners,
         op' = [op EXCEPT ![o].pc = "ending", ![o].dict = d, ![o].sess = s,
                          ![o].saw = saw]
  PROVE  /\ op' \in [Ops -> Tasks] /\ op'[o].pc = "ending"
         /\ op'[o].dict = d /\ op'[o].sess = s
         /\ op'[o].mode = op[o].mode /\ op'[o].stop = op[o].stop
         /\ \A p \in Ops \ {o} : op'[p] = op[p]
  <1>1. op[o] \in Tasks
    OBVIOUS
  <1> DEFINE new == [op[o] EXCEPT !.pc = "ending", !.dict = d, !.sess = s, !.saw = saw]
  <1>2. new \in Tasks
    BY <1>1 DEF Tasks
  <1>3. op'[o] = new /\ \A p \in Ops \ {o} : op'[p] = op[p]
    OBVIOUS
  <1>4. op' \in [Ops -> Tasks]
    BY <1>2, <1>3
  <1>5. /\ op'[o].pc = "ending" /\ op'[o].dict = d /\ op'[o].sess = s
        /\ op'[o].mode = op[o].mode /\ op'[o].stop = op[o].stop
    BY <1>1, <1>3 DEF Tasks
  <1> QED
    BY <1>3, <1>4, <1>5

\* A stop that decides notes the session it has seen.
LEMMA GoesDecided ==
  ASSUME op \in [Ops -> Tasks], NEW o \in Ops, NEW s \in Ops,
         op' = [op EXCEPT ![o].pc = "decided", ![o].sess = s]
  PROVE  /\ op' \in [Ops -> Tasks] /\ op'[o].pc = "decided"
         /\ op'[o].mode = op[o].mode /\ op'[o].stop = op[o].stop
         /\ \A p \in Ops \ {o} : op'[p] = op[p]
  <1>1. op[o] \in Tasks
    OBVIOUS
  <1> DEFINE new == [op[o] EXCEPT !.pc = "decided", !.sess = s]
  <1>2. new \in Tasks
    BY <1>1 DEF Tasks
  <1>3. op'[o] = new /\ \A p \in Ops \ {o} : op'[p] = op[p]
    OBVIOUS
  <1>4. op' \in [Ops -> Tasks]
    BY <1>2, <1>3
  <1>5. /\ op'[o].pc = "decided"
        /\ op'[o].mode = op[o].mode /\ op'[o].stop = op[o].stop
    BY <1>1, <1>3 DEF Tasks
  <1> QED
    BY <1>3, <1>4, <1>5

\* A task joins the queue behind the others, and the holder of the lock leaves.
LEMMA Joins ==
  ASSUME NEW q \in Seq(Ops), NEW o \in Ops
  PROVE  /\ Append(q, o) \in Seq(Ops) /\ Len(Append(q, o)) = Len(q) + 1
         /\ \A k \in 1..Len(q) : Append(q, o)[k] = q[k]
         /\ Append(q, o)[Len(q) + 1] = o
  OBVIOUS

\* The holder of the history lock is the first in the queue.
LEMMA Leaves ==
  ASSUME queue \in Seq(Ops), queue # <<>>
  PROVE  /\ Head(queue) \in Ops /\ Head(queue) = queue[1]
         /\ Tail(queue) \in Seq(Ops) /\ Len(Tail(queue)) = Len(queue) - 1
         /\ Len(queue) \in Nat /\ Len(queue) > 0
         /\ \A k \in 1..Len(Tail(queue)) : Tail(queue)[k] = queue[k + 1]
  OBVIOUS

\* Who waits in the queue, and that nobody does twice.
InQueue(o) == \E i \in 1..Len(queue) : queue[i] = o
NobodyTwice == \A i, j \in 1..Len(queue) : i # j => queue[i] # queue[j]

\* A task that joins is the only new one.
LEMMA QueueJoined ==
  ASSUME queue \in Seq(Ops), NEW o \in Ops, queue' = Append(queue, o)
  PROVE  /\ \A p : InQueue(p)' => InQueue(p) \/ p = o
         /\ NobodyTwice /\ ~InQueue(o) => NobodyTwice'
         /\ queue' \in Seq(Ops) /\ Len(queue') = Len(queue) + 1
  <1> DEFINE n == Len(queue)
  <1>1. /\ n \in Nat /\ Len(queue') = n + 1 /\ queue' \in Seq(Ops)
        /\ \A k \in 1..n : queue'[k] = queue[k] /\ queue'[n + 1] = o
    BY Joins
  <1>2. \A k \in 1..(n + 1) : k \in 1..n \/ k = n + 1
    BY <1>1
  <1>3. queue'[n + 1] = o
    BY Joins
  <1>4. \A p : InQueue(p)' => InQueue(p) \/ p = o
    BY <1>1, <1>2, <1>3 DEF InQueue
  <1>5. NobodyTwice /\ ~InQueue(o) => NobodyTwice'
    BY <1>1, <1>2, <1>3 DEF InQueue, NobodyTwice
  <1> QED
    BY <1>1, <1>4, <1>5

\* The holder of the lock is in the queue and leaves the others there.
LEMMA QueueLeft ==
  ASSUME queue \in Seq(Ops), queue # <<>>
  PROVE  /\ Head(queue) \in Ops /\ InQueue(Head(queue)) /\ Len(queue) \in Nat
         /\ queue' = Tail(queue) => /\ queue' \in Seq(Ops)
                                    /\ Len(queue') = Len(queue) - 1
                                    /\ \A p : InQueue(p)' => InQueue(p)
         /\ queue' = Tail(queue) /\ NobodyTwice
            => NobodyTwice' /\ \A p : InQueue(p)' => p # Head(queue)
  <1> DEFINE h == Head(queue)
  <1>1. /\ h \in Ops /\ h = queue[1] /\ Len(queue) \in Nat /\ Len(queue) > 0
    BY Leaves
  <1>2. InQueue(h)
    BY <1>1 DEF InQueue
  <1>3. ASSUME queue' = Tail(queue)
        PROVE  /\ queue' \in Seq(Ops) /\ Len(queue') = Len(queue) - 1
               /\ \A k \in 1..Len(queue') : queue'[k] = queue[k + 1]
               /\ \A p : InQueue(p)' => InQueue(p)
    <2>1. /\ queue' \in Seq(Ops) /\ Len(queue') = Len(queue) - 1
          /\ \A k \in 1..Len(queue') : queue'[k] = queue[k + 1]
      BY <1>3, Leaves
    <2>2. \A k \in 1..Len(queue') : k + 1 \in 1..Len(queue)
      BY <1>1, <2>1
    <2> QED
      BY <2>1, <2>2 DEF InQueue
  <1>4. ASSUME queue' = Tail(queue), NobodyTwice
        PROVE  NobodyTwice' /\ \A k \in 1..Len(queue') : queue'[k] # h
    <2>1. \A k \in 1..Len(queue') :
            k + 1 \in 1..Len(queue) /\ k + 1 # 1 /\ queue'[k] = queue[k + 1]
      BY <1>1, <1>3, <1>4
    <2>2. \A i, j \in 1..Len(queue') : i # j => i + 1 # j + 1
      OBVIOUS
    <2> QED
      BY <1>1, <2>1, <2>2, <1>4 DEF NobodyTwice
  <1>5. ASSUME queue' = Tail(queue), NobodyTwice, NEW p, InQueue(p)'
        PROVE  p # Head(queue)
    BY <1>4, <1>5 DEF InQueue
  <1> QED
    BY <1>1, <1>2, <1>3, <1>4, <1>5

\* The session stored is one of the tasks'.
LEMMA SessionIsTask ==
  ASSUME TypeOK
  PROVE  Session \in Ops \cup {None} /\ (Session # None => entry \in Ops)
  BY DEF TypeOK, Session, Stored

\* What the end of a teardown makes of the task and of the lease.
LEMMA Torn ==
  ASSUME op \in [Ops -> Tasks], NEW o \in Ops, NEW ended \in BOOLEAN, NEW left,
         NEW waiting, TornDown(o, ended, left, waiting)
  PROVE  /\ op' = [op EXCEPT ![o].pc = op'[o].pc]
         /\ op'[o].pc \in {"stopping", "starting", "tracking", "done"}
         /\ op'[o].pc = "stopping" <=> ended /\ op[o].stop
         /\ o \in Starts /\ op'[o].pc # "stopping" => op'[o].pc = "starting"
         /\ o \in Stops \cup Toggles /\ op'[o].pc # "stopping" => op'[o].pc = "done"
         /\ o \in Restores /\ op'[o].pc # "stopping" => op'[o].pc = "tracking"
         /\ startLock' = ToggleLock(o, op'[o].pc)
  <1> DEFINE pc == IF ended /\ op[o].stop THEN "stopping"
                   ELSE IF o \in Starts THEN "starting"
                   ELSE IF o \in Restores THEN "tracking" ELSE "done"
  <1>1. pc \in States
    BY DEF States
  <1>2. op' = [op EXCEPT ![o].pc = pc] /\ startLock' = ToggleLock(o, pc)
    BY DEF TornDown
  <1>3. op'[o].pc = pc
    BY <1>1, <1>2, Goes
  <1> QED
    BY <1>2, <1>3, OpsAreApart

-----------------------------------------------------------------------------
(* Types                                                                   *)

\* A task that looks a session up keeps the types.
LEMMA LookUpTypes ==
  ASSUME TypeOK, NEW o \in Ops, NEW wanted, LookUp(o, wanted)
  PROVE  TypeOK'
  <1> DEFINE s == IF wanted \in {None, Session} THEN Session ELSE None
  <1> USE DEF TypeOK
  <1>0. /\ timers' \subseteq Ops /\ UNCHANGED <<owner, named, tracked, loaded>>
        /\ None \notin Ops
    BY OpsAreApart DEF LookUp
  <1>1. s \in Ops \cup {None} /\ (s # None => entry \in Ops)
    BY SessionIsTask
  <1>2. CASE s \in named
    <2>1. s \in Ops /\ entry \in Ops /\ owner[s] \in Owners
      BY <1>1, <1>2, <1>0
    <2>2. /\ op' = [op EXCEPT ![o].pc = "ending", ![o].dict = entry,
                              ![o].sess = s, ![o].saw = owner[s]]
          /\ queue' = Append(queue, o)
          /\ startLock' \in {startLock, None, o} /\ (o \notin Toggles => startLock' = startLock)
          /\ UNCHANGED <<entry, slot, lease>>
      BY <1>2 DEF LookUp, ToggleLock
    <2>3. op' \in [Ops -> Tasks]
      BY <2>1, <2>2, GoesEnding
    <2>4. queue' \in Seq(Ops)
      BY <2>2, Joins
    <2> QED
      BY <1>0, <2>2, <2>3, <2>4
  <1>3. CASE s \notin named
    <2>1. PICK ended \in BOOLEAN, left \in {entry, None} :
            /\ TornDown(o, ended, left, queue)
            /\ slot' \in [Ops -> Ops \cup {None}]
      BY <1>1, <1>3 DEF LookUp, DropEmptied
    <2>2. /\ startLock' = ToggleLock(o, op'[o].pc)
          /\ op' = [op EXCEPT ![o].pc = op'[o].pc] /\ op'[o].pc \in States
      BY <2>1, Torn DEF States
    <2>3. op' \in [Ops -> Tasks]
      BY <2>2, Goes
    <2>4. queue' \in {queue, Append(queue, o)} /\ entry' \in {o, left}
          /\ lease' \in {None, lease}
      BY <2>1 DEF TornDown
    <2>5. queue' \in Seq(Ops)
      BY <2>4, Joins
    <2> QED
      BY <1>0, <2>1, <2>2, <2>3, <2>4, <2>5 DEF ToggleLock, Owners
  <1> QED
    BY <1>2, <1>3

\* A task that comes back from a teardown keeps the types.
LEMMA TornDownTypes ==
  ASSUME TypeOK, NEW o \in Ops, NEW ended \in BOOLEAN, NEW left \in Ops \cup {None},
         NEW waiting \in Seq(Ops), TornDown(o, ended, left, waiting),
         slot' \in [Ops -> Ops \cup {None}],
         tracked' \in BOOLEAN, UNCHANGED <<owner, named, timers, loaded>>
  PROVE  TypeOK'
  <1> USE DEF TypeOK
  <1>1. /\ startLock' = ToggleLock(o, op'[o].pc)
        /\ op' = [op EXCEPT ![o].pc = op'[o].pc] /\ op'[o].pc \in States
    BY Torn DEF States
  <1>2. op' \in [Ops -> Tasks]
    BY <1>1, Goes
  <1>3. queue' \in {waiting, Append(waiting, o)} /\ entry' \in {o, left}
        /\ lease' \in {None, lease}
    BY DEF TornDown
  <1>4. queue' \in Seq(Ops)
    BY <1>3, Joins
  <1> QED
    BY <1>1, <1>2, <1>3, <1>4 DEF ToggleLock, Owners

\* Every step of a task keeps the types.
LEMMA TaskTypes ==
  ASSUME TypeOK, NEW o \in Ops, OpStep(o)
  PROVE  TypeOK'
  <1> USE DEF TypeOK
  <1>1. CASE StopConfirmed(o)
    <2>1. /\ TornDown(o, FALSE, entry, queue)
          /\ UNCHANGED <<slot, owner, named, timers, tracked, loaded>>
      BY <1>1 DEF StopConfirmed
    <2> QED
      BY <2>1, TornDownTypes
  <1>2. CASE StopDecided(o)
    <2>1. Session \in Ops
      BY <1>2, SessionIsTask DEF StopDecided
    <2>2. /\ op' = [op EXCEPT ![o].pc = "decided", ![o].sess = Session]
          /\ UNCHANGED <<startLock, entry, slot, owner, named, timers, lease, history>>
      BY <1>2 DEF StopDecided
    <2>3. op' \in [Ops -> Tasks]
      BY <2>1, <2>2, GoesDecided
    <2> QED
      BY <2>2, <2>3 DEF history
  <1>3. CASE StopBegins(o) \/ StartTearsDown(o) \/ RestoreBegins(o)
    BY <1>3, LookUpTypes DEF StopBegins, StartTearsDown, RestoreBegins
  <1>4. CASE ToggleOff(o)
    <2>1. CASE LookUp(o, None)
      BY <2>1, LookUpTypes
    <2>2. CASE /\ TornDown(o, FALSE, entry, queue)
               /\ UNCHANGED <<slot, owner, named, timers, tracked, loaded>>
      BY <2>2, TornDownTypes
    <2> QED
      BY <1>4, <2>1, <2>2 DEF ToggleOff
  <1>5. CASE StartChecks(o)
    <2>1. PICK pc \in {"failed", "done", "checked"} :
            /\ op' = [op EXCEPT ![o].pc = pc]
            /\ startLock' \in {startLock, o}
            /\ \/ UNCHANGED <<owner, lease>>
               \/ Session # None /\ owner' = [owner EXCEPT ![Session] = op[o].mode]
                  /\ lease' = op[o].mode
            /\ UNCHANGED <<entry, slot, named, timers, history>> /\ o \in Starts
      BY <1>5 DEF StartChecks
    <2>2. op' \in [Ops -> Tasks]
      BY <2>1, Goes DEF States
    <2>3. op[o].mode \in Owners
      BY DEF Tasks
    <2>4. owner' \in [Ops -> Owners] /\ lease' \in Owners
      BY <2>1, <2>3
    <2> QED
      BY <2>1, <2>2, <2>4 DEF history
  <1>6. CASE StartGivesUp(o)
    <2>1. op' \in [Ops -> Tasks]
      BY <1>6, Goes DEF StartGivesUp, States
    <2> QED
      BY <1>6, <2>1 DEF StartGivesUp, history
  <1>7. CASE StartConfirmed(o)
    <2>1. op' \in [Ops -> Tasks]
      BY <1>7, Goes DEF StartConfirmed, States
    <2>2. op[o].mode \in Owners
      BY DEF Tasks
    <2>3. queue' \in Seq(Ops)
      BY <1>7, Joins DEF StartConfirmed
    <2>4. entry' \in Ops /\ slot' \in [Ops -> Ops \cup {None}]
      BY <1>7 DEF StartConfirmed
    <2> QED
      BY <1>7, <2>1, <2>2, <2>3, <2>4 DEF StartConfirmed
  <1>8. CASE OtherQueues(o)
    <2>1. op' \in [Ops -> Tasks]
      BY <1>8, Goes DEF OtherQueues, States
    <2>2. queue' \in Seq(Ops)
      BY <1>8, Joins DEF OtherQueues
    <2> QED
      BY <1>8, <2>1, <2>2 DEF OtherQueues
  <1> QED
    BY <1>1, <1>2, <1>3, <1>4, <1>5, <1>6, <1>7, <1>8 DEF OpStep

\* What the history's answer does: one of four.
LEMMA Answers ==
  ASSUME TypeOK, HistoryAnswers, NEW o, o = Head(queue)
  PROVE  /\ queue # <<>> /\ o \in Ops
         /\ \/ o \in Others /\ OtherEnded(o)
            \/ o \notin Others /\ op[o].pc = "ending" /\ Ended(o)
            \/ /\ o \notin Others /\ op[o].pc # "ending" /\ o \in Starts
               /\ StartTracked(o) /\ queue' = Tail(queue) /\ tracked' /\ loaded'
            \/ /\ o \notin Others /\ op[o].pc # "ending" /\ o \notin Starts
               /\ RestoreTracked(o) /\ queue' = Tail(queue) /\ tracked' /\ loaded'
  BY DEF HistoryAnswers, TypeOK

\* The history's answer keeps the types.
LEMMA AnswerTypes ==
  ASSUME TypeOK, HistoryAnswers
  PROVE  TypeOK'
  <1> USE DEF TypeOK
  <1> DEFINE o == Head(queue)
  <1>0. o \in Ops /\ Tail(queue) \in Seq(Ops) /\ queue # <<>>
    BY Leaves DEF HistoryAnswers
  <1>1. CASE OtherEnded(o)
    <2>1. op' \in [Ops -> Tasks]
      BY <1>0, <1>1, Goes DEF OtherEnded, States
    <2> QED
      BY <1>0, <1>1, <2>1 DEF OtherEnded
  <1>2. CASE Ended(o)
    <2>1. PICK ended \in BOOLEAN, left \in {entry, None} :
            /\ TornDown(o, ended, left, Tail(queue)) /\ tracked' = FALSE
            /\ slot' \in [Ops -> Ops \cup {None}]
            /\ UNCHANGED <<owner, named, timers, loaded>>
      BY <1>0, <1>2 DEF Ended, DropEmptied
    <2> QED
      BY <1>0, <2>1, TornDownTypes
  <1>3. CASE /\ StartTracked(o) /\ queue' = Tail(queue) /\ tracked' = TRUE /\ loaded' = TRUE
    <2>1. PICK pc \in {"done", "failed"} : op' = [op EXCEPT ![o].pc = pc]
      BY <1>3 DEF StartTracked
    <2>2. op' \in [Ops -> Tasks]
      BY <1>0, <2>1, Goes DEF States
    <2>3. op[o].mode \in Owners
      BY <1>0 DEF Tasks
    <2>4. named' \subseteq Ops /\ lease' \in Owners
      BY <1>3, <2>3, SessionIsTask DEF StartTracked
    <2> QED
      BY <1>0, <1>3, <2>2, <2>4 DEF StartTracked
  <1>4. CASE /\ RestoreTracked(o) /\ queue' = Tail(queue) /\ tracked' = TRUE /\ loaded' = TRUE
    <2>1. PICK pc \in {"done", "failed"} : op' = [op EXCEPT ![o].pc = pc]
      BY <1>4 DEF RestoreTracked
    <2>2. op' \in [Ops -> Tasks]
      BY <1>0, <2>1, Goes DEF States
    <2>3. /\ slot' \in [Ops -> Ops \cup {None}] /\ owner' \in [Ops -> Owners]
          /\ named' \subseteq Ops /\ timers' \subseteq Ops /\ lease' \in Owners
      BY <1>0, <1>4 DEF RestoreTracked, Owners
    <2> QED
      BY <1>0, <1>4, <2>2, <2>3 DEF RestoreTracked
  <1> QED
    BY <1>1, <1>2, <1>3, <1>4 DEF HistoryAnswers

\* Every step keeps the types.
LEMMA TypeStep == TypeOK /\ [Next]_vars => TypeOK'
  <1> SUFFICES ASSUME TypeOK, [Next]_vars PROVE TypeOK'
    OBVIOUS
  <1>1. CASE UNCHANGED vars
    BY <1>1 DEF TypeOK, vars
  <1> QED
    BY <1>1, TaskTypes, AnswerTypes DEF Next

\* A task begins with the arguments of its call.
LEMMA Beginnings ==
  ASSUME Init, NEW o \in Ops
  PROVE  op[o] \in Tasks /\ op[o].pc = "idle" /\ op[o].dict = None
         /\ (o \in Toggles => op[o].stop) /\ (o \in Restores => ~op[o].stop)
  <1>1. op[o] \in Arguments(o)
    BY DEF Init
  <1>2. /\ op[o].pc = "idle" /\ op[o].dict = None /\ op[o].sess = None
        /\ op[o].saw = None
    BY <1>1 DEF Arguments
  <1>3. op[o].mode \in Owners
    BY <1>1 DEF Arguments, Owners
  <1>4. op[o].takeover \in BOOLEAN /\ op[o].stop \in BOOLEAN
    BY <1>1 DEF Arguments
  <1>5. op[o] = [pc |-> op[o].pc, dict |-> op[o].dict, sess |-> op[o].sess,
                 saw |-> op[o].saw, mode |-> op[o].mode,
                 takeover |-> op[o].takeover, stop |-> op[o].stop]
    BY <1>1 DEF Arguments
  <1>6. op[o] \in Tasks
    <2>1. op[o].saw \in Owners
      BY <1>2 DEF Owners
    <2> QED
      BY <1>2, <1>3, <1>4, <1>5, <2>1 DEF Tasks
  <1>7. (o \in Toggles => op[o].stop) /\ (o \in Restores => ~op[o].stop)
    BY <1>1, OpsAreApart DEF Arguments
  <1> QED
    BY <1>2, <1>6, <1>7

\* What the initial state gives.
LEMMA TypeInitially == Init => TypeOK
  <1> SUFFICES ASSUME Init PROVE TypeOK
    OBVIOUS
  <1>1. op \in [Ops -> Tasks]
    BY Beginnings DEF Init
  <1>2. /\ startLock = None /\ entry = None /\ lease = None
        /\ slot = [o \in Ops |-> None] /\ owner = [o \in Ops |-> None]
        /\ named = {} /\ timers = {} /\ queue = <<>>
    BY DEF Init
  <1>3. tracked \in BOOLEAN /\ loaded \in BOOLEAN
    BY DEF Init
  <1>4. lease \in Owners /\ slot \in [Ops -> Ops \cup {None}]
        /\ owner \in [Ops -> Owners] /\ queue \in Seq(Ops)
    BY <1>2 DEF Owners
  <1> QED
    BY <1>1, <1>2, <1>3, <1>4 DEF TypeOK

\* Every variable keeps to its values, whatever runs at the same time, restored
\* sessions next to automated starts included.
THEOREM TypeCorrect == Spec => []TypeOK
  BY TypeInitially, TypeStep, PTL DEF Spec

-----------------------------------------------------------------------------
(* Automated starts.  Whoever is between the check of a start, or of the   *)
(* toggle, and its end holds the start lock; those who wait for the        *)
(* history all wait to end one session, which is the stored one until the  *)
(* first of them has ended it, and then they finish in one go.             *)

\* The task is in the part that the start lock protects.
IsLocked(o) ==
  \/ /\ o \in Starts
     /\ op[o].pc \in {"checked", "ending", "stopping", "starting", "tracking"}
  \/ o \in Toggles /\ op[o].pc \in {"ending", "stopping"}

\* It has the lock; after its teardown no session is stored, and the session the
\* toggle waits to end is still Solar Surplus's.
LockFacts ==
  \A o \in Ops : IsLocked(o) =>
    /\ startLock = o
    /\ op[o].pc \in {"stopping", "starting"} => Session = None
    /\ o \in Toggles /\ op[o].pc = "ending" /\ Session = op[o].sess
       /\ Session # None
       => owner[Session] = "solar_surplus"

\* What a task in the queue waits for.
Awaits(o) ==
  /\ op[o].pc = "ending" =>
       /\ op[o].sess \in Ops /\ op[o].dict \in Ops /\ timers = {}
       /\ \/ Session = op[o].sess /\ entry = op[o].dict /\ Session \in named
          \/ Session = None /\ entry = None /\ ~tracked /\ slot[op[o].dict] = None
  /\ op[o].pc = "tracking" =>
       o \in Starts /\ Len(queue) = 1 /\ Session \in {o, None}

QueueFacts ==
  /\ NobodyTwice
  /\ \A o \in Ops : InQueue(o) =>
       o \notin Others /\ op[o].pc \in {"ending", "tracking"} /\ Awaits(o)

\* The stored session is known to the history, or its start waits for that.
SessionFacts ==
  /\ \A s \in named : op[s].pc = "done"
  /\ Session # None =>
       /\ Session \in Starts
       /\ \/ Session \in named
          \/ op[Session].pc = "tracking" /\ owner[Session] = op[Session].mode
  /\ LeaseIsSessions
  /\ OneUpdateLoop

StartFacts == LockFacts /\ QueueFacts /\ SessionFacts

\* A task that does not wait for the history, and does not begin to, leaves the
\* queue as it is.
LEMMA QueueFrame ==
  ASSUME TypeOK, QueueFacts, NEW o \in Ops, op[o].pc \notin {"ending", "tracking"},
         \A p \in Ops \ {o} : op'[p] = op[p],
         UNCHANGED <<queue, slot, named, timers, tracked, Session>>,
         Session = None => entry' = None \/ entry' = entry,
         Session # None => entry' = entry
  PROVE  QueueFacts'
  <1>1. NobodyTwice' /\ \A p : InQueue(p)' => InQueue(p)
    BY DEF QueueFacts, NobodyTwice, InQueue
  <1>2. ASSUME NEW p \in Ops, InQueue(p)
        PROVE  /\ p \notin Others /\ op'[p].pc \in {"ending", "tracking"}
               /\ Awaits(p)'
    <2>1. /\ p \notin Others /\ op[p].pc \in {"ending", "tracking"} /\ Awaits(p)
      BY <1>2 DEF QueueFacts
    <2>2. op'[p] = op[p]
      BY <2>1
    <2>3. Session = op[p].sess /\ op[p].sess \in Ops => entry' = entry
      BY OpsAreApart
    <2>4. op[p].pc = "ending" => Awaits(p)'
      BY <2>1, <2>2, <2>3 DEF Awaits
    <2>5. op[p].pc = "tracking" => Awaits(p)'
      BY <2>1, <2>2 DEF Awaits
    <2> QED
      BY <2>1, <2>2, <2>4, <2>5
  <1> QED
    BY <1>1, <1>2 DEF QueueFacts

\* Nor does it change the session, if it is not the one that made it.
LEMMA SessionFrame ==
  ASSUME TypeOK, SessionFacts, NEW o \in Ops, op[o].pc \notin {"tracking", "done"},
         \A p \in Ops \ {o} : op'[p] = op[p],
         UNCHANGED <<named, timers, Session, lease, owner>>
  PROVE  SessionFacts'
  <1>1. \A s \in named : s # o /\ s \in Ops
    BY DEF SessionFacts, TypeOK
  <1>2. Session # None => Session \in Ops \ {o}
    BY <1>1, SessionIsTask DEF SessionFacts
  <1>3. \A s \in named : op'[s].pc = "done"
    BY <1>1 DEF SessionFacts
  <1>4. Session # None => op'[Session] = op[Session]
    BY <1>2
  <1>5. LeaseIsSessions'
    BY <1>4 DEF SessionFacts, LeaseIsSessions
  <1>6. OneUpdateLoop'
    BY DEF SessionFacts, OneUpdateLoop
  <1>7. Session' # None =>
       /\ Session' \in Starts
       /\ \/ Session' \in named'
          \/ op'[Session'].pc = "tracking" /\ owner'[Session'] = op'[Session'].mode
    BY <1>4 DEF SessionFacts
  <1> QED
    BY <1>3, <1>5, <1>6, <1>7 DEF SessionFacts

\* The lock passes on to nobody else while its holder has it.
LEMMA LockFrame ==
  ASSUME TypeOK, LockFacts, NEW o \in Ops,
         \A p \in Ops \ {o} : op'[p] = op[p],
         Session' \in {Session, None}, UNCHANGED owner,
         startLock' = startLock \/ startLock \in {o, None},
         IsLocked(o)' => /\ startLock' = o
                         /\ op'[o].pc \in {"stopping", "starting"} => Session' = None
                         /\ o \in Toggles /\ op'[o].pc = "ending"
                            /\ Session' = op'[o].sess
                            /\ Session' # None
                            => owner[Session'] = "solar_surplus"
  PROVE  LockFacts'
  <1>1. ASSUME NEW p \in Ops \ {o}, IsLocked(p)'
        PROVE  /\ startLock' = p
               /\ op'[p].pc \in {"stopping", "starting"} => Session' = None
               /\ p \in Toggles /\ op'[p].pc = "ending" /\ Session' = op'[p].sess
                  /\ Session' # None
                  => owner'[Session'] = "solar_surplus"
    <2>1. op'[p] = op[p]
      BY <1>1
    <2>2. IsLocked(p)
      BY <1>1, <2>1 DEF IsLocked
    <2>3. startLock = p /\ p # None
      BY <2>2, OpsAreApart DEF LockFacts
    <2>4. startLock' = p
      BY <1>1, <2>3
    <2> QED
      BY <2>1, <2>2, <2>4 DEF LockFacts
  <1> QED
    BY <1>1 DEF LockFacts

\* A task that looks a session up: a stop, a start with the lock, or a toggle
\* that has seen Solar Surplus's own and takes the lock.
LEMMA LookUpKeeps ==
  ASSUME TypeOK, StartFacts, NEW o \in Starts \cup Stops \cup Toggles,
         op[o].pc \in {"idle", "decided", "checked"},
         o \in Starts => startLock = o,
         NEW wanted, o \notin Stops => wanted = None,
         o \in Toggles => /\ startLock = None /\ Session # None
                          /\ owner[Session] = "solar_surplus",
         LookUp(o, wanted)
  PROVE  StartFacts'
  <1> DEFINE s == IF wanted \in {None, Session} THEN Session ELSE None
  <1> USE DEF StartFacts
  <1>0. /\ UNCHANGED <<owner, named, tracked, loaded>> /\ timers' = timers \ {s}
        /\ o \in Ops /\ None \notin Ops /\ o \notin Restores \cup Others
    BY OpsAreApart DEF LookUp, Ops
  <1>1. Session \in Ops \cup {None} /\ (Session # None => entry \in Ops)
    BY SessionIsTask
  <1>2. op \in [Ops -> Tasks] /\ op[o].pc \notin {"ending", "tracking", "done"}
    BY DEF TypeOK
  <1>3. CASE s \in named
    <2>1. /\ s = Session /\ s \in Ops /\ entry \in Ops /\ owner[s] \in Owners
      BY <1>0, <1>1, <1>3 DEF TypeOK
    <2>2. /\ op' = [op EXCEPT ![o].pc = "ending", ![o].dict = entry,
                              ![o].sess = s, ![o].saw = owner[s]]
          /\ queue' = Append(queue, o)
          /\ startLock' = ToggleLock(o, "ending")
          /\ UNCHANGED <<entry, slot, lease>>
      BY <1>3 DEF LookUp
    <2>3. /\ op'[o].pc = "ending" /\ op'[o].dict = entry /\ op'[o].sess = s
          /\ \A p \in Ops \ {o} : op'[p] = op[p]
      <3> HIDE DEF s
      <3>1. o \in Ops /\ op \in [Ops -> Tasks] /\ entry \in Ops /\ s \in Ops
        BY <1>0, <1>2, <2>1
      <3> DEFINE w == owner[s]
      <3>0. w \in Owners /\ op' = [op EXCEPT ![o].pc = "ending", ![o].dict = entry,
                                             ![o].sess = s, ![o].saw = w]
        BY <2>1, <2>2
      <3> HIDE DEF w
      <3>2. /\ op' \in [Ops -> Tasks] /\ op'[o].pc = "ending"
            /\ op'[o].dict = entry /\ op'[o].sess = s
            /\ op'[o].mode = op[o].mode /\ op'[o].stop = op[o].stop
            /\ \A p \in Ops \ {o} : op'[p] = op[p]
        BY <3>0, <3>1, GoesEnding
      <3> QED
        BY <3>2
    <2>4. Session' = Session /\ timers' = {}
      BY <1>0, <2>1, <2>2 DEF Session, Stored, SessionFacts, OneUpdateLoop
    <2>5. startLock' = IF o \in Toggles THEN o ELSE startLock
      BY <2>2 DEF ToggleLock
    <2>6. LockFacts'
      <3>1. IsLocked(o)' =>
              /\ startLock' = o
              /\ op'[o].pc \in {"stopping", "starting"} => Session' = None
              /\ o \in Toggles /\ op'[o].pc = "ending" /\ Session' = op'[o].sess
                 /\ Session' # None
                 => owner[Session'] = "solar_surplus"
        BY <2>1, <2>3, <2>4, <2>5 DEF IsLocked
      <3> QED
        BY <1>0, <2>3, <2>4, <2>5, <3>1, LockFrame
    <2>7. QueueFacts'
      <3>1. ~InQueue(o)
        BY <1>0, <1>2 DEF QueueFacts
      <3>2. NobodyTwice' /\ \A p : InQueue(p)' => InQueue(p) \/ p = o
        BY <1>0, <2>2, <3>1, QueueJoined DEF TypeOK, QueueFacts
      <3>3. ASSUME NEW p \in Ops \ {o}, InQueue(p)
            PROVE  op'[p].pc = "ending" /\ p \notin Others /\ Awaits(p)'
        <4>1. /\ op'[p] = op[p] /\ p \notin Others /\ Awaits(p)
              /\ op[p].pc \in {"ending", "tracking"}
          BY <2>3, <3>3 DEF QueueFacts
        <4>2. op[p].pc = "ending"
          BY <1>0, <1>3, <2>1, <4>1 DEF Awaits, SessionFacts
        <4>3. /\ Session = op[p].sess /\ entry = op[p].dict
              /\ op[p].sess \in Ops /\ op[p].dict \in Ops
          BY <1>0, <2>1, <4>1, <4>2 DEF Awaits
        <4> QED
          BY <1>0, <1>3, <2>1, <2>2, <2>4, <4>1, <4>2, <4>3 DEF Awaits
      <3>4. Awaits(o)'
        BY <1>0, <1>3, <2>1, <2>2, <2>3, <2>4 DEF Awaits
      <3> QED
        BY <1>0, <2>3, <3>2, <3>3, <3>4 DEF QueueFacts
    <2>8. SessionFacts'
      <3>1. o \notin named /\ Session # o /\ named \subseteq Ops
        BY <1>2, <1>3, <2>1 DEF SessionFacts, TypeOK
      <3>2. op'[Session] = op[Session] /\ \A p \in named : op'[p] = op[p]
        BY <2>1, <2>3, <3>1
      <3> QED
        BY <1>0, <1>3, <2>1, <2>2, <2>4, <3>2
           DEF SessionFacts, LeaseIsSessions, OneUpdateLoop
    <2> QED
      BY <2>6, <2>7, <2>8
  <1>4. CASE s = None
    <2>1. TornDown(o, FALSE, DropEmptied(entry), queue) /\ UNCHANGED slot
      BY <1>0, <1>4 DEF LookUp, TypeOK
    <2>2. /\ o \notin Toggles /\ entry' = DropEmptied(entry)
          /\ UNCHANGED <<queue, lease, startLock>>
          /\ op'[o].pc \in {"starting", "done"}
          /\ o \in Starts => Session = None
          /\ \A p \in Ops \ {o} : op'[p] = op[p]
      <3>1. o \notin Toggles /\ (o \in Starts => Session = None)
        BY <1>4, OpsAreApart
      <3>2. /\ op' = [op EXCEPT ![o].pc = op'[o].pc]
            /\ op'[o].pc \in {"stopping", "starting", "tracking", "done"}
            /\ op'[o].pc # "stopping" /\ (o \notin Restores => op'[o].pc # "tracking")
        BY <1>0, <1>2, <2>1, Torn, OpsAreApart
      <3>3. \A p \in Ops \ {o} : op'[p] = op[p]
        BY <1>0, <1>2, <3>2, Goes DEF States
      <3> QED
        BY <1>0, <2>1, <3>1, <3>2, <3>3 DEF TornDown, ToggleLock
    <2>3. /\ Session' = Session /\ timers' = timers
          /\ Session # None => entry' = entry
          /\ Session = None => entry' = None
      BY <1>0, <1>1, <1>4, <2>1, <2>2 DEF DropEmptied, Session, Stored, TypeOK
    <2>4. LockFacts'
      <3>1. IsLocked(o)' => o \in Starts
        BY <2>2 DEF IsLocked
      <3> QED
        BY <1>0, <2>2, <2>3, <3>1, LockFrame, OpsAreApart
    <2>5. QueueFacts'
      BY <1>0, <1>2, <2>1, <2>2, <2>3, QueueFrame
    <2>6. SessionFacts'
      BY <1>0, <1>2, <2>2, <2>3, SessionFrame
    <2> QED
      BY <2>4, <2>5, <2>6
  <1>5. CASE s \notin named /\ s # None
    <2>1. /\ s = Session /\ entry \in Ops
          /\ TornDown(o, TRUE, None, queue) /\ slot' = [slot EXCEPT ![entry] = None]
      BY <1>1, <1>5 DEF LookUp
    <2>2. /\ entry' = None /\ Session' = None /\ lease' = None /\ timers' = {}
          /\ queue' = queue
      BY <1>0, <2>1 DEF TornDown, Session, Stored, SessionFacts, OneUpdateLoop
    <2>3. /\ op' = [op EXCEPT ![o].pc = op'[o].pc]
          /\ op'[o].pc \in {"stopping", "starting", "done"}
          /\ startLock' = ToggleLock(o, op'[o].pc)
          /\ op'[o].pc = "starting" => o \notin Toggles
          /\ \A p \in Ops \ {o} : op'[p] = op[p]
      <3>1. /\ op' = [op EXCEPT ![o].pc = op'[o].pc]
            /\ op'[o].pc \in {"stopping", "starting", "tracking", "done"}
            /\ startLock' = ToggleLock(o, op'[o].pc)
            /\ op'[o].pc # "tracking"
            /\ op'[o].pc = "starting" => o \notin Toggles
        BY <1>0, <1>2, <2>1, Torn, OpsAreApart
      <3> QED
        BY <1>0, <1>2, <3>1, Goes DEF States
    <2>4. LockFacts'
      <3>1. IsLocked(o)' => startLock' = o
        BY <2>3 DEF IsLocked, ToggleLock
      <3> QED
        BY <1>0, <2>2, <2>3, <3>1, LockFrame DEF ToggleLock
    <2>5. QueueFacts'
      <3>1. NobodyTwice' /\ \A p : InQueue(p)' => InQueue(p)
        BY <2>2 DEF QueueFacts, NobodyTwice, InQueue
      <3>2. ASSUME NEW p \in Ops, InQueue(p)
            PROVE  /\ p \notin Others /\ op'[p].pc = "tracking" /\ Awaits(p)'
        <4>1. /\ p \notin Others /\ op[p].pc \in {"ending", "tracking"} /\ Awaits(p)
          BY <3>2 DEF QueueFacts
        <4>2. op'[p] = op[p]
          BY <1>2, <2>3, <4>1
        <4>3. op[p].pc = "tracking"
          BY <1>5, <2>1, <4>1 DEF Awaits
        <4> QED
          BY <2>2, <4>1, <4>2, <4>3 DEF Awaits
      <3> QED
        BY <3>1, <3>2 DEF QueueFacts
    <2>6. SessionFacts'
      <3>1. o \notin named /\ named \subseteq Ops
        BY <1>2 DEF SessionFacts, TypeOK
      <3> QED
        BY <1>0, <2>2, <2>3, <3>1 DEF SessionFacts, LeaseIsSessions, OneUpdateLoop
    <2> QED
      BY <2>4, <2>5, <2>6
  <1> QED
    BY <1>3, <1>4, <1>5

\* A task whose teardown found nothing to end goes on.
LEMMA GoesOn ==
  ASSUME TypeOK, NEW o \in Starts \cup Stops \cup Toggles,
         TornDown(o, FALSE, entry, queue)
  PROVE  /\ UNCHANGED <<entry, queue>>
         /\ op'[o].pc = IF o \in Starts THEN "starting" ELSE "done"
         /\ startLock' = IF o \in Toggles THEN None ELSE startLock
         /\ lease' = lease \/ (o \in Toggles /\ lease = "solar_surplus" /\ lease' = None)
         /\ \A p \in Ops \ {o} : op'[p] = op[p]
  <1>0. o \in Ops /\ o \notin Restores /\ op \in [Ops -> Tasks]
    BY OpsAreApart DEF Ops, TypeOK
  <1>1. /\ op' = [op EXCEPT ![o].pc = op'[o].pc] /\ op'[o].pc \in States
        /\ op'[o].pc = IF o \in Starts THEN "starting" ELSE "done"
        /\ startLock' = ToggleLock(o, op'[o].pc)
    BY <1>0, Torn, OpsAreApart DEF States
  <1>2. \A p \in Ops \ {o} : op'[p] = op[p]
    BY <1>0, <1>1, Goes
  <1>3. UNCHANGED <<entry, queue>>
        /\ (lease' = lease \/ (o \in Toggles /\ lease = "solar_surplus" /\ lease' = None))
    BY <1>0 DEF TornDown
  <1> QED
    BY <1>1, <1>2, <1>3, OpsAreApart DEF ToggleLock

\* The steps of a task other than a look-up and the creation of a session.
LEMMA PlainKeeps ==
  ASSUME TypeOK, StartFacts, NEW o \in Starts \cup Stops \cup Toggles,
         \/ StopConfirmed(o) \/ StopDecided(o) \/ StartGivesUp(o)
         \/ StartChecks(o)
         \/ /\ o \in Toggles /\ op[o].pc = "idle" /\ startLock = None
            /\ ~(Session # None /\ owner[Session] = "solar_surplus")
            /\ TornDown(o, FALSE, entry, queue)
            /\ UNCHANGED <<slot, owner, named, timers, tracked, loaded>>
  PROVE  StartFacts'
  <1> USE DEF StartFacts
  <1>0. /\ o \in Ops /\ None \notin Ops /\ op \in [Ops -> Tasks]
        /\ Session \in Ops \cup {None}
    BY OpsAreApart, SessionIsTask DEF Ops, TypeOK
  <1>1. CASE StopConfirmed(o)
    <2>1. /\ op[o].pc = "stopping" /\ TornDown(o, FALSE, entry, queue)
          /\ UNCHANGED <<slot, owner, named, timers, tracked>>
      BY <1>1 DEF StopConfirmed
    <2>2. /\ UNCHANGED <<entry, queue>>
          /\ op'[o].pc = IF o \in Starts THEN "starting" ELSE "done"
          /\ startLock' = IF o \in Toggles THEN None ELSE startLock
          /\ lease' = lease \/ (o \in Toggles /\ lease = "solar_surplus" /\ lease' = None)
          /\ \A p \in Ops \ {o} : op'[p] = op[p]
      BY <2>1, GoesOn
    <2>3. Session' = Session
      BY <2>1, <2>2 DEF Session, Stored
    <2>4. o \in Starts \cup Toggles => startLock = o /\ Session = None
      BY <1>0, <2>1 DEF LockFacts, IsLocked
    <2>5. lease' = lease
      BY <2>2, <2>4, OpsAreApart DEF SessionFacts, LeaseIsSessions
    <2>6. IsLocked(o)' => o \in Starts
      BY <2>2 DEF IsLocked
    <2>7. LockFacts'
      <3>1. startLock' = startLock \/ startLock \in {o, None}
        BY <2>2, <2>4
      <3>2. IsLocked(o)' => startLock' = o /\ Session' = None /\ o \notin Toggles
        BY <2>2, <2>3, <2>4, <2>6, OpsAreApart
      <3> QED
        BY <1>0, <2>1, <2>2, <2>3, <3>1, <3>2, LockFrame
    <2>8. QueueFacts'
      BY <1>0, <2>1, <2>2, <2>3, QueueFrame
    <2>9. SessionFacts'
      BY <1>0, <2>1, <2>2, <2>3, <2>5, SessionFrame
    <2> QED
      BY <2>7, <2>8, <2>9
  <1>2. CASE StopDecided(o)
    <2>1. /\ op[o].pc = "idle" /\ o \in Stops /\ Session \in Ops
          /\ op' = [op EXCEPT ![o].pc = "decided", ![o].sess = Session]
          /\ UNCHANGED <<startLock, entry, slot, owner, named, timers, lease, history>>
      BY <1>0, <1>2 DEF StopDecided
    <2>2. op'[o].pc = "decided" /\ \A p \in Ops \ {o} : op'[p] = op[p]
      <3>1. /\ op' \in [Ops -> Tasks] /\ op'[o].pc = "decided"
            /\ op'[o].mode = op[o].mode /\ op'[o].stop = op[o].stop
            /\ \A p \in Ops \ {o} : op'[p] = op[p]
        <4> DEFINE w == Session
        <4>1. w \in Ops /\ op' = [op EXCEPT ![o].pc = "decided", ![o].sess = w]
          BY <2>1
        <4> HIDE DEF w
        <4> QED
          BY <1>0, <4>1, GoesDecided
      <3> QED
        BY <3>1
    <2>3. Session' = Session /\ ~IsLocked(o)'
      BY <2>1, <2>2 DEF Session, Stored, IsLocked
    <2>4. LockFacts'
      BY <1>0, <2>1, <2>2, <2>3, LockFrame
    <2>5. QueueFacts'
      BY <1>0, <2>1, <2>2, <2>3, QueueFrame DEF history
    <2>6. SessionFacts'
      BY <1>0, <2>1, <2>2, <2>3, SessionFrame
    <2> QED
      BY <2>4, <2>5, <2>6
  <1>3. CASE StartGivesUp(o)
    <2>1. /\ o \in Starts /\ op[o].pc \in {"checked", "starting"}
          /\ op' = [op EXCEPT ![o].pc = "failed"] /\ startLock' = None
          /\ UNCHANGED <<entry, slot, owner, named, timers, lease, history>>
      BY <1>3 DEF StartGivesUp
    <2>2. op'[o].pc = "failed" /\ \A p \in Ops \ {o} : op'[p] = op[p]
      BY <1>0, <2>1, Goes DEF States
    <2>3. Session' = Session /\ ~IsLocked(o)' /\ startLock = o
      BY <1>0, <2>1, <2>2 DEF Session, Stored, IsLocked, LockFacts
    <2>4. LockFacts'
      BY <1>0, <2>1, <2>2, <2>3, LockFrame
    <2>5. QueueFacts'
      BY <1>0, <2>1, <2>2, <2>3, QueueFrame DEF history
    <2>6. SessionFacts'
      BY <1>0, <2>1, <2>2, <2>3, SessionFrame
    <2> QED
      BY <2>4, <2>5, <2>6
  <1>4. CASE StartChecks(o)
    <2>1. /\ o \in Starts /\ op[o].pc = "idle" /\ startLock = None
          /\ UNCHANGED <<entry, slot, named, timers, history>>
          /\ \/ /\ op' = [op EXCEPT ![o].pc = "failed"]
                /\ UNCHANGED <<startLock, owner, lease>>
             \/ /\ op' = [op EXCEPT ![o].pc = "checked"] /\ startLock' = o
                /\ UNCHANGED <<owner, lease>>
             \/ /\ Session # None /\ op' = [op EXCEPT ![o].pc = "done"]
                /\ owner' = [owner EXCEPT ![Session] = op[o].mode]
                /\ lease' = op[o].mode /\ startLock' = startLock
      BY <1>4 DEF StartChecks
    <2>2. /\ op'[o].pc \in {"failed", "checked", "done"}
          /\ op'[o].pc = "checked" => startLock' = o
          /\ \A p \in Ops \ {o} : op'[p] = op[p]
      BY <1>0, <2>1, Goes DEF States
    <2>3. Session' = Session
      BY <2>1 DEF Session, Stored
    <2>4. \A p \in Ops : ~IsLocked(p)
      BY <1>0, <2>1 DEF LockFacts
    <2>5. LockFacts'
      <3>1. ASSUME NEW p \in Ops, IsLocked(p)'
            PROVE  p = o /\ op'[p].pc = "checked"
        BY <2>1, <2>2, <2>4, <3>1, OpsAreApart DEF IsLocked
      <3> QED
        BY <2>2, <3>1 DEF LockFacts
    <2>6. QueueFacts'
      BY <1>0, <2>1, <2>2, <2>3, QueueFrame DEF history
    <2>7. CASE UNCHANGED <<owner, lease>>
      <3>1. SessionFacts'
        BY <1>0, <2>1, <2>2, <2>3, <2>7, SessionFrame
      <3> QED
        BY <2>5, <2>6, <3>1
    <2>8. CASE /\ Session # None
               /\ owner' = [owner EXCEPT ![Session] = op[o].mode]
               /\ lease' = op[o].mode
      <3>1. Session \in Starts /\ Session \in named /\ Session # o
        BY <1>0, <2>1, <2>4, <2>8 DEF SessionFacts, IsLocked
      <3>2. lease' = owner'[Session]
        BY <1>0, <2>8 DEF TypeOK
      <3>3. \A p \in named : p # o /\ p \in Ops
        BY <2>1 DEF SessionFacts, TypeOK
      <3>4. SessionFacts'
        BY <2>1, <2>2, <2>3, <3>1, <3>2, <3>3
           DEF SessionFacts, LeaseIsSessions, OneUpdateLoop
      <3> QED
        BY <2>5, <2>6, <3>4
    <2> QED
      BY <2>1, <2>7, <2>8
  <1>5. CASE /\ o \in Toggles /\ op[o].pc = "idle" /\ startLock = None
             /\ ~(Session # None /\ owner[Session] = "solar_surplus")
             /\ TornDown(o, FALSE, entry, queue)
             /\ UNCHANGED <<slot, owner, named, timers, tracked, loaded>>
    <2>1. /\ UNCHANGED <<entry, queue>> /\ op'[o].pc = "done" /\ startLock' = None
          /\ lease' = lease \/ (lease = "solar_surplus" /\ lease' = None)
          /\ \A p \in Ops \ {o} : op'[p] = op[p]
      BY <1>5, GoesOn, OpsAreApart
    <2>2. Session' = Session /\ ~IsLocked(o)'
      BY <1>5, <2>1 DEF Session, Stored, IsLocked
    <2>3. lease' = lease
      BY <1>5, <2>1 DEF SessionFacts, LeaseIsSessions
    <2>4. LockFacts'
      BY <1>0, <1>5, <2>1, <2>2, LockFrame
    <2>5. QueueFacts'
      BY <1>0, <1>5, <2>1, <2>2, QueueFrame
    <2>6. SessionFacts'
      BY <1>0, <1>5, <2>1, <2>2, <2>3, SessionFrame
    <2> QED
      BY <2>4, <2>5, <2>6
  <1> QED
    BY <1>1, <1>2, <1>3, <1>4, <1>5

\* A confirmed start stores its session.  Nobody is in the queue: those who wait
\* to end a session that is gone already do not let it run.
LEMMA ConfirmedKeeps ==
  ASSUME TypeOK, StartFacts, NEW o \in Ops, StartConfirmed(o)
  PROVE  StartFacts'
  <1> USE DEF StartFacts
  <1> DEFINE d == IF entry = None THEN o ELSE entry
  <1>0. None \notin Ops /\ op \in [Ops -> Tasks] /\ Session \in Ops \cup {None}
    BY OpsAreApart, SessionIsTask DEF TypeOK
  <1>1. /\ ~Runnable /\ o \in Starts /\ op[o].pc = "starting"
        /\ entry' = d /\ slot' = [slot EXCEPT ![d] = o]
        /\ owner' = [owner EXCEPT ![o] = op[o].mode] /\ timers' = timers \cup {o}
        /\ op' = [op EXCEPT ![o].pc = "tracking"]
        /\ queue' = Append(queue, o) /\ UNCHANGED <<startLock, named, lease, tracked>>
    BY <1>0 DEF StartConfirmed
  <1>2. startLock = o /\ Session = None /\ lease = None /\ timers = {}
    BY <1>0, <1>1
       DEF LockFacts, IsLocked, SessionFacts, LeaseIsSessions, OneUpdateLoop,
       TypeOK
  <1>3. queue = <<>>
    <2> SUFFICES ASSUME queue # <<>> PROVE FALSE
      OBVIOUS
    <2> DEFINE h == Head(queue)
    <2>1. h \in Ops /\ h \notin Others /\ op[h].pc \in {"ending", "tracking"} /\ Awaits(h)
      BY QueueLeft DEF QueueFacts, TypeOK
    <2>2. CASE op[h].pc = "ending"
      BY <1>0, <1>1, <1>2, <2>1, <2>2 DEF Awaits, Runnable, UsesDisk
    <2>3. CASE op[h].pc = "tracking"
      BY <1>1, <1>2, <2>1, <2>3 DEF Awaits, LockFacts, IsLocked
    <2> QED
      BY <2>1, <2>2, <2>3
  <1>4. /\ op'[o].pc = "tracking" /\ op'[o].mode = op[o].mode
        /\ \A p \in Ops \ {o} : op'[p] = op[p]
    BY <1>0, <1>1, Goes DEF States
  <1>5. d \in Ops
    BY DEF TypeOK
  <1>6. Session' = o /\ timers' = {o}
    BY <1>0, <1>1, <1>2, <1>5 DEF Session, Stored, TypeOK
  <1>7. LockFacts'
    <2>1. \A p \in Ops \ {o} : ~IsLocked(p)
      BY <1>2 DEF LockFacts
    <2>2. \A p \in Ops \ {o} : ~IsLocked(p)'
      BY <1>4, <2>1 DEF IsLocked
    <2>3. o \notin Toggles /\ startLock' = o
      BY <1>1, <1>2, OpsAreApart
    <2> QED
      BY <1>4, <2>2, <2>3 DEF LockFacts
  <1>8. QueueFacts'
    <2>1. queue \in Seq(Ops) /\ Len(queue) = 0 /\ NobodyTwice /\ \A p : ~InQueue(p)
      BY <1>3 DEF TypeOK, NobodyTwice, InQueue
    <2>2. NobodyTwice' /\ Len(queue') = 1 /\ \A p : InQueue(p)' => p = o
      BY <1>1, <2>1, QueueJoined
    <2>3. Awaits(o)' /\ o \notin Others
      BY <1>1, <1>4, <1>6, <2>2, OpsAreApart DEF Awaits
    <2> QED
      BY <1>4, <2>2, <2>3 DEF QueueFacts
  <1>9. SessionFacts'
    <2>1. \A p \in named : p # o /\ p \in Ops
      BY <1>1 DEF SessionFacts, TypeOK
    <2>2. owner'[o] = op[o].mode
      BY <1>1 DEF TypeOK
    <2> QED
      BY <1>1, <1>2, <1>4, <1>6, <2>1, <2>2
         DEF SessionFacts, LeaseIsSessions, OneUpdateLoop
  <1> QED
    BY <1>7, <1>8, <1>9

\* The first of those who wait ends the session; the others find it gone.
LEMMA EndedKeeps ==
  ASSUME TypeOK, StartFacts, NEW o \in Starts \cup Stops \cup Toggles, queue # <<>>,
         o = Head(queue), op[o].pc = "ending", Ended(o)
  PROVE  StartFacts'
  <1> USE DEF StartFacts
  <1> DEFINE d == op[o].dict
  <1>0. /\ None \notin Ops /\ op \in [Ops -> Tasks] /\ Session \in Ops \cup {None}
        /\ o \in Ops /\ o \notin Restores /\ queue \in Seq(Ops)
    BY OpsAreApart, SessionIsTask DEF TypeOK, Ops
  <1>1. InQueue(o) /\ Awaits(o)
    BY <1>0, QueueLeft DEF QueueFacts
  <1>2. /\ op[o].sess \in Ops /\ d \in Ops /\ timers = {}
        /\ \/ Session = op[o].sess /\ entry = d
           \/ Session = None /\ entry = None /\ slot[d] = None
    BY <1>0, <1>1 DEF Awaits
  <1>3. /\ UNCHANGED <<owner, named, timers>> /\ tracked' = FALSE
        /\ \E ended \in BOOLEAN : TornDown(o, ended, None, Tail(queue))
        /\ slot' \in {slot, [slot EXCEPT ![d] = None]} /\ slot'[d] = None
        /\ lease' = None
    <2>1. CASE Session = op[o].sess /\ entry = d
      <3>1. slot[d] = op[o].sess
        BY <1>0, <1>2, <2>1 DEF Session, Stored
      <3> QED
        BY <1>2, <3>1 DEF Ended, TornDown, TypeOK
    <2>2. CASE Session = None /\ entry = None /\ slot[d] = None
      <3>1. slot[d] # op[o].sess /\ DropEmptied(d) = None /\ lease = None
        BY <1>0, <1>2, <2>2 DEF DropEmptied, Stored, SessionFacts, LeaseIsSessions
      <3> QED
        BY <2>2, <3>1 DEF Ended, TornDown
    <2> QED
      BY <1>2, <2>1, <2>2
  <1>4. PICK ended \in BOOLEAN : TornDown(o, ended, None, Tail(queue))
    BY <1>3
  <1>5. entry' = None /\ queue' = Tail(queue)
    BY <1>0, <1>4 DEF TornDown
  <1>6. Session' = None
    BY <1>5 DEF Session, Stored
  <1>7. /\ op' = [op EXCEPT ![o].pc = op'[o].pc]
        /\ op'[o].pc \in {"stopping", "starting", "done"}
        /\ startLock' = ToggleLock(o, op'[o].pc)
        /\ op'[o].pc = "starting" => o \notin Toggles
    BY <1>0, <1>4, Torn, OpsAreApart
  <1>8. \A p \in Ops \ {o} : op'[p] = op[p]
    BY <1>0, <1>7, Goes DEF States
  <1>9. LockFacts'
    <2>1. o \in Starts \cup Toggles => startLock = o
      BY <1>0 DEF LockFacts, IsLocked
    <2>2. startLock' = startLock \/ startLock \in {o, None}
      BY <1>7, <2>1 DEF ToggleLock
    <2>3. IsLocked(o)' => startLock' = o
      BY <1>7, <2>1, OpsAreApart DEF IsLocked, ToggleLock
    <2> QED
      BY <1>0, <1>3, <1>6, <1>8, <2>2, <2>3, LockFrame
  <1>10. QueueFacts'
    <2>1. /\ NobodyTwice' /\ Len(queue) \in Nat /\ Len(queue') = Len(queue) - 1
          /\ \A p : InQueue(p)' => InQueue(p) /\ p # o
      BY <1>0, <1>5, QueueLeft DEF QueueFacts
    <2>2. ASSUME NEW p \in Ops, InQueue(p)'
          PROVE  p \notin Others /\ op'[p].pc = "ending" /\ Awaits(p)'
      <3>1. /\ op'[p] = op[p] /\ p \notin Others /\ Awaits(p)
            /\ op[p].pc \in {"ending", "tracking"}
        BY <1>8, <2>1, <2>2 DEF QueueFacts
      <3>2. Len(queue) # 1
        <4>1. Len(queue') # 0
          BY <2>2, <2>1 DEF InQueue
        <4> QED
          BY <2>1, <4>1
      <3>3. op[p].pc = "ending" /\ op[p].sess \in Ops /\ op[p].dict \in Ops
        BY <3>1, <3>2 DEF Awaits
      <3>4. slot'[op[p].dict] = None
        <4>1. CASE Session = op[o].sess /\ entry = d
          BY <1>0, <1>2, <1>3, <3>1, <3>3, <4>1 DEF Awaits
        <4>2. CASE Session = None /\ entry = None /\ slot[d] = None
          <5>1. slot[op[p].dict] = None
            BY <1>0, <3>1, <3>3, <4>2 DEF Awaits
          <5> QED
            BY <1>2, <1>3, <3>3, <5>1 DEF TypeOK
        <4> QED
          BY <1>2, <4>1, <4>2
      <3> QED
        BY <1>2, <1>3, <1>5, <1>6, <3>1, <3>3, <3>4 DEF Awaits
    <2> QED
      BY <2>1, <2>2 DEF QueueFacts
  <1>11. SessionFacts'
    <2>1. \A p \in named : p # o /\ p \in Ops
      BY DEF SessionFacts, TypeOK
    <2> QED
      BY <1>2, <1>3, <1>6, <1>8, <2>1
         DEF SessionFacts, LeaseIsSessions, OneUpdateLoop
  <1> QED
    BY <1>9, <1>10, <1>11

\* The start whose history entry exists names its session and claims the lease.
LEMMA TrackedKeeps ==
  ASSUME TypeOK, StartFacts, NEW o \in Starts, queue # <<>>,
         o = Head(queue), op[o].pc # "ending", StartTracked(o), queue' = Tail(queue)
  PROVE  StartFacts'
  <1> USE DEF StartFacts
  <1>0. /\ None \notin Ops /\ op \in [Ops -> Tasks] /\ Session \in Ops \cup {None}
        /\ o \in Ops /\ queue \in Seq(Ops)
    BY OpsAreApart, SessionIsTask DEF TypeOK, Ops
  <1>1. op[o].pc = "tracking" /\ Len(queue) = 1 /\ Session \in {o, None}
    BY <1>0, QueueLeft DEF QueueFacts, Awaits
  <1>2. startLock = o /\ startLock' = None /\ UNCHANGED <<entry, slot, owner, timers>>
    BY <1>0, <1>1 DEF LockFacts, IsLocked, StartTracked
  <1>3. Session' = Session
    BY <1>2 DEF Session, Stored
  <1>4. PICK pc \in {"done", "failed"} :
          /\ op' = [op EXCEPT ![o].pc = pc]
          /\ IF Session # None
             THEN pc = "done" /\ named' = named \cup {Session} /\ lease' = op[o].mode
             ELSE UNCHANGED <<named, lease>>
    BY DEF StartTracked
  <1>5. op'[o].pc = pc /\ \A p \in Ops \ {o} : op'[p] = op[p]
    BY <1>0, <1>4, Goes DEF States
  <1>6. LockFacts'
    <2>1. ~IsLocked(o)'
      BY <1>0, <1>5, OpsAreApart DEF IsLocked
    <2> QED
      BY <1>0, <1>2, <1>3, <1>5, <2>1, LockFrame
  <1>7. QueueFacts'
    <2>1. Len(queue') = 0 /\ NobodyTwice'
      BY <1>0, <1>1, QueueLeft DEF QueueFacts
    <2> QED
      BY <2>1 DEF QueueFacts, InQueue
  <1>8. SessionFacts'
    <2>1. \A p \in named : p # o /\ p \in Ops
      BY <1>1 DEF SessionFacts, TypeOK
    <2>2. CASE Session = None
      BY <1>2, <1>3, <1>4, <1>5, <2>1, <2>2
         DEF SessionFacts, LeaseIsSessions, OneUpdateLoop
    <2>3. CASE Session # None
      <3>1. Session = o /\ owner[o] = op[o].mode /\ named' = named \cup {o} /\ pc = "done"
        BY <1>1, <1>4, <2>1, <2>3 DEF SessionFacts
      <3>2. lease' = owner'[o]
        BY <1>2, <1>4, <2>3, <3>1
      <3> QED
        BY <1>0, <1>2, <1>3, <1>5, <2>1, <3>1, <3>2
           DEF SessionFacts, LeaseIsSessions, OneUpdateLoop
    <2> QED
      BY <2>2, <2>3
  <1> QED
    BY <1>6, <1>7, <1>8

\* A step is one task's, which has begun then.
Moves(o) == op'[o].pc # "idle" /\ \A p \in Ops \ {o} : op'[p] = op[p]

\* Every step of the model is the step of one task.
LEMMA OneMoves ==
  ASSUME TypeOK, NEW o \in Ops, OpStep(o) \/ (HistoryAnswers /\ o = Head(queue))
  PROVE  Moves(o)
  <1>0. op \in [Ops -> Tasks] /\ Session \in Ops \cup {None}
        /\ (Session # None => entry \in Ops)
    BY SessionIsTask DEF TypeOK
  <1>1. ASSUME NEW pc \in States \ {"idle"},
               op' = [op EXCEPT ![o].pc = pc]
        PROVE  Moves(o)
    BY <1>0, <1>1, Goes DEF Moves
  <1>2. ASSUME NEW ended \in BOOLEAN, NEW left, NEW waiting,
               TornDown(o, ended, left, waiting)
        PROVE  Moves(o)
    <2>1. /\ op' = [op EXCEPT ![o].pc = op'[o].pc]
          /\ op'[o].pc \in States \ {"idle"}
      BY <1>0, <1>2, Torn DEF States
    <2> QED
      BY <1>1, <2>1
  <1>3. ASSUME NEW wanted, LookUp(o, wanted)
        PROVE  Moves(o)
    <2> DEFINE s == IF wanted \in {None, Session} THEN Session ELSE None
    <2>1. CASE s \in named
      <3>1. s \in Ops /\ entry \in Ops /\ owner[s] \in Owners
        BY <1>0, <2>1, OpsAreApart DEF TypeOK
      <3> DEFINE w == owner[s]
      <3>2. w \in Owners /\ op' = [op EXCEPT ![o].pc = "ending", ![o].dict = entry,
                                             ![o].sess = s, ![o].saw = w]
        BY <1>3, <2>1, <3>1 DEF LookUp
      <3> HIDE DEF w, s
      <3>3. /\ op' \in [Ops -> Tasks] /\ op'[o].pc = "ending"
            /\ op'[o].dict = entry /\ op'[o].sess = s
            /\ op'[o].mode = op[o].mode /\ op'[o].stop = op[o].stop
            /\ \A r \in Ops \ {o} : op'[r] = op[r]
        BY <1>0, <3>1, <3>2, GoesEnding
      <3> QED
        BY <3>3 DEF Moves
    <2>2. CASE s \notin named
      <3>1. \E ended \in BOOLEAN, left \in {None, DropEmptied(entry)} :
              TornDown(o, ended, left, queue)
        BY <1>3, <2>2 DEF LookUp
      <3> QED
        BY <1>2, <3>1
    <2> QED
      BY <2>1, <2>2
  <1>4. ASSUME OpStep(o)
        PROVE  Moves(o)
    <2>1. CASE StopConfirmed(o)
      BY <1>2, <2>1 DEF StopConfirmed
    <2>2. CASE StopDecided(o)
      <3> DEFINE w == Session
      <3>1. w \in Ops /\ op' = [op EXCEPT ![o].pc = "decided", ![o].sess = w]
        BY <1>0, <2>2 DEF StopDecided
      <3> HIDE DEF w
      <3>2. /\ op' \in [Ops -> Tasks] /\ op'[o].pc = "decided"
            /\ op'[o].mode = op[o].mode /\ op'[o].stop = op[o].stop
            /\ \A r \in Ops \ {o} : op'[r] = op[r]
        BY <1>0, <3>1, GoesDecided
      <3> QED
        BY <3>2 DEF Moves
    <2>3. CASE StopBegins(o) \/ StartTearsDown(o) \/ RestoreBegins(o)
      BY <1>3, <2>3 DEF StopBegins, StartTearsDown, RestoreBegins
    <2>4. CASE ToggleOff(o)
      BY <1>2, <1>3, <2>4 DEF ToggleOff
    <2>5. CASE StartChecks(o)
      BY <1>1, <2>5 DEF StartChecks, States
    <2>6. CASE StartGivesUp(o)
      BY <1>1, <2>6 DEF StartGivesUp, States
    <2>7. CASE StartConfirmed(o)
      BY <1>1, <2>7 DEF StartConfirmed, States
    <2>8. CASE OtherQueues(o)
      BY <1>1, <2>8 DEF OtherQueues, States
    <2> QED
      BY <1>4, <2>1, <2>2, <2>3, <2>4, <2>5, <2>6, <2>7, <2>8 DEF OpStep
  <1>5. CASE HistoryAnswers /\ o = Head(queue)
    <2>1. OtherEnded(o) \/ Ended(o) \/ StartTracked(o) \/ RestoreTracked(o)
      BY <1>5, Answers
    <2>2. CASE Ended(o)
      <3>1. \E ended \in BOOLEAN, left \in {None, DropEmptied(op[o].dict)} :
              TornDown(o, ended, left, Tail(queue))
        BY <2>2 DEF Ended
      <3> QED
        BY <1>2, <3>1
    <2>3. CASE OtherEnded(o) \/ StartTracked(o) \/ RestoreTracked(o)
      <3>1. \E pc \in States \ {"idle"} : op' = [op EXCEPT ![o].pc = pc]
        BY <2>3 DEF OtherEnded, StartTracked, RestoreTracked, States
      <3> QED
        BY <1>1, <3>1
    <2> QED
      BY <2>1, <2>2, <2>3
  <1> QED
    BY <1>4, <1>5

\* A task that has begun never waits for its call again.
LEMMA NeverIdleAgain ==
  ASSUME TypeOK, [Next]_vars
  PROVE  (StartsWait' => StartsWait) /\ (RestWaits' => RestWaits)
  <1>1. CASE UNCHANGED vars
    BY <1>1 DEF vars, StartsWait, RestWaits
  <1>2. CASE Next
    <2>1. PICK o \in Ops : Moves(o)
      <3>1. CASE HistoryAnswers
        BY <3>1, Answers, OneMoves
      <3> QED
        BY <1>2, <3>1, OneMoves DEF Next
    <2>2. \A p \in Ops : op'[p].pc = "idle" => op[p].pc = "idle"
      BY <2>1 DEF Moves
    <2> QED
      BY <2>2 DEF StartsWait, RestWaits, Ops
  <1> QED
    BY <1>1, <1>2

\* Every step of starts, stops and toggles keeps what they rely on.
LEMMA StartStep ==
  ASSUME TypeOK, StartFacts, RestWaits', [Next]_vars
  PROVE  StartFacts'
  <1>0. RestWaits
    BY NeverIdleAgain
  <1>1. CASE UNCHANGED vars
    BY <1>1
       DEF vars, StartFacts, LockFacts, IsLocked, QueueFacts, NobodyTwice, InQueue,
       Awaits, SessionFacts, LeaseIsSessions, OneUpdateLoop, Session, Stored
  <1>2. ASSUME NEW o \in Ops, OpStep(o)
        PROVE  StartFacts'
    <2>1. o \in Starts \cup Stops \cup Toggles
      <3>1. op'[o].pc # "idle"
        BY <1>2, OneMoves DEF Moves
      <3> QED
        BY <3>1 DEF RestWaits, Ops
    <2>2. CASE StopBegins(o)
      <3>1. /\ o \in Stops /\ op[o].pc \in {"idle", "decided"}
            /\ LookUp(o, op[o].sess) /\ o \notin Starts \cup Toggles
        BY <2>2, OpsAreApart DEF StopBegins
      <3> QED
        BY <2>1, <3>1, LookUpKeeps
    <2>3. CASE StartTearsDown(o)
      <3>1. /\ o \in Starts /\ op[o].pc = "checked" /\ LookUp(o, None)
            /\ o \notin Toggles
        BY <2>3, OpsAreApart DEF StartTearsDown
      <3>2. startLock = o
        BY <1>2, <3>1 DEF StartFacts, LockFacts, IsLocked
      <3> QED
        BY <2>1, <3>1, <3>2, LookUpKeeps
    <2>4. CASE ToggleOff(o)
      <3>1. o \in Toggles /\ op[o].pc = "idle" /\ startLock = None /\ o \notin Starts
        BY <2>4, OpsAreApart DEF ToggleOff
      <3>2. CASE Session # None /\ owner[Session] = "solar_surplus"
        <4>1. LookUp(o, None)
          BY <2>4, <3>2 DEF ToggleOff
        <4> QED
          BY <2>1, <3>1, <3>2, <4>1, LookUpKeeps
      <3>3. CASE ~(Session # None /\ owner[Session] = "solar_surplus")
        <4>1. /\ TornDown(o, FALSE, entry, queue)
              /\ UNCHANGED <<slot, owner, named, timers, tracked, loaded>>
          BY <2>4, <3>3 DEF ToggleOff
        <4> QED
          BY <2>1, <3>1, <3>3, <4>1, PlainKeeps
      <3> QED
        BY <3>2, <3>3
    <2>5. CASE StopConfirmed(o) \/ StopDecided(o) \/ StartGivesUp(o) \/ StartChecks(o)
      BY <2>1, <2>5, PlainKeeps
    <2>6. CASE StartConfirmed(o)
      BY <1>2, <2>6, ConfirmedKeeps
    <2> QED
      BY <1>2, <2>1, <2>2, <2>3, <2>4, <2>5, <2>6, OpsAreApart
         DEF OpStep, RestoreBegins, OtherQueues
  <1>3. CASE HistoryAnswers
    <2> DEFINE o == Head(queue)
    <2>1. /\ queue # <<>> /\ o \in Ops /\ InQueue(o)
      BY <1>3, Answers, QueueLeft DEF TypeOK
    <2>2. /\ o \notin Others /\ op[o].pc \in {"ending", "tracking"}
          /\ op[o].pc = "tracking" => o \in Starts
      BY <2>1 DEF StartFacts, QueueFacts, Awaits
    <2>3. o \in Starts \cup Stops \cup Toggles
      BY <1>0, <2>1, <2>2 DEF RestWaits, Ops
    <2>4. CASE op[o].pc = "ending"
      <3>1. Ended(o)
        BY <1>3, <2>2, <2>4 DEF HistoryAnswers
      <3> QED
        BY <2>1, <2>3, <2>4, <3>1, EndedKeeps
    <2>5. CASE op[o].pc = "tracking"
      <3>1. o \in Starts /\ StartTracked(o) /\ queue' = Tail(queue)
        BY <1>3, <2>2, <2>5 DEF HistoryAnswers
      <3> QED
        BY <2>1, <2>5, <3>1, TrackedKeeps
    <2> QED
      BY <2>2, <2>4, <2>5
  <1> QED
    BY <1>1, <1>2, <1>3 DEF Next

\* What the initial state gives.
LEMMA StartInitially == Init => StartFacts
  <1> SUFFICES ASSUME Init PROVE StartFacts
    OBVIOUS
  <1>1. \A o \in Ops : op[o].pc = "idle"
    BY Beginnings
  <1>2. queue = <<>> /\ Session = None /\ lease = None /\ named = {} /\ timers = {}
    BY DEF Init, Session, Stored
  <1>3. LockFacts
    BY <1>1 DEF LockFacts, IsLocked
  <1>4. QueueFacts
    BY <1>2 DEF QueueFacts, NobodyTwice, InQueue
  <1>5. SessionFacts
    BY <1>2 DEF SessionFacts, LeaseIsSessions, OneUpdateLoop
  <1> QED
    BY <1>3, <1>4, <1>5 DEF StartFacts

-----------------------------------------------------------------------------
(* A restored manual session, with stops, toggles and the writers of other *)
(* vehicles' history, and no automated start.  There is one dictionary and *)
(* one session, both the restoration's, and whoever waits to end a session *)
(* waits for that one.                                                     *)

\* Where the tasks can be.
RestoredPlaces ==
  /\ \A o \in Toggles : op[o].pc \in {"idle", "done"}
  /\ \A o \in Restores : op[o].pc \in {"idle", "tracking", "done", "failed"}
  /\ \A o \in Others : op[o].pc \in {"idle", "ending", "done"}

\* The one session a stop can wait for.
EndsRestored(o) ==
  /\ timers = {} /\ op[o].dict = op[o].sess
  /\ op[o].sess \in Restores /\ op[op[o].sess].pc = "done"

\* Who waits in the queue, and for what.
RestoredWaiting ==
  /\ NobodyTwice
  /\ \A o \in Ops : InQueue(o) =>
       \/ o \in Stops \cup Others /\ op[o].pc = "ending"
       \/ o \in Restores /\ op[o].pc = "tracking"
  /\ \A o \in Stops : op[o].pc = "ending" => EndsRestored(o)

\* The session, its dictionary, its lease and its timer.
RestoredSession ==
  /\ \A d \in Ops : slot[d] # None =>
       d \in Restores /\ slot[d] = d /\ entry = d /\ op[d].pc = "done"
  /\ entry \in Restores \cup {None}
  /\ Session # None =>
       Session \in named /\ owner[Session] = "manual" /\ lease = "manual"
  /\ Session = None => lease = None
  /\ OneUpdateLoop

RestoredFacts == RestoredPlaces /\ RestoredWaiting /\ RestoredSession

\* A step of a stop, a toggle or another writer that leaves the session alone.
LEMMA RestoredFrame ==
  ASSUME TypeOK, RestoredFacts, NEW o \in Stops \cup Toggles \cup Others,
         \A p \in Ops \ {o} : op'[p] = op[p],
         o \in Toggles => op'[o].pc = "done",
         o \in Others => op'[o].pc \in {"ending", "done"},
         o \in Stops /\ op'[o].pc = "ending" => EndsRestored(o)',
         UNCHANGED <<slot, owner, named, lease>>,
         timers' = timers \/ timers' = {},
         entry' = entry \/ (entry' = None /\ Session = None),
         NobodyTwice',
         \A p \in Ops : InQueue(p)' =>
           (InQueue(p) /\ p # o) \/ (p = o /\ op'[o].pc = "ending" /\ o \notin Toggles)
  PROVE  RestoredFacts'
  <1>0. /\ o \in Ops /\ o \notin Restores /\ None \notin Ops /\ Restores \subseteq Ops
        /\ Toggles \cap Others = {} /\ Toggles \cap Stops = {}
        /\ Stops \cap Others = {}
    BY OpsAreApart DEF Ops
  <1>1. RestoredPlaces'
    <2>1. \A p \in Toggles \cup Restores \cup Others :
            p \in Ops /\ (p # o => op'[p] = op[p])
      BY DEF Ops
    <2> QED
      BY <1>0, <2>1 DEF RestoredFacts, RestoredPlaces
  <1>2. Session' = Session /\ \A d \in Ops : slot[d] # None => entry' = entry
    <2>1. \A d \in Ops : slot[d] # None => Session # None
      BY <1>0 DEF RestoredFacts, RestoredSession, Session, Stored
    <2> QED
      BY <2>1 DEF Session, Stored
  <1>3. \A d \in Restores : op'[d] = op[d]
    BY <1>0
  <1>4. RestoredSession'
    <2>1. OneUpdateLoop'
      BY <1>2 DEF RestoredFacts, RestoredSession, OneUpdateLoop
    <2> QED
      BY <1>2, <1>3, <2>1 DEF RestoredFacts, RestoredSession
  <1>5. RestoredWaiting'
    <2>1. ASSUME NEW p \in Ops, InQueue(p)'
          PROVE  \/ p \in Stops \cup Others /\ op'[p].pc = "ending"
                 \/ p \in Restores /\ op'[p].pc = "tracking"
      BY <2>1 DEF RestoredFacts, RestoredWaiting
    <2>2. ASSUME NEW p \in Stops, op'[p].pc = "ending", p # o
          PROVE  EndsRestored(p)'
      <3>1. p \in Ops /\ op'[p] = op[p]
        BY <2>2 DEF Ops
      <3>2. EndsRestored(p)
        BY <2>2, <3>1 DEF RestoredFacts, RestoredWaiting
      <3> QED
        BY <1>3, <3>1, <3>2 DEF EndsRestored
    <2> QED
      BY <2>1, <2>2 DEF RestoredWaiting
  <1> QED
    BY <1>1, <1>4, <1>5 DEF RestoredFacts

\* A stop that looks a session up finds the restored one, or none.
LEMMA RestoredLookUp ==
  ASSUME TypeOK, RestoredFacts, NEW o \in Stops, op[o].pc \in {"idle", "decided"},
         NEW wanted, LookUp(o, wanted)
  PROVE  RestoredFacts'
  <1> DEFINE s == IF wanted \in {None, Session} THEN Session ELSE None
  <1>0. /\ UNCHANGED <<owner, named, tracked, loaded>> /\ timers' = timers \ {s}
        /\ o \in Ops /\ None \notin Ops
        /\ o \notin Restores \cup Others \cup Toggles \cup Starts
        /\ op \in [Ops -> Tasks] /\ queue \in Seq(Ops)
        /\ Session \in Ops \cup {None} /\ (Session # None => entry \in Ops)
    BY OpsAreApart, SessionIsTask DEF LookUp, Ops, TypeOK
  <1>1. ~InQueue(o)
    BY <1>0 DEF RestoredFacts, RestoredWaiting
  <1>2. CASE s \in named
    <2>1. /\ s = Session /\ s \in Ops /\ entry \in Ops /\ owner[s] \in Owners
      BY <1>0, <1>2 DEF TypeOK
    <2>2. /\ op' = [op EXCEPT ![o].pc = "ending", ![o].dict = entry,
                              ![o].sess = s, ![o].saw = owner[s]]
          /\ queue' = Append(queue, o)
          /\ UNCHANGED <<entry, slot, lease>>
      BY <1>2 DEF LookUp
    <2>3. /\ op'[o].pc = "ending" /\ op'[o].dict = entry /\ op'[o].sess = s
          /\ \A p \in Ops \ {o} : op'[p] = op[p]
      <3> HIDE DEF s
      <3> DEFINE w == owner[s]
      <3>0. w \in Owners /\ op' = [op EXCEPT ![o].pc = "ending", ![o].dict = entry,
                                             ![o].sess = s, ![o].saw = w]
        BY <2>1, <2>2
      <3>1. o \in Ops /\ op \in [Ops -> Tasks] /\ entry \in Ops /\ s \in Ops
        BY <1>0, <2>1
      <3> HIDE DEF w
      <3>2. /\ op' \in [Ops -> Tasks] /\ op'[o].pc = "ending"
            /\ op'[o].dict = entry /\ op'[o].sess = s
            /\ op'[o].mode = op[o].mode /\ op'[o].stop = op[o].stop
            /\ \A p \in Ops \ {o} : op'[p] = op[p]
        BY <3>0, <3>1, GoesEnding
      <3> QED
        BY <3>2
    <2>4. timers' = {}
      BY <1>0, <2>1 DEF RestoredFacts, RestoredSession, OneUpdateLoop
    <2>5. s \in Restores /\ entry = s /\ op[s].pc = "done" /\ op'[s].pc = "done"
      <3>1. slot[entry] # None /\ slot[entry] = s
        BY <1>0, <2>1 DEF Session, Stored
      <3>2. s \in Restores /\ entry = s /\ op[s].pc = "done"
        BY <2>1, <3>1 DEF RestoredFacts, RestoredSession
      <3> QED
        BY <1>0, <2>1, <2>3, <3>2
    <2>6. EndsRestored(o)'
      BY <2>3, <2>4, <2>5 DEF EndsRestored
    <2>7. NobodyTwice' /\ \A p : InQueue(p)' => InQueue(p) \/ p = o
      BY <1>0, <1>1, <2>2, QueueJoined DEF RestoredFacts, RestoredWaiting
    <2>8. \A p \in Ops : InQueue(p)' =>
            (InQueue(p) /\ p # o) \/ (p = o /\ op'[o].pc = "ending" /\ o \notin Toggles)
      BY <1>0, <1>1, <2>3, <2>7
    <2> QED
      BY <1>0, <2>2, <2>3, <2>4, <2>6, <2>7, <2>8, RestoredFrame
  <1>3. CASE s = None
    <2>1. /\ TornDown(o, FALSE, DropEmptied(entry), queue) /\ UNCHANGED slot
          /\ timers' = timers
      <3>1. s \notin named /\ timers \ {s} = timers
        BY <1>0, <1>3 DEF TypeOK
      <3> QED
        BY <1>0, <1>3, <3>1 DEF LookUp
    <2>2. /\ op' = [op EXCEPT ![o].pc = op'[o].pc] /\ op'[o].pc = "done"
      BY <1>0, <2>1, Torn
    <2>3. \A p \in Ops \ {o} : op'[p] = op[p]
      BY <1>0, <2>2, Goes DEF States
    <2>4. UNCHANGED <<queue, lease>> /\ entry' = DropEmptied(entry)
      BY <1>0, <2>1 DEF TornDown
    <2>5. entry' = entry \/ (entry' = None /\ Session = None)
      BY <2>4 DEF DropEmptied, Session
    <2>6. NobodyTwice' /\ \A p \in Ops : InQueue(p)' => InQueue(p) /\ p # o
      BY <1>1, <2>4 DEF NobodyTwice, InQueue, RestoredFacts, RestoredWaiting
    <2> QED
      BY <1>0, <2>1, <2>2, <2>3, <2>4, <2>5, <2>6, RestoredFrame
  <1>4. s \notin named => s = None
    BY DEF RestoredFacts, RestoredSession
  <1> QED
    BY <1>2, <1>3, <1>4

\* The other steps of stops, toggles and writers.
LEMMA RestoredPlain ==
  ASSUME TypeOK, RestoredFacts, NEW o \in Ops,
         \/ StopConfirmed(o) /\ o \in Stops
         \/ StopDecided(o) \/ ToggleOff(o) \/ OtherQueues(o)
         \/ o \in Others /\ queue # <<>> /\ o = Head(queue) /\ OtherEnded(o)
  PROVE  RestoredFacts'
  <1>0. /\ None \notin Ops /\ op \in [Ops -> Tasks] /\ queue \in Seq(Ops)
        /\ Session \in Ops \cup {None} /\ Toggles \cap Others = {}
        /\ Stops \cap (Toggles \cup Others) = {} /\ NobodyTwice
    BY OpsAreApart, SessionIsTask DEF TypeOK, RestoredFacts, RestoredWaiting
  <1>1. ASSUME op[o].pc \notin {"ending", "tracking"}
        PROVE  ~InQueue(o)
    BY <1>1 DEF RestoredFacts, RestoredWaiting
  <1>2. ASSUME queue' = queue, ~InQueue(o)
        PROVE  NobodyTwice' /\ \A p \in Ops : InQueue(p)' => InQueue(p) /\ p # o
    BY <1>0, <1>2 DEF NobodyTwice, InQueue
  <1>3. CASE \/ StopConfirmed(o) /\ o \in Stops
             \/ ToggleOff(o)
    <2>1. /\ o \in Stops \cup Toggles /\ TornDown(o, FALSE, entry, queue)
          /\ UNCHANGED <<slot, owner, named, timers>>
          /\ op[o].pc \in {"stopping", "idle"}
      BY <1>3 DEF StopConfirmed, ToggleOff, RestoredFacts, RestoredSession
    <2>2. /\ UNCHANGED <<entry, queue>> /\ o \notin Starts
          /\ op'[o].pc = "done" /\ \A p \in Ops \ {o} : op'[p] = op[p]
          /\ lease' = lease \/ lease = "solar_surplus"
      <3>1. o \notin Starts
        BY <2>1, OpsAreApart
      <3> QED
        BY <2>1, <3>1, GoesOn
    <2>4. lease' = lease
      <3>1. lease \in {None, "manual"} /\ (Session = None => lease = None)
        BY DEF RestoredFacts, RestoredSession
      <3>2. lease' \in {lease, None}
        BY <2>1 DEF TornDown
      <3> QED
        BY <2>2, <3>1, <3>2
    <2>5. NobodyTwice' /\ \A p \in Ops : InQueue(p)' => InQueue(p) /\ p # o
      BY <1>0, <1>1, <1>2, <2>1, <2>2
    <2> QED
      BY <1>0, <2>1, <2>2, <2>4, <2>5, RestoredFrame
  <1>4. CASE StopDecided(o)
    <2> DEFINE w == Session
    <2>1. /\ w \in Ops /\ op' = [op EXCEPT ![o].pc = "decided", ![o].sess = w]
          /\ o \in Stops /\ op[o].pc = "idle"
          /\ UNCHANGED <<entry, slot, owner, named, timers, lease, queue>>
      BY <1>0, <1>4 DEF StopDecided, history
    <2> HIDE DEF w
    <2>2. /\ op' \in [Ops -> Tasks] /\ op'[o].pc = "decided"
          /\ op'[o].mode = op[o].mode /\ op'[o].stop = op[o].stop
          /\ \A p \in Ops \ {o} : op'[p] = op[p]
      BY <1>0, <2>1, GoesDecided
    <2>3. NobodyTwice' /\ \A p \in Ops : InQueue(p)' => InQueue(p) /\ p # o
      BY <1>0, <1>1, <1>2, <2>1
    <2> QED
      BY <1>0, <2>1, <2>2, <2>3, RestoredFrame
  <1>5. CASE OtherQueues(o)
    <2>1. /\ o \in Others /\ op' = [op EXCEPT ![o].pc = "ending"] /\ op[o].pc = "idle"
          /\ queue' = Append(queue, o)
          /\ UNCHANGED <<entry, slot, owner, named, timers, lease>>
      BY <1>5 DEF OtherQueues
    <2>2. op'[o].pc = "ending" /\ \A p \in Ops \ {o} : op'[p] = op[p]
      BY <1>0, <2>1, Goes DEF States
    <2>3. NobodyTwice' /\ \A p \in Ops : InQueue(p)' => (InQueue(p) /\ p # o) \/ p = o
      BY <1>0, <1>1, <2>1, QueueJoined
    <2> QED
      BY <1>0, <2>1, <2>2, <2>3, RestoredFrame
  <1>6. CASE o \in Others /\ queue # <<>> /\ o = Head(queue) /\ OtherEnded(o)
    <2>1. /\ op' = [op EXCEPT ![o].pc = "done"] /\ queue' = Tail(queue)
          /\ UNCHANGED <<entry, slot, owner, named, timers, lease>>
      BY <1>6 DEF OtherEnded
    <2>2. op'[o].pc = "done" /\ \A p \in Ops \ {o} : op'[p] = op[p]
      BY <1>0, <2>1, Goes DEF States
    <2>3. NobodyTwice' /\ \A p \in Ops : InQueue(p)' => InQueue(p) /\ p # o
      BY <1>0, <1>6, <2>1, QueueLeft
    <2> QED
      BY <1>0, <1>6, <2>1, <2>2, <2>3, RestoredFrame
  <1> QED
    BY <1>3, <1>4, <1>5, <1>6

\* The restoration finds nothing to end, and its dictionary is the entry's.
LEMMA RestorationBegins ==
  ASSUME TypeOK, RestoredFacts, NEW r, Restores \subseteq {r}, NEW o \in Ops,
         RestoreBegins(o)
  PROVE  RestoredFacts'
  <1>0. /\ None \notin Ops /\ op \in [Ops -> Tasks] /\ queue \in Seq(Ops)
        /\ o \in Restores /\ op[o].pc = "idle" /\ LookUp(o, None) /\ Restores \subseteq Ops
        /\ o \notin Starts \cup Stops \cup Toggles \cup Others
        /\ timers \subseteq Ops
    BY OpsAreApart DEF TypeOK, RestoreBegins, Ops
  <1>1. /\ \A d \in Ops : slot[d] = None
        /\ Session = None /\ timers = {} /\ lease = None
    <2>1. \A d \in Ops : slot[d] = None
      BY <1>0 DEF RestoredFacts, RestoredSession
    <2>2. Session = None
      BY <2>1, SessionIsTask DEF Session, Stored
    <2> QED
      BY <1>0, <2>1, <2>2 DEF RestoredFacts, RestoredSession, OneUpdateLoop
  <1>2. /\ TornDown(o, FALSE, DropEmptied(entry), queue)
        /\ UNCHANGED <<slot, owner, named>> /\ timers' = {}
    BY <1>0, <1>1 DEF LookUp, TypeOK
  <1>3. /\ op' = [op EXCEPT ![o].pc = op'[o].pc] /\ op'[o].pc = "tracking"
    BY <1>0, <1>2, Torn
  <1>4. \A p \in Ops \ {o} : op'[p] = op[p]
    BY <1>0, <1>3, Goes DEF States
  <1>5. entry' = o /\ queue' = Append(queue, o) /\ lease' = None
    BY <1>0, <1>1, <1>2 DEF TornDown, DropEmptied, Session
  <1>6. Session' = None
    BY <1>0, <1>1, <1>2, <1>5 DEF Session, Stored
  <1>7. RestoredSession'
    BY <1>0, <1>1, <1>2, <1>5, <1>6 DEF RestoredSession, OneUpdateLoop
  <1>8. RestoredPlaces'
    <2>1. \A p \in Toggles \cup Restores \cup Others :
            p \in Ops /\ (p # o => op'[p] = op[p])
      BY <1>4 DEF Ops
    <2> QED
      BY <1>0, <1>3, <2>1 DEF RestoredFacts, RestoredPlaces
  <1>9. RestoredWaiting'
    <2>1. ~InQueue(o)
      BY <1>0 DEF RestoredFacts, RestoredWaiting
    <2>2. NobodyTwice' /\ \A p \in Ops : InQueue(p)' => InQueue(p) \/ p = o
      BY <1>0, <1>5, <2>1, QueueJoined DEF RestoredFacts, RestoredWaiting
    <2>3. \A p \in Stops : op'[p].pc # "ending"
      <3>1. \A p \in Stops : p \in Ops /\ op'[p] = op[p]
        BY <1>0, <1>4 DEF Ops
      <3>2. \A p \in Stops : op[p].pc # "ending"
        BY <1>0 DEF RestoredFacts, RestoredWaiting, EndsRestored
      <3> QED
        BY <3>1, <3>2
    <2>4. ASSUME NEW p \in Ops, InQueue(p), p # o
          PROVE  \/ p \in Stops \cup Others /\ op'[p].pc = "ending"
                 \/ p \in Restores /\ op'[p].pc = "tracking"
      <3>1. op'[p] = op[p]
        BY <1>4, <2>4
      <3> QED
        BY <2>4, <3>1 DEF RestoredFacts, RestoredWaiting
    <2> QED
      BY <1>0, <1>3, <2>2, <2>3, <2>4 DEF RestoredWaiting
  <1> QED
    BY <1>7, <1>8, <1>9 DEF RestoredFacts

\* The restored session is stored, with its lease and its timer, unless a stop
\* has taken the dictionary away.
LEMMA RestorationTracked ==
  ASSUME TypeOK, RestoredFacts, NEW r, Restores \subseteq {r}, NEW o \in Restores,
         queue # <<>>, o = Head(queue), op[o].pc = "tracking", RestoreTracked(o),
         queue' = Tail(queue)
  PROVE  RestoredFacts'
  <1>0. /\ None \notin Ops /\ op \in [Ops -> Tasks] /\ queue \in Seq(Ops)
        /\ o \in Ops /\ Restores \subseteq Ops /\ Restores = {o}
        /\ o \notin Stops \cup Toggles \cup Others /\ timers \subseteq Ops
        /\ slot \in [Ops -> Ops \cup {None}] /\ owner \in [Ops -> Owners]
    BY OpsAreApart DEF TypeOK, Ops
  <1>1. /\ \A d \in Ops : slot[d] = None
        /\ Session = None /\ timers = {} /\ lease = None
    <2>1. \A d \in Ops : slot[d] = None
      BY <1>0 DEF RestoredFacts, RestoredSession
    <2>2. Session = None
      BY <2>1, SessionIsTask DEF Session, Stored
    <2> QED
      BY <1>0, <2>1, <2>2 DEF RestoredFacts, RestoredSession, OneUpdateLoop
  <1>2. PICK pc \in {"done", "failed"} :
          /\ op' = [op EXCEPT ![o].pc = pc]
          /\ IF entry # None
             THEN /\ pc = "done" /\ slot' = [slot EXCEPT ![entry] = o]
                  /\ owner' = [owner EXCEPT ![o] = "manual"]
                  /\ named' = named \cup {o} /\ timers' = timers \cup {o}
                  /\ lease' = "manual"
             ELSE UNCHANGED <<slot, owner, named, timers, lease>>
          /\ entry' = entry
    BY DEF RestoreTracked
  <1>3. op'[o].pc = pc /\ \A p \in Ops \ {o} : op'[p] = op[p]
    BY <1>0, <1>2, Goes DEF States
  <1>4. RestoredSession'
    <2>1. CASE entry = None
      <3>1. Session' = None
        BY <1>2, <2>1 DEF Session, Stored
      <3> QED
        BY <1>1, <1>2, <2>1, <3>1 DEF RestoredSession, OneUpdateLoop
    <2>2. CASE entry # None
      <3>1. entry = o
        BY <1>0, <2>2 DEF RestoredFacts, RestoredSession
      <3>2. /\ \A d \in Ops : slot'[d] = IF d = o THEN o ELSE None
            /\ owner'[o] = "manual" /\ timers' = {o} /\ o \in named'
        BY <1>0, <1>1, <1>2, <2>2, <3>1
      <3>3. Session' = o
        BY <1>0, <1>2, <3>1, <3>2 DEF Session, Stored
      <3> QED
        BY <1>0, <1>2, <1>3, <2>2, <3>1, <3>2, <3>3
           DEF RestoredSession, OneUpdateLoop
    <2> QED
      BY <2>1, <2>2
  <1>5. RestoredPlaces'
    <2>1. \A p \in Toggles \cup Restores \cup Others :
            p \in Ops /\ (p # o => op'[p] = op[p])
      BY <1>3 DEF Ops
    <2> QED
      BY <1>0, <1>3, <2>1 DEF RestoredFacts, RestoredPlaces
  <1>6. RestoredWaiting'
    <2>1. NobodyTwice' /\ \A p \in Ops : InQueue(p)' => InQueue(p) /\ p # o
      BY <1>0, QueueLeft DEF RestoredFacts, RestoredWaiting
    <2>2. \A p \in Stops : op'[p].pc # "ending"
      <3>1. \A p \in Stops : p \in Ops /\ op'[p] = op[p]
        BY <1>0, <1>3 DEF Ops
      <3>2. \A p \in Stops : op[p].pc # "ending"
        BY <1>0 DEF RestoredFacts, RestoredWaiting, EndsRestored
      <3> QED
        BY <3>1, <3>2
    <2>3. ASSUME NEW p \in Ops, InQueue(p), p # o
          PROVE  \/ p \in Stops \cup Others /\ op'[p].pc = "ending"
                 \/ p \in Restores /\ op'[p].pc = "tracking"
      <3>1. op'[p] = op[p]
        BY <1>3, <2>3
      <3> QED
        BY <2>3, <3>1 DEF RestoredFacts, RestoredWaiting
    <2> QED
      BY <2>1, <2>2, <2>3 DEF RestoredWaiting
  <1> QED
    BY <1>4, <1>5, <1>6 DEF RestoredFacts

\* A stop ends the restored session, or finds that another has.
LEMMA RestoredEnded ==
  ASSUME TypeOK, RestoredFacts, NEW r, Restores \subseteq {r}, NEW o \in Stops,
         queue # <<>>, o = Head(queue), op[o].pc = "ending", Ended(o)
  PROVE  RestoredFacts'
  <1> DEFINE d == op[o].dict
  <1>0. /\ None \notin Ops /\ op \in [Ops -> Tasks] /\ queue \in Seq(Ops)
        /\ o \in Ops /\ Restores \subseteq Ops /\ slot \in [Ops -> Ops \cup {None}]
        /\ o \notin Starts \cup Restores \cup Toggles \cup Others
    BY OpsAreApart DEF TypeOK, Ops
  <1>1. timers = {} /\ d \in Restores /\ op[o].sess = d
    BY DEF RestoredFacts, RestoredWaiting, EndsRestored
  <1>2. \A e \in Ops : e # d => slot[e] = None
    BY <1>0, <1>1 DEF RestoredFacts, RestoredSession
  <1>3. slot[d] \in {d, None} /\ (slot[d] = None => Session = None)
    <2>1. slot[d] \in {d, None}
      BY <1>0, <1>1 DEF RestoredFacts, RestoredSession
    <2>2. slot[d] = None => Session = None
      BY <1>0, <1>1, <1>2, SessionIsTask DEF Session, Stored
    <2> QED
      BY <2>1, <2>2
  <1>4. /\ UNCHANGED <<owner, named, timers>>
        /\ \E ended \in BOOLEAN : TornDown(o, ended, None, Tail(queue))
        /\ \A e \in Ops : slot'[e] = None
        /\ lease' = None
    <2>1. CASE slot[d] = d
      <3>1. slot[d] = op[o].sess
        BY <1>1, <2>1
      <3> QED
        BY <1>0, <1>2, <3>1 DEF Ended, TornDown
    <2>2. CASE slot[d] = None
      <3>1. /\ slot[d] # op[o].sess /\ DropEmptied(d) = None /\ lease = None
        BY <1>0, <1>1, <1>3, <2>2
           DEF DropEmptied, Stored, RestoredFacts, RestoredSession
      <3>2. /\ TornDown(o, FALSE, None, Tail(queue)) /\ slot' = slot
            /\ UNCHANGED <<owner, named, timers>>
        BY <3>1 DEF Ended
      <3> QED
        BY <1>0, <1>2, <2>2, <3>1, <3>2 DEF TornDown
    <2> QED
      BY <1>3, <2>1, <2>2
  <1>5. PICK ended \in BOOLEAN : TornDown(o, ended, None, Tail(queue))
    BY <1>4
  <1>6. entry' = None /\ queue' = Tail(queue)
    BY <1>0, <1>5 DEF TornDown
  <1>7. Session' = None
    BY <1>6 DEF Session, Stored
  <1>8. /\ op' = [op EXCEPT ![o].pc = op'[o].pc] /\ op'[o].pc \in {"stopping", "done"}
    BY <1>0, <1>5, Torn
  <1>9. \A p \in Ops \ {o} : op'[p] = op[p]
    BY <1>0, <1>8, Goes DEF States
  <1>10. RestoredSession'
    BY <1>1, <1>4, <1>6, <1>7 DEF RestoredFacts, RestoredSession, OneUpdateLoop
  <1>11. RestoredPlaces'
    <2>1. \A p \in Toggles \cup Restores \cup Others : op'[p] = op[p]
      BY <1>0, <1>9 DEF Ops
    <2> QED
      BY <2>1 DEF RestoredFacts, RestoredPlaces
  <1>12. RestoredWaiting'
    <2>1. NobodyTwice' /\ \A p \in Ops : InQueue(p)' => InQueue(p) /\ p # o
      BY <1>0, <1>6, QueueLeft DEF RestoredFacts, RestoredWaiting
    <2>2. ASSUME NEW p \in Stops, op'[p].pc = "ending"
          PROVE  EndsRestored(p)'
      <3>1. p \in Ops /\ op'[p] = op[p] /\ \A e \in Restores : op'[e] = op[e]
        BY <1>0, <1>8, <1>9, <2>2 DEF Ops
      <3>2. EndsRestored(p)
        BY <2>2, <3>1 DEF RestoredFacts, RestoredWaiting
      <3> QED
        BY <1>4, <3>1, <3>2 DEF EndsRestored
    <2>3. ASSUME NEW p \in Ops, InQueue(p), p # o
          PROVE  \/ p \in Stops \cup Others /\ op'[p].pc = "ending"
                 \/ p \in Restores /\ op'[p].pc = "tracking"
      <3>1. op'[p] = op[p]
        BY <1>9, <2>3
      <3> QED
        BY <2>3, <3>1 DEF RestoredFacts, RestoredWaiting
    <2> QED
      BY <2>1, <2>2, <2>3 DEF RestoredWaiting
  <1> QED
    BY <1>10, <1>11, <1>12 DEF RestoredFacts

\* Every step keeps what the restored session is.
LEMMA RestoredStep ==
  ASSUME TypeOK, RestoredFacts, NEW r, Restores \subseteq {r}, StartsWait', [Next]_vars
  PROVE  RestoredFacts'
  <1>1. CASE UNCHANGED vars
    BY <1>1
       DEF vars, RestoredFacts, RestoredPlaces, RestoredWaiting, NobodyTwice, InQueue,
       EndsRestored, RestoredSession, OneUpdateLoop, Session, Stored
  <1>2. ASSUME NEW o \in Ops, OpStep(o)
        PROVE  RestoredFacts'
    <2>1. o \notin Starts
      <3>1. op'[o].pc # "idle"
        BY <1>2, OneMoves DEF Moves
      <3> QED
        BY <3>1 DEF StartsWait
    <2>2. CASE StopConfirmed(o)
      <3>1. op[o].pc = "stopping"
        BY <2>2 DEF StopConfirmed
      <3>2. o \in Stops
        BY <2>1, <3>1 DEF Ops, RestoredFacts, RestoredPlaces
      <3> QED
        BY <2>2, <3>2, RestoredPlain
    <2>3. CASE StopDecided(o) \/ ToggleOff(o) \/ OtherQueues(o)
      BY <1>2, <2>3, RestoredPlain
    <2>4. CASE StopBegins(o)
      BY <2>4, RestoredLookUp DEF StopBegins
    <2>5. CASE RestoreBegins(o)
      BY <1>2, <2>5, RestorationBegins
    <2> QED
      BY <1>2, <2>1, <2>2, <2>3, <2>4, <2>5
         DEF OpStep, StartChecks, StartTearsDown, StartGivesUp, StartConfirmed
  <1>3. CASE HistoryAnswers
    <2> DEFINE o == Head(queue)
    <2>1. queue # <<>> /\ o \in Ops /\ InQueue(o)
      BY <1>3, Answers, QueueLeft DEF TypeOK
    <2>2. \/ o \in Stops \cup Others /\ op[o].pc = "ending"
          \/ o \in Restores /\ op[o].pc = "tracking"
      BY <2>1 DEF RestoredFacts, RestoredWaiting
    <2>3. CASE o \in Others
      <3>1. OtherEnded(o)
        BY <1>3, <2>3 DEF HistoryAnswers
      <3> QED
        BY <2>1, <2>3, <3>1, RestoredPlain
    <2>4. CASE o \in Stops /\ op[o].pc = "ending"
      <3>1. o \notin Others
        BY <2>4, OpsAreApart
      <3>2. Ended(o)
        BY <1>3, <2>4, <3>1 DEF HistoryAnswers
      <3> QED
        BY <2>1, <2>4, <3>2, RestoredEnded
    <2>5. CASE o \in Restores /\ op[o].pc = "tracking"
      <3>1. o \notin Others \cup Starts
        BY <2>5, OpsAreApart
      <3>2. RestoreTracked(o) /\ queue' = Tail(queue)
        BY <1>3, <2>5, <3>1 DEF HistoryAnswers
      <3> QED
        BY <2>1, <2>5, <3>2, RestorationTracked
    <2> QED
      BY <2>2, <2>3, <2>4, <2>5
  <1> QED
    BY <1>1, <1>2, <1>3 DEF Next

\* What the initial state gives.
LEMMA RestoredInitially == Init => RestoredFacts
  <1> SUFFICES ASSUME Init PROVE RestoredFacts
    OBVIOUS
  <1>1. \A o \in Ops : op[o].pc = "idle"
    BY Beginnings
  <1>2. /\ queue = <<>> /\ Session = None /\ lease = None /\ named = {} /\ timers = {}
        /\ entry = None /\ \A d \in Ops : slot[d] = None
    BY DEF Init, Session, Stored
  <1>3. RestoredPlaces
    BY <1>1 DEF RestoredPlaces, Ops
  <1>4. RestoredWaiting
    BY <1>1, <1>2 DEF RestoredWaiting, NobodyTwice, InQueue, Ops
  <1>5. RestoredSession
    BY <1>2 DEF RestoredSession, OneUpdateLoop
  <1> QED
    BY <1>3, <1>4, <1>5 DEF RestoredFacts

-----------------------------------------------------------------------------
(* Theorems                                                                *)

\* Automated starts and what stays apart from them.
ApartFacts ==
  /\ TypeOK /\ Apart
  /\ RestWaits => StartFacts
  /\ StartsWait => RestoredFacts

\* They hold when no call has been made.
LEMMA ApartInitially == Init => ApartFacts
  <1> SUFFICES ASSUME Init PROVE ApartFacts
    OBVIOUS
  <1>1. Apart
    BY Beginnings DEF Apart, StartsWait, Ops
  <1> QED
    BY <1>1, TypeInitially, StartInitially, RestoredInitially DEF ApartFacts

\* Every step keeps them, with one manual session to restore.
LEMMA ApartStep ==
  ASSUME ApartFacts, NEW r, Restores \subseteq {r}, [Next /\ Apart']_vars
  PROVE  ApartFacts'
  <1>1. [Next]_vars /\ TypeOK /\ TypeOK' /\ Apart'
    <2>1. CASE UNCHANGED vars
      BY <2>1, TypeStep DEF ApartFacts, Apart, StartsWait, RestWaits, vars
    <2>2. CASE Next /\ Apart'
      BY <2>2, TypeStep DEF ApartFacts
    <2> QED
      BY <2>1, <2>2
  <1>2. RestWaits' => StartFacts'
    BY <1>1, NeverIdleAgain, StartStep DEF ApartFacts
  <1>3. StartsWait' => RestoredFacts'
    BY <1>1, NeverIdleAgain, RestoredStep DEF ApartFacts
  <1> QED
    BY <1>1, <1>2, <1>3 DEF ApartFacts

\* In either case the lease names the owner of the session stored, and the
\* update loop that runs is that session's.
LEMMA ApartMeans ==
  ASSUME ApartFacts
  PROVE  LeaseIsSessions /\ OneUpdateLoop
  BY DEF ApartFacts, Apart, StartFacts, SessionFacts, RestoredFacts, RestoredSession,
     LeaseIsSessions

\* A toggle that goes on frees no lease but Solar Surplus's own: the session it
\* ends after the history's answer is the one it saw, still with that owner.
LEMMA ToggleStep ==
  ASSUME ApartFacts, [Next]_vars, NEW o \in Toggles, op'[o].pc # op[o].pc,
         lease # None, lease' = None
  PROVE  lease = "solar_surplus"
  <1>0. /\ TypeOK /\ o \in Ops /\ LeaseIsSessions
        /\ o \notin Starts \cup Stops \cup Restores \cup Others
    BY ApartMeans, OpsAreApart DEF ApartFacts, Ops
  <1>1. ASSUME TornDown(o, FALSE, entry, queue)
        PROVE  lease = "solar_surplus"
    BY <1>1 DEF TornDown
  <1>2. CASE OpStep(o)
    <2>1. StopConfirmed(o) \/ ToggleOff(o)
      BY <1>0, <1>2
         DEF OpStep, StopDecided, StopBegins, StartChecks, StartTearsDown,
         StartGivesUp, StartConfirmed, RestoreBegins, OtherQueues
    <2>2. CASE Session # None /\ owner[Session] = "solar_surplus"
      BY <1>0, <2>2 DEF LeaseIsSessions
    <2>3. CASE ~(Session # None /\ owner[Session] = "solar_surplus")
      BY <1>1, <2>1, <2>3 DEF StopConfirmed, ToggleOff
    <2> QED
      BY <2>2, <2>3
  <1>3. CASE HistoryAnswers /\ o = Head(queue)
    <2>1. queue # <<>> /\ InQueue(o)
      BY <1>0, <1>3, QueueLeft DEF TypeOK, HistoryAnswers
    <2>2. RestWaits
      BY <1>0, <2>1 DEF ApartFacts, Apart, RestoredFacts, RestoredWaiting
    <2>3. StartFacts
      BY <2>2 DEF ApartFacts
    <2>4. op[o].pc = "ending" /\ Awaits(o)
      BY <1>0, <2>1, <2>3 DEF StartFacts, QueueFacts, Awaits
    <2>5. Session = op[o].sess /\ Session # None
      <3>1. Session # None
        BY <1>0 DEF LeaseIsSessions
      <3> QED
        BY <2>4, <3>1 DEF Awaits
    <2>6. owner[Session] = "solar_surplus"
      BY <1>0, <2>3, <2>4, <2>5 DEF StartFacts, LockFacts, IsLocked
    <2> QED
      BY <1>0, <2>5, <2>6 DEF LeaseIsSessions
  <1>4. OpStep(o) \/ (HistoryAnswers /\ o = Head(queue))
    <2>1. CASE UNCHANGED vars
      BY <2>1 DEF vars
    <2>2. ASSUME NEW p \in Ops, p # o, Moves(p)
          PROVE  FALSE
      BY <1>0, <2>2 DEF Moves
    <2>3. CASE HistoryAnswers
      BY <1>0, <2>2, <2>3, Answers, OneMoves
    <2>4. ASSUME NEW p \in Ops, OpStep(p)
          PROVE  OpStep(o)
      BY <1>0, <2>2, <2>4, OneMoves
    <2> QED
      BY <2>1, <2>3, <2>4 DEF Next
  <1> QED
    BY <1>2, <1>3, <1>4

\* With at most one manual session to restore, kept apart from automated starts:
\* the lease of the loadpoint is the stored session's and names its owner.
THEOREM SessionHasItsLease ==
  ASSUME \E r : Restores \subseteq {r}
  PROVE  ApartSafely => []LeaseIsSessions
  <1>1. Init => ApartFacts
    BY ApartInitially
  <1>2. ApartFacts /\ [Next /\ Apart']_vars => ApartFacts'
    BY ApartStep
  <1>3. ApartFacts => LeaseIsSessions
    BY ApartMeans
  <1> QED
    BY <1>1, <1>2, <1>3, PTL DEF ApartSafely

\* Under the same premises, the only update loop that runs is the stored
\* session's: no replaced or ended session goes on commanding the car.
THEOREM SessionHasItsLoop ==
  ASSUME \E r : Restores \subseteq {r}
  PROVE  ApartSafely => []OneUpdateLoop
  <1>1. Init => ApartFacts
    BY ApartInitially
  <1>2. ApartFacts /\ [Next /\ Apart']_vars => ApartFacts'
    BY ApartStep
  <1>3. ApartFacts => OneUpdateLoop
    BY ApartMeans
  <1> QED
    BY <1>1, <1>2, <1>3, PTL DEF ApartSafely

\* Under the same premises, switching Solar Surplus off frees no other owner's
\* lease, whatever was started or stopped while the toggle waited.
THEOREM ToggleEndsItsOwn ==
  ASSUME \E r : Restores \subseteq {r}
  PROVE  ApartSafely => ToggleSparesOthers
  <1>1. Init => ApartFacts
    BY ApartInitially
  <1>2. ApartFacts /\ [Next /\ Apart']_vars => ApartFacts'
    BY ApartStep
  <1>3. ASSUME ApartFacts, [Next /\ Apart']_vars
        PROVE  [\A o \in Toggles :
                  op[o].pc # op'[o].pc /\ lease # None /\ lease' = None
                    => lease = "solar_surplus"]_vars
    <2>1. [Next]_vars
      BY <1>3
    <2> QED
      BY <1>3, <2>1, ToggleStep
  <1> QED
    BY <1>1, <1>2, <1>3, PTL DEF ApartSafely, ToggleSparesOthers
=============================================================================
