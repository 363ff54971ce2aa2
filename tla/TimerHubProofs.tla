--------------------------- MODULE TimerHubProofs ---------------------------
(***************************************************************************)
(* Theorems about TimerHub: its type invariant, the refinement of          *)
(* TimerService, and the load without which no callback is lost.           *)
(***************************************************************************)
EXTENDS TimerHub, FiniteSetTheorems, SequenceTheorems, TLAPS

USE TimerHubAssumption

-----------------------------------------------------------------------------
(* The channel: a sequence of distinct ids. *)

\* Sending adds the id, which was not there, and keeps the ids distinct.
LEMMA AppendId ==
  ASSUME NEW S, NEW s \in Seq(S), NEW x \in S
  PROVE  /\ Append(s, x) \in Seq(S)
         /\ Range(Append(s, x)) = Range(s) \cup {x}
         /\ (\A i, j \in DOMAIN s : s[i] = s[j] => i = j) /\ x \notin Range(s)
              => \A i, j \in DOMAIN Append(s, x) : Append(s, x)[i] = Append(s, x)[j] => i = j
<1> DEFINE t == Append(s, x)
<1>1. /\ t \in Seq(S) /\ Len(t) = Len(s) + 1 /\ Len(s) \in Nat
      /\ DOMAIN t = 1 .. Len(s) + 1 /\ DOMAIN s = 1 .. Len(s)
      /\ t[Len(s) + 1] = x /\ \A i \in 1 .. Len(s) : t[i] = s[i]
  BY AppendProperties
<1> HIDE DEF t
<1>2. Range(t) = Range(s) \cup {x}
  BY <1>1 DEF Range
<1>3. ASSUME \A i, j \in DOMAIN s : s[i] = s[j] => i = j, x \notin Range(s),
             NEW i \in DOMAIN t, NEW j \in DOMAIN t, t[i] = t[j]
      PROVE  i = j
  BY <1>1, <1>3 DEF Range
<1> QED BY <1>1, <1>2, <1>3 DEF t

\* Taking removes the first id, which is nowhere else.
LEMMA TakeId ==
  ASSUME NEW S, NEW s \in Seq(S), s # <<>>,
         \A i, j \in DOMAIN s : s[i] = s[j] => i = j
  PROVE  /\ Tail(s) \in Seq(S) /\ Head(s) \in S
         /\ Range(Tail(s)) = Range(s) \ {Head(s)} /\ Head(s) \in Range(s)
         /\ \A i, j \in DOMAIN Tail(s) : Tail(s)[i] = Tail(s)[j] => i = j
<1> DEFINE t == Tail(s)
<1>1. /\ t \in Seq(S) /\ Head(s) \in S /\ Head(s) = s[1] /\ Len(s) \in Nat \ {0}
      /\ DOMAIN t = 1 .. Len(s) - 1 /\ DOMAIN s = 1 .. Len(s)
      /\ \A i \in 1 .. Len(s) - 1 : t[i] = s[i + 1]
  BY HeadTailProperties
<1> HIDE DEF t
<1>2. ASSUME NEW x \in Range(t) PROVE x \in Range(s) \ {Head(s)}
  <2>1. PICK i \in 1 .. Len(s) - 1 : x = s[i + 1]
    BY <1>1, <1>2 DEF Range
  <2> QED BY <1>1, <2>1 DEF Range
<1>3. ASSUME NEW x \in Range(s), x # Head(s) PROVE x \in Range(t)
  <2>1. PICK i \in 2 .. Len(s) : x = s[i]
    BY <1>1, <1>3 DEF Range
  <2>2. i - 1 \in 1 .. Len(s) - 1 /\ t[i - 1] = x
    BY <1>1, <2>1
  <2> QED BY <1>1, <2>2 DEF Range
<1>4. ASSUME NEW i \in DOMAIN t, NEW j \in DOMAIN t, t[i] = t[j] PROVE i = j
  <2>1. i + 1 \in DOMAIN s /\ j + 1 \in DOMAIN s /\ s[i + 1] = s[j + 1] /\ i \in Int /\ j \in Int
    BY <1>1, <1>4
  <2>2. i + 1 = j + 1
    BY <2>1
  <2> QED BY <2>1, <2>2
<1>5. Head(s) \in Range(s)
  BY <1>1 DEF Range
<1> QED BY <1>1, <1>2, <1>3, <1>4, <1>5 DEF t

-----------------------------------------------------------------------------
(* Type correctness. *)

LEMMA WayIsBounded ==
  TypeOK => /\ IsFiniteSet(OnTheWay) /\ Cardinality(OnTheWay) \in 0 .. seq
            /\ OnTheWay \subseteq 1 .. seq
<1> SUFFICES ASSUME TypeOK PROVE /\ IsFiniteSet(OnTheWay) /\ Cardinality(OnTheWay) \in 0 .. seq
                                 /\ OnTheWay \subseteq 1 .. seq
  OBVIOUS
<1>1. OnTheWay \subseteq 1 .. seq
  <2>1. Range(ch) \subseteq 1 .. seq
    BY DEF TypeOK, Range
  <2>2. pending \subseteq 1 .. seq /\ firing \subseteq 1 .. seq
    BY DEF TypeOK
  <2> QED BY <2>1, <2>2 DEF OnTheWay
<1>2. IsFiniteSet(1 .. seq) /\ Cardinality(1 .. seq) = seq
  BY FS_Interval DEF TypeOK
<1>3. IsFiniteSet(OnTheWay) /\ Cardinality(OnTheWay) <= seq
  BY <1>1, <1>2, FS_Subset
<1>4. Cardinality(OnTheWay) \in Nat /\ seq \in Nat
  BY <1>3, FS_CardinalityType DEF TypeOK
<1> QED BY <1>1, <1>3, <1>4

LEMMA TypeInit == Init => TypeOK
  BY DEF Init, TypeOK, Distinct, OnTheWay, Range

LEMMA TypeNext == TypeOK /\ [Next]_vars => TypeOK'
<1> SUFFICES ASSUME TypeOK, [Next]_vars PROVE TypeOK'
  OBVIOUS
<1> USE DEF TypeOK, Distinct, OnTheWay
<1>1. CASE after
  <2>1. seq' = seq + 1 /\ seq + 1 \in 1 .. MaxTimers /\ ch \in Seq(1 .. seq + 1)
    BY <1>1 DEF after
  <2>2. peak' \in 0 .. MaxTimers
    BY <1>1, WayIsBounded DEF after
  <2> QED BY <1>1, <2>1, <2>2 DEF after, Range
<1>2. CASE \E id \in Timers : cancel(id)
  BY <1>2 DEF cancel, Stop, Timers
<1>3. CASE fire
  <2>1. /\ ch' \in Seq(1 .. seq) /\ Head(ch) \in Range(ch) /\ Head(ch) \in 1 .. seq
        /\ Range(ch)' = Range(ch) \ {Head(ch)} /\ Distinct'
    BY <1>3, TakeId DEF fire
  <2> DEFINE x == Head(ch)
  <2> HIDE DEF x
  <2>2. x \in Range(ch) /\ x \in 1 .. seq /\ Range(ch)' = Range(ch) \ {x}
    BY <2>1 DEF x
  <2>3. seq' = seq /\ firing' = firing /\ running' = running /\ peak' = peak /\ running
    BY <1>3 DEF fire
  <2>4. \/ /\ tim' = tim \ {x} /\ cbs' = cbs \ {x} /\ ran' = ran \cup {x}
           /\ pending' = pending \ (tim \cap {x})
        \/ tim' = tim /\ cbs' = cbs /\ ran' = ran /\ pending' = pending
    BY <1>3 DEF fire, Stop, x
  <2>5. (x \notin pending) /\ (x \notin firing)
    BY <2>2
  <2>6. CASE tim' = tim /\ cbs' = cbs /\ ran' = ran /\ pending' = pending
    BY <2>1, <2>2, <2>3, <2>6
  <2>7. CASE /\ tim' = tim \ {x} /\ cbs' = cbs \ {x} /\ ran' = ran \cup {x}
             /\ pending' = pending \ (tim \cap {x})
    BY <2>1, <2>2, <2>3, <2>5, <2>7
  <2> QED BY <2>4, <2>6, <2>7
<1>4. CASE stopAll
  BY <1>4 DEF stopAll, Stop
<1>5. CASE \E id \in Timers : Expire(id)
  BY <1>5 DEF Expire, hub, Timers
<1>6. CASE \E id \in Timers : Send(id)
  <2>1. PICK id \in Timers : Send(id)
    BY <1>6
  <2>2. CASE ch' = ch
    BY <2>1, <2>2 DEF Send, hub
  <2>3. CASE ch' = Append(ch, id)
    <3>1. id \in 1 .. seq /\ id \notin Range(ch) /\ id \in firing
      BY <2>1 DEF Send
    <3>2. /\ ch' \in Seq(1 .. seq) /\ Range(ch') = Range(ch) \cup {id}
          /\ \A i, j \in DOMAIN ch' : ch'[i] = ch'[j] => i = j
      <4>1. ch \in Seq(1 .. seq)
        OBVIOUS
      <4>2. \A i, j \in DOMAIN ch : ch[i] = ch[j] => i = j
        OBVIOUS
      <4> HIDE DEF TypeOK, Distinct, OnTheWay
      <4> DEFINE S == 1 .. seq
      <4>3. ch \in Seq(S) /\ id \in S
        BY <3>1, <4>1
      <4> HIDE DEF S
      <4>4. /\ Append(ch, id) \in Seq(S) /\ Range(Append(ch, id)) = Range(ch) \cup {id}
            /\ \A i, j \in DOMAIN Append(ch, id) :
                  Append(ch, id)[i] = Append(ch, id)[j] => i = j
        BY <3>1, <4>2, <4>3, AppendId
      <4> QED BY <2>3, <4>4 DEF S
    <3>3. /\ seq' = seq /\ tim' = tim /\ cbs' = cbs /\ pending' = pending /\ ran' = ran
          /\ running' = running /\ peak' = peak /\ firing' = firing \ {id}
      BY <2>1 DEF Send, hub
    <3>4. Range(ch') \cap (pending \cup firing') = {}
      BY <3>1, <3>2, <3>3
    <3>5. ran \cap (pending \cup firing' \cup Range(ch')) = {}
      BY <3>1, <3>2, <3>3
    <3> QED BY <3>2, <3>3, <3>4, <3>5
  <2> QED BY <2>1, <2>2, <2>3 DEF Send
<1>7. CASE UNCHANGED vars
  BY <1>7 DEF vars, hub, runtime
<1> QED BY <1>1, <1>2, <1>3, <1>4, <1>5, <1>6, <1>7 DEF Next

\* The maps of the hub have the same ids, and a timer is in one place at most on
\* its way, whatever the runtime and the engine interleave (engine.go:55).
THEOREM TypeCorrect == Spec => []TypeOK
  BY TypeInit, TypeNext, PTL DEF Spec

-----------------------------------------------------------------------------
(* Refinement. *)

\* The status of a timer, its cases one after the other.
StatusIs(id) ==
  IF id > seq THEN "unused"
  ELSE IF id \in ran THEN "ran"
  ELSE IF id \notin cbs THEN "cancelled"
  ELSE IF id \in pending THEN "armed"
  ELSE IF id \in firing \cup Range(ch) THEN "due"
  ELSE "lost"

LEMMA StatusCases == TypeOK => \A id \in Timers : Status(id) = StatusIs(id)
<1> SUFFICES ASSUME TypeOK, NEW id \in Timers PROVE Status(id) = StatusIs(id)
  OBVIOUS
<1>1. id \in cbs => id <= seq /\ id \notin ran
  BY DEF TypeOK, Timers
<1>2. id \in ran => id <= seq
  BY DEF TypeOK, Timers
<1>3. ~ (id \in pending /\ id \in firing \cup Range(ch))
  BY DEF TypeOK
<1>4. id \in Int /\ seq \in Int
  BY DEF TypeOK, Timers
<1> QED BY <1>1, <1>2, <1>3, <1>4 DEF Status, StatusIs, Lost, OnTheWay

LEMMA StatusCasesNext == TypeOK' => \A id \in Timers : Status(id)' = StatusIs(id)'
<1>1. (TypeOK => \A id \in Timers : Status(id) = StatusIs(id))'
  BY StatusCases, PTL
<1> QED BY <1>1

Statuses == [id \in Timers |-> Status(id)]

\* A step that changes the status of one timer, and one that changes none.
LEMMA OneStatus ==
  ASSUME NEW x \in Timers, NEW v,
         \A id \in Timers : Status(id)' = IF id = x THEN v ELSE Status(id)
  PROVE  Statuses' = [Statuses EXCEPT ![x] = v]
  BY DEF Statuses

LEMMA NoStatus ==
  ASSUME \A id \in Timers : Status(id)' = Status(id)
  PROVE  UNCHANGED Statuses
  BY DEF Statuses

LEMMA InitRefines == Init => Service!Init
<1> SUFFICES ASSUME Init PROVE Service!Init
  OBVIOUS
<1>1. \A id \in Timers : Status(id) = "unused"
  BY TypeInit, StatusCases DEF Init, StatusIs, Timers
<1> QED BY <1>1 DEF Init, Service!Init

LEMMA StepRefines ==
  TypeOK /\ TypeOK' /\ [Next]_vars => [Service!Next]_<<Statuses, running>>
<1> SUFFICES ASSUME TypeOK, TypeOK', [Next]_vars
             PROVE  Service!Next \/ UNCHANGED <<Statuses, running>>
  OBVIOUS
<1>a. \A id \in Timers : Status(id) = StatusIs(id) /\ Status(id)' = StatusIs(id)'
  BY StatusCases, StatusCasesNext
<1>b. \A x \in Timers : \A v :
        /\ UNCHANGED running
        /\ \A id \in Timers : Status(id)' = IF id = x THEN v ELSE Status(id)
        => \A from : Status(x) \in from => Service!Becomes(x, from, v)
  BY OneStatus DEF Service!Becomes, Statuses
<1>c. seq \in Nat /\ \A id \in Timers : id \in Nat
  BY DEF TypeOK, Timers
<1>1. CASE after
  <2> DEFINE x == seq + 1
  <2>1. x \in Timers /\ running /\ running' = running
    BY <1>1 DEF after, Timers, TypeOK
  <2>2. Status(x) = "unused"
    BY <1>a, <1>c, <2>1 DEF StatusIs
  <2>3. \A id \in Timers : Status(id)' = IF id = x THEN "armed" ELSE Status(id)
    <3> SUFFICES ASSUME NEW id \in Timers
                 PROVE  StatusIs(id)' = IF id = x THEN "armed" ELSE StatusIs(id)
      BY <1>a
    <3>1. seq' = seq + 1 /\ ran' = ran /\ firing' = firing /\ ch' = ch
          /\ cbs' = cbs \cup {x} /\ pending' = pending \cup {x}
      BY <1>1 DEF after
    <3>2. x \notin ran
      BY <1>c DEF TypeOK
    <3> QED BY <3>1, <3>2, <1>c DEF StatusIs
  <2>4. Service!Arm(x)
    BY <1>b, <2>1, <2>2, <2>3 DEF Service!Arm
  <2> QED BY <2>1, <2>4 DEF Service!Next
<1>2. CASE \E id \in Timers : cancel(id)
  <2>1. PICK x \in Timers : cancel(x)
    BY <1>2
  <2>2. CASE x \in cbs
    <3>1. Status(x) \in {"armed", "due", "lost"}
      BY <1>a, <1>c, <2>2 DEF StatusIs, TypeOK
    <3>2. \A id \in Timers : Status(id)' = IF id = x THEN "cancelled" ELSE Status(id)
      BY <1>a, <1>c, <2>1, <2>2 DEF StatusIs, TypeOK, cancel, Stop
    <3>3. Service!Cancel(x)
      BY <1>b, <2>1, <3>1, <3>2 DEF Service!Cancel, cancel
    <3> QED BY <3>3 DEF Service!Next
  <2>3. CASE x \notin cbs
    <3>1. \A id \in Timers : Status(id)' = Status(id)
      BY <1>a, <2>1, <2>3 DEF StatusIs, TypeOK, cancel, Stop
    <3> QED BY <3>1, NoStatus, <2>1 DEF cancel
  <2> QED BY <2>2, <2>3
<1>3. CASE fire
  <2> DEFINE x == Head(ch)
  <2>1. x \in Range(ch) /\ x \in 1 .. seq /\ Range(ch') = Range(ch) \ {x}
    BY <1>3, TakeId DEF fire, TypeOK, Distinct
  <2>2. running /\ running' = running /\ seq' = seq /\ firing' = firing /\ x \in Timers
    BY <1>3, <2>1 DEF fire, Timers, TypeOK
  <2>3. x \notin ran /\ x \notin pending /\ x \notin firing
    BY <2>1 DEF TypeOK, OnTheWay
  <2>4. CASE x \in cbs
    <3>1. Status(x) = "due"
      BY <1>a, <1>c, <2>1, <2>2, <2>3, <2>4 DEF StatusIs
    <3>2. cbs' = cbs \ {x} /\ ran' = ran \cup {x} /\ pending' = pending \ (tim \cap {x})
      BY <1>3, <2>4 DEF fire, Stop
    <3>3. \A id \in Timers : Status(id)' = IF id = x THEN "ran" ELSE Status(id)
      BY <1>a, <1>c, <2>1, <2>2, <2>3, <3>2 DEF StatusIs
    <3>4. Service!Run(x)
      BY <1>b, <2>2, <3>1, <3>3 DEF Service!Run
    <3> QED BY <2>2, <3>4 DEF Service!Next
  <2>5. CASE x \notin cbs
    <3>1. cbs' = cbs /\ ran' = ran /\ pending' = pending
      BY <1>3, <2>5 DEF fire
    <3>2. \A id \in Timers : Status(id)' = Status(id)
      BY <1>a, <2>1, <2>2, <2>5, <3>1 DEF StatusIs
    <3> QED BY <3>2, NoStatus, <2>2
  <2> QED BY <2>4, <2>5
<1>4. CASE stopAll
  <2>1. running /\ running' = FALSE /\ cbs' = {} /\ seq' = seq /\ ran' = ran
    BY <1>4 DEF stopAll, TypeOK
  <2>2. \A id \in Timers :
          Status(id)' = IF Status(id) \in {"armed", "due", "lost"} THEN "cancelled" ELSE Status(id)
    BY <1>a, <2>1 DEF StatusIs
  <2>3. Service!Close
    BY <2>1, <2>2 DEF Service!Close
  <2> QED BY <2>3 DEF Service!Next
<1>5. CASE \E id \in Timers : Expire(id)
  <2>1. PICK x \in Timers : Expire(x)
    BY <1>5
  <2>2. x \in cbs /\ x \notin ran /\ x <= seq
    BY <2>1 DEF Expire, TypeOK
  <2>3. Status(x) = "armed"
    BY <1>a, <1>c, <2>1, <2>2 DEF StatusIs, Expire
  <2>4. \A id \in Timers : Status(id)' = IF id = x THEN "due" ELSE Status(id)
    BY <1>a, <1>c, <2>1, <2>2 DEF StatusIs, Expire, hub
  <2>5. Service!Expire(x)
    BY <1>b, <2>1, <2>3, <2>4 DEF Service!Expire, Expire
  <2> QED BY <2>5 DEF Service!Next
<1>6. CASE \E id \in Timers : Send(id)
  <2>1. PICK x \in Timers : Send(x)
    BY <1>6
  <2>2. /\ x \in firing /\ firing' = firing \ {x} /\ pending' = pending /\ cbs' = cbs
        /\ seq' = seq /\ ran' = ran /\ running' = running
    BY <2>1 DEF Send, hub
  <2>3. x \in 1 .. seq /\ x \notin pending /\ x \notin ran /\ x \notin Range(ch)
    BY <2>2 DEF TypeOK, OnTheWay
  <2>4. CASE ch' = Append(ch, x)
    <3>1. Range(ch') = Range(ch) \cup {x}
      BY <2>3, <2>4, AppendId DEF TypeOK
    <3>2. \A id \in Timers : Status(id)' = Status(id)
      BY <1>a, <2>2, <3>1 DEF StatusIs
    <3> QED BY <3>2, NoStatus, <2>2
  <2>5. CASE ch' = ch /\ x \notin cbs
    <3>1. \A id \in Timers : Status(id)' = Status(id)
      BY <1>a, <2>2, <2>5 DEF StatusIs
    <3> QED BY <3>1, NoStatus, <2>2
  <2>6. CASE ch' = ch /\ x \in cbs
    <3>1. Status(x) = "due"
      BY <1>a, <1>c, <2>2, <2>3, <2>6 DEF StatusIs
    <3>2. \A id \in Timers : Status(id)' = IF id = x THEN "lost" ELSE Status(id)
      BY <1>a, <1>c, <2>2, <2>3, <2>6 DEF StatusIs
    <3>3. Service!Lose(x)
      BY <1>b, <2>2, <3>1, <3>2 DEF Service!Lose
    <3> QED BY <3>3 DEF Service!Next
  <2> QED BY <2>1, <2>4, <2>5, <2>6 DEF Send
<1>7. CASE UNCHANGED vars
  <2>1. \A id \in Timers : Status(id)' = Status(id)
    BY <1>7 DEF vars, hub, runtime, Status, Lost, OnTheWay
  <2> QED BY <1>7, <2>1, NoStatus DEF vars
<1> QED BY <1>1, <1>2, <1>3, <1>4, <1>5, <1>6, <1>7 DEF Next

\* A callback runs at most once, after its timer has expired, and never after it
\* was cancelled or the engine ended, though its id may be in the channel then
\* (engine.go:79-106).
THEOREM HubImplementsService == Spec => ImplementsService
<1>1. TypeOK /\ TypeOK' /\ [Next]_vars => [Service!Next]_<<[id \in Timers |-> Status(id)], running>>
  BY StepRefines DEF Statuses
<1> QED BY <1>1, InitRefines, TypeCorrect, PTL DEF Spec, ImplementsService, Service!Spec

-----------------------------------------------------------------------------
(* The load without which no callback is lost. *)

\* The channel holds as many ids as it has entries.
LEMMA ChannelCardinality == TypeOK => Len(ch) \in Nat /\ Len(ch) <= Cardinality(Range(ch))
<1> SUFFICES ASSUME TypeOK PROVE Len(ch) \in Nat /\ Len(ch) <= Cardinality(Range(ch))
  OBVIOUS
<1>1. ch \in Seq(1 .. seq) /\ Len(ch) \in Nat /\ DOMAIN ch = 1 .. Len(ch)
  BY LenProperties DEF TypeOK
<1>2. ch = [i \in 1 .. Len(ch) |-> ch[i]] /\ \A i \in 1 .. Len(ch) : ch[i] \in Range(ch)
  BY <1>1 DEF Range
<1>3. ch \in Injection(1 .. Len(ch), Range(ch))
  BY <1>1, <1>2 DEF Injection, IsInjective, TypeOK, Distinct
<1>4. IsFiniteSet(Range(ch))
  BY WayIsBounded, FS_Subset DEF OnTheWay
<1>5. IsFiniteSet(1 .. Len(ch)) /\ Cardinality(1 .. Len(ch)) = Len(ch)
  BY <1>1, FS_Interval
<1> QED BY <1>1, <1>3, <1>4, <1>5, FS_Injection

\* The inductive invariant: peak is a bound on what is on its way, ids whose timer
\* was cancelled included.
LoadInv == Cardinality(OnTheWay) <= peak /\ LostOnlyIfMany

LEMMA LoadInit == Init => LoadInv
<1> SUFFICES ASSUME Init PROVE LoadInv
  OBVIOUS
<1>1. OnTheWay = {} /\ Lost = {} /\ peak = 0
  BY DEF Init, OnTheWay, Lost, Range
<1> QED BY <1>1, FS_EmptySet DEF LoadInv, LostOnlyIfMany

\* What takes timers off their way, and loses none, keeps the invariant.
LEMMA LessLoad ==
  ASSUME TypeOK, LoadInv, OnTheWay' \subseteq OnTheWay, Lost' \subseteq Lost, UNCHANGED peak
  PROVE  LoadInv'
<1>1. Cardinality(OnTheWay') <= Cardinality(OnTheWay) /\ IsFiniteSet(OnTheWay')
  BY WayIsBounded, FS_Subset
<1>2. Cardinality(OnTheWay') \in Nat /\ Cardinality(OnTheWay) \in Nat /\ peak \in Nat
  BY <1>1, WayIsBounded, FS_CardinalityType DEF TypeOK
<1> QED BY <1>1, <1>2 DEF LoadInv, LostOnlyIfMany

LEMMA LoadNext == TypeOK /\ TypeOK' /\ LoadInv /\ [Next]_vars => LoadInv'
<1> SUFFICES ASSUME TypeOK, TypeOK', LoadInv, [Next]_vars PROVE LoadInv'
  OBVIOUS
<1>1. CASE after
  <2>1. /\ OnTheWay' = OnTheWay \cup {seq + 1} /\ cbs' = cbs \cup {seq + 1}
        /\ peak' = LET n == Cardinality(OnTheWay) + 1 IN IF n > peak THEN n ELSE peak
    BY <1>1 DEF after, OnTheWay
  <2>2. IsFiniteSet(OnTheWay) /\ Cardinality(OnTheWay) \in Nat /\ seq + 1 \notin OnTheWay
    BY WayIsBounded DEF TypeOK
  <2>3. Cardinality(OnTheWay') = Cardinality(OnTheWay) + 1
    BY <2>1, <2>2, FS_AddElement
  <2>4. Lost' = Lost
    <3>1. seq + 1 \notin cbs
      BY DEF TypeOK
    <3> QED BY <2>1, <3>1 DEF Lost
  <2>5. peak \in Int /\ peak' \in Int /\ peak' >= peak /\ peak' >= Cardinality(OnTheWay')
    BY <2>1, <2>2, <2>3 DEF TypeOK
  <2> QED BY <2>4, <2>5 DEF LoadInv, LostOnlyIfMany
<1>2. CASE \E id \in Timers : cancel(id)
  <2>1. OnTheWay' \subseteq OnTheWay /\ Lost' \subseteq Lost /\ UNCHANGED peak
    BY <1>2 DEF cancel, Stop, OnTheWay, Lost, TypeOK
  <2> QED BY <2>1, LessLoad
<1>3. CASE fire
  <2> DEFINE x == Head(ch)
  <2>1. Range(ch') = Range(ch) \ {x}
    BY <1>3, TakeId DEF fire, TypeOK, Distinct
  <2> HIDE DEF x
  <2>2. /\ firing' = firing /\ UNCHANGED peak
        /\ \/ x \in cbs /\ cbs' = cbs \ {x} /\ pending' = pending \ (tim \cap {x})
           \/ x \notin cbs /\ cbs' = cbs /\ pending' = pending
    BY <1>3 DEF fire, Stop, x
  <2>3. OnTheWay' \subseteq OnTheWay /\ Lost' \subseteq Lost
    BY <2>1, <2>2 DEF OnTheWay, Lost
  <2> QED BY <2>2, <2>3, LessLoad
<1>4. CASE stopAll
  <2>1. cbs' = {} /\ OnTheWay' \subseteq OnTheWay /\ UNCHANGED peak
    BY <1>4 DEF stopAll, Stop, OnTheWay, TypeOK, runtime
  <2>2. Lost' \subseteq Lost
    BY <2>1 DEF Lost
  <2> QED BY <2>1, <2>2, LessLoad
<1>5. CASE \E id \in Timers : Expire(id)
  <2>1. OnTheWay' = OnTheWay /\ cbs' = cbs /\ UNCHANGED peak
    BY <1>5 DEF Expire, OnTheWay, hub
  <2> QED BY <2>1, LessLoad DEF Lost
<1>6. CASE \E id \in Timers : Send(id)
  <2>1. PICK x \in Timers : Send(x)
    BY <1>6
  <2>2. /\ x \in firing /\ firing' = firing \ {x} /\ pending' = pending /\ cbs' = cbs
        /\ UNCHANGED peak /\ x \notin Range(ch) /\ x \in 1 .. seq
    BY <2>1 DEF Send, hub, TypeOK
  <2>3. CASE ch' = Append(ch, x)
    <3>1. Range(ch') = Range(ch) \cup {x}
      BY <2>2, <2>3, AppendId, SMTT(60) DEF TypeOK
    <3>2. OnTheWay' = OnTheWay
      BY <2>2, <3>1 DEF OnTheWay
    <3> QED BY <2>2, <3>2, LessLoad DEF Lost
  <2>4. CASE ch' = ch /\ Len(ch) >= Capacity
    <3>1. OnTheWay' \subseteq OnTheWay
      BY <2>2, <2>4 DEF OnTheWay
    <3>2. Range(ch) \cup {x} \subseteq OnTheWay
      BY <2>2 DEF OnTheWay
    <3>3. IsFiniteSet(Range(ch)) /\ Cardinality(Range(ch) \cup {x}) = Cardinality(Range(ch)) + 1
      BY <2>2, <3>2, WayIsBounded, FS_Subset, FS_AddElement
    <3>4. Cardinality(Range(ch) \cup {x}) <= Cardinality(OnTheWay)
      BY <3>2, WayIsBounded, FS_Subset
    <3>5. Cardinality(OnTheWay') <= Cardinality(OnTheWay) /\ IsFiniteSet(OnTheWay')
      BY <3>1, WayIsBounded, FS_Subset
    <3>6. /\ Cardinality(OnTheWay) \in Nat /\ Cardinality(OnTheWay') \in Nat /\ peak \in Nat
          /\ Cardinality(Range(ch)) \in Nat
      BY <3>3, <3>5, WayIsBounded, FS_CardinalityType DEF TypeOK
    <3>7. peak > Capacity
      BY <2>4, <3>3, <3>4, <3>6, ChannelCardinality DEF LoadInv
    <3> QED BY <2>2, <3>5, <3>6, <3>7 DEF LoadInv, LostOnlyIfMany
  <2> QED BY <2>1, <2>3, <2>4, ChannelCardinality DEF Send
<1>7. CASE UNCHANGED vars
  BY <1>7 DEF vars, hub, runtime, LoadInv, LostOnlyIfMany, Lost, OnTheWay
<1> QED BY <1>1, <1>2, <1>3, <1>4, <1>5, <1>6, <1>7 DEF Next

\* The select of engine.go:70-75 loses no callback as long as no more timers are on
\* their way at a time than the channel holds.
THEOREM NothingLostUnlessMany == Spec => []LostOnlyIfMany
<1>1. Spec => []LoadInv
  BY LoadInit, LoadNext, TypeCorrect, PTL DEF Spec
<1>2. LoadInv => LostOnlyIfMany
  BY DEF LoadInv
<1> QED BY <1>1, <1>2, PTL

=============================================================================
