---------------------------- MODULE GdTimer_proofs ----------------------------
(***************************************************************************)
(* Proofs about GdTimer, for any number of owners and identifiers.  The    *)
(* two invariants are proved together: that an owner knows its timer       *)
(* (TimerHasOwner) is what lets it remove the timer when it goes, and that *)
(* a timer that is removed is its owner's or makes the owner lost          *)
(* (Victims) is what keeps the rest of them in place.                      *)
(***************************************************************************)
EXTENDS GdTimer, TLAPS

TimerInv == TimerTypeOK /\ TimerHasOwner /\ WaitingIsTimed

\* A new timer of an owner that had none: created just now, or not timed.
LEMMA RegisterKeepsInv ==
    ASSUME TimerInv, NEW o \in Owner, NEW t \in Id, Register(o, t), ~Alive(o),
           life' = [life EXCEPT ![o] = "live"],
           of' \in [Req -> Ctx \cup {None}], lost' = lost
    PROVE  TimerInv'
<1> USE TimerAssumption DEF Owner, TimerInv
<1>1. /\ timer[t] = Free
      /\ timer' = [timer EXCEPT ![t] = [state |-> "armed", of |-> o]]
      /\ held' = [held EXCEPT ![o] = t]
  BY DEF Register
<1>2. [state |-> "armed", of |-> o] \in Timer
  BY DEF Timer
<1>3. TimerTypeOK'
  BY <1>1, <1>2 DEF TimerTypeOK
<1>4. TimerHasOwner'
  <2> SUFFICES ASSUME NEW u \in Id, timer'[u].state = "armed"
               PROVE  life'[timer'[u].of] # "absent" /\ held'[timer'[u].of] = u
    BY DEF TimerHasOwner, Alive
  <2>1. CASE u = t
    BY <1>1, <2>1 DEF TimerTypeOK
  <2>2. CASE u # t
    <3>1. timer'[u] = timer[u]
      BY <1>1, <2>2 DEF TimerTypeOK
    <3>2. timer[u].of \in Owner /\ Alive(timer[u].of) /\ held[timer[u].of] = u
      BY <3>1 DEF TimerTypeOK, TimerHasOwner, Timer, Free
    <3>3. timer[u].of # o
      BY <3>2 DEF Alive
    <3> QED
      BY <1>1, <3>1, <3>2, <3>3 DEF TimerTypeOK, Alive
  <2> QED
    BY <2>1, <2>2
<1>5. WaitingIsTimed'
  <2> SUFFICES ASSUME NEW r \in Req, life'[r] = "live", r \notin lost
               PROVE  \E u \in Id : timer'[u] = [state |-> "armed", of |-> r]
    BY DEF WaitingIsTimed
  <2>1. CASE r = o
    BY <1>1, <2>1 DEF TimerTypeOK
  <2>2. CASE r # o
    <3>1. PICK u \in Id : timer[u] = [state |-> "armed", of |-> r]
      BY <2>2 DEF WaitingIsTimed, TimerTypeOK
    <3>2. u # t
      BY <1>1, <3>1 DEF Free
    <3> QED
      BY <1>1, <3>1, <3>2 DEF TimerTypeOK
  <2> QED
    BY <2>1, <2>2
<1> QED
  BY <1>3, <1>4, <1>5

\* What becomes of a timer that is removed: it will not fire.
LEMMA UnregisteredNotArmed ==
    ASSUME NEW x \in Timer \cup {Free}
    PROVE  Unregistered(x) \in Timer \cup {Free} /\ Unregistered(x).state # "armed"
<1>1. CASE x.state = "armed"
  BY <1>1 DEF Unregistered, Free
<1>2. CASE x.state = "running"
  <2>1. x \in Timer
    BY <1>2 DEF Free
  <2>2. Unregistered(x) = [x EXCEPT !.state = "deleting"]
    BY <1>2 DEF Unregistered
  <2> QED
    BY <2>1, <2>2 DEF Timer
<1>3. CASE x.state \notin {"armed", "running"}
  BY <1>3 DEF Unregistered
<1> QED
  BY <1>1, <1>2, <1>3

\* The owners S give up their timers; whoever else loses one is lost.
LEMMA StopKeepsInv ==
    ASSUME TimerInv, NEW S \in SUBSET Owner,
           timer' = Stop(S, timer),
           held' = [o \in Owner |-> IF o \in S THEN None ELSE held[o]],
           life' \in [Owner -> {"absent", "live", "over"}],
           \A o \in S : life'[o] # "live",
           \A o \in Owner \ S : life'[o] = life[o],
           of' \in [Req -> Ctx \cup {None}],
           lost' \subseteq Owner,
           \A o \in Owner \ S : o \in lost \cup Victims(S) => o \in lost'
    PROVE  TimerInv'
<1> USE TimerAssumption DEF Owner, TimerInv
<1>1. \A t \in Id : timer'[t] = IF t \in Named(S) THEN Unregistered(timer[t]) ELSE timer[t]
  BY DEF Stop
<1>2. \A t \in Id : timer'[t] \in Timer \cup {Free}
  BY <1>1, UnregisteredNotArmed DEF TimerTypeOK
<1>3. TimerTypeOK'
  BY <1>2 DEF TimerTypeOK, Stop
<1>4. ASSUME NEW t \in Id, timer'[t].state = "armed"
      PROVE  timer'[t] = timer[t] /\ t \notin Named(S)
  BY <1>1, <1>4, UnregisteredNotArmed DEF TimerTypeOK
<1>5. TimerHasOwner'
  <2> SUFFICES ASSUME NEW t \in Id, timer'[t].state = "armed"
               PROVE  life'[timer'[t].of] # "absent" /\ held'[timer'[t].of] = t
    BY DEF TimerHasOwner, Alive
  <2>1. timer'[t] = timer[t] /\ t \notin Named(S)
    BY <1>4
  <2>2. timer[t].of \in Owner /\ Alive(timer[t].of) /\ held[timer[t].of] = t
    BY <2>1 DEF TimerTypeOK, TimerHasOwner, Timer, Free
  <2>3. timer[t].of \notin S
    BY <2>1, <2>2 DEF Named
  <2> QED
    BY <2>1, <2>2, <2>3 DEF Alive
<1>6. WaitingIsTimed'
  <2> SUFFICES ASSUME NEW r \in Req, life'[r] = "live", r \notin lost'
               PROVE  \E t \in Id : timer'[t] = [state |-> "armed", of |-> r]
    BY DEF WaitingIsTimed
  <2>1. r \notin S /\ life[r] = "live" /\ r \notin lost /\ r \notin Victims(S)
    OBVIOUS
  <2>2. PICK t \in Id : timer[t] = [state |-> "armed", of |-> r]
    BY <2>1 DEF WaitingIsTimed
  <2>3. t \notin Named(S)
    BY <2>1, <2>2 DEF Victims
  <2> QED
    BY <1>1, <2>2, <2>3
<1> QED
  BY <1>3, <1>5, <1>6

\* The timer t changes from one state to another that is not armed, and its
\* owner is not a require that still waits.
LEMMA UnarmedKeepsInv ==
    ASSUME TimerInv, NEW t \in Id, timer' \in [Id -> Timer \cup {Free}],
           \A u \in Id \ {t} : timer'[u] = timer[u],
           timer'[t].state # "armed",
           timer[t].state = "armed" => ~(timer[t].of \in Req /\ life[timer[t].of] = "live"),
           UNCHANGED <<life, of, held, lost>>
    PROVE  TimerInv'
<1> USE TimerAssumption DEF Owner, TimerInv
<1>1. TimerTypeOK'
  BY DEF TimerTypeOK
<1>2. TimerHasOwner'
  BY DEF TimerHasOwner, Alive
<1>3. WaitingIsTimed'
  <2> SUFFICES ASSUME NEW r \in Req, life[r] = "live", r \notin lost
               PROVE  \E u \in Id : timer'[u] = [state |-> "armed", of |-> r]
    BY DEF WaitingIsTimed
  <2>1. PICK u \in Id : timer[u] = [state |-> "armed", of |-> r]
    BY DEF WaitingIsTimed
  <2>2. u # t
    BY <2>1
  <2> QED
    BY <2>1, <2>2
<1> QED
  BY <1>1, <1>2, <1>3

\* Only owners lose a timer.
LEMMA VictimsAreOwners ==
    ASSUME TimerInv, NEW S
    PROVE  Victims(S) \subseteq Owner
BY DEF Victims, TimerInv, TimerTypeOK, Timer, Free, Named

\* Every step keeps the invariant.
LEMMA TimerStep == TimerInv /\ [TimerNext]_timerVars => TimerInv'
<1> SUFFICES ASSUME TimerInv, [TimerNext]_timerVars
             PROVE  TimerInv'
  OBVIOUS
<1> USE TimerAssumption DEF Owner
<1>1. ASSUME NEW c \in Ctx, CreateContext(c)
      PROVE  TimerInv'
  <2>1. /\ ~Alive(c) /\ life' = [life EXCEPT ![c] = "live"]
        /\ of' = of /\ lost' = lost
    BY <1>1 DEF CreateContext
  <2>2. of' \in [Req -> Ctx \cup {None}]
    BY <2>1 DEF TimerInv, TimerTypeOK
  <2>3. CASE \E t \in Id : Register(c, t)
    <3>1. PICK t \in Id : Register(c, t)
      BY <2>3
    <3> QED
      BY <2>1, <2>2, <3>1, RegisterKeepsInv
  <2>4. CASE UNCHANGED <<timer, held>>
    <3>1. TimerTypeOK'
      BY <2>1, <2>4 DEF TimerInv, TimerTypeOK
    <3>2. TimerHasOwner'
      <4> SUFFICES ASSUME NEW t \in Id, timer[t].state = "armed"
                   PROVE  life'[timer[t].of] # "absent" /\ held[timer[t].of] = t
        BY <2>4 DEF TimerHasOwner, Alive
      <4>1. timer[t].of \in Owner /\ Alive(timer[t].of) /\ held[timer[t].of] = t
        BY DEF TimerInv, TimerTypeOK, TimerHasOwner, Timer, Free
      <4> QED
        BY <2>1, <4>1 DEF Alive, TimerInv, TimerTypeOK
    <3>3. WaitingIsTimed'
      BY <2>1, <2>4 DEF TimerInv, TimerTypeOK, WaitingIsTimed
    <3> QED
      BY <3>1, <3>2, <3>3 DEF TimerInv
  <2> QED
    BY <1>1, <2>3, <2>4 DEF CreateContext
<1>2. ASSUME NEW r \in Req, NEW c \in Ctx, NEW t \in Id, CreateRequire(r, c, t)
      PROVE  TimerInv'
  <2>1. of' \in [Req -> Ctx \cup {None}]
    BY <1>2 DEF CreateRequire, TimerInv, TimerTypeOK
  <2> QED
    BY <1>2, <2>1, RegisterKeepsInv DEF CreateRequire
<1>3. ASSUME NEW S \in SUBSET Req, Resolve(S)
      PROVE  TimerInv'
  <2>1. /\ timer' = Stop(S, timer)
        /\ held' = [o \in Owner |-> IF o \in S THEN None ELSE held[o]]
        /\ life' = [o \in Owner |-> IF o \in S THEN "over" ELSE life[o]]
        /\ of' = of /\ lost' = lost \cup Victims(S)
    BY <1>3 DEF Resolve
  <2>2. Victims(S) \subseteq Owner
    BY VictimsAreOwners
  <2>3. /\ life' \in [Owner -> {"absent", "live", "over"}]
        /\ lost' \subseteq Owner /\ of' \in [Req -> Ctx \cup {None}]
        /\ S \in SUBSET Owner
    BY <2>1, <2>2 DEF TimerInv, TimerTypeOK
  <2> QED
    BY <2>1, <2>3, StopKeepsInv
<1>4. ASSUME NEW r \in Req, Cancel(r)
      PROVE  TimerInv'
  <2>1. /\ life' = [life EXCEPT ![r] = "over"]
        /\ UNCHANGED <<timer, of, held, lost>>
    BY <1>4 DEF Cancel
  <2>2. TimerTypeOK'
    BY <2>1 DEF TimerInv, TimerTypeOK
  <2>3. TimerHasOwner'
    <3> SUFFICES ASSUME NEW t \in Id, timer[t].state = "armed"
                 PROVE  life'[timer[t].of] # "absent" /\ held[timer[t].of] = t
      BY <2>1 DEF TimerHasOwner, Alive
    <3>1. timer[t].of \in Owner /\ Alive(timer[t].of) /\ held[timer[t].of] = t
      BY DEF TimerInv, TimerTypeOK, TimerHasOwner, Timer, Free
    <3> QED
      BY <2>1, <3>1 DEF Alive, TimerInv, TimerTypeOK
  <2>4. WaitingIsTimed'
    BY <2>1 DEF TimerInv, TimerTypeOK, WaitingIsTimed
  <2> QED
    BY <2>2, <2>3, <2>4 DEF TimerInv
<1>5. ASSUME NEW S \in SUBSET Owner, Gone(S)
      PROVE  TimerInv'
  <2>1. /\ timer' = Stop(S, timer)
        /\ held' = [o \in Owner |-> IF o \in S THEN None ELSE held[o]]
        /\ life' = [o \in Owner |-> IF o \in S THEN "absent" ELSE life[o]]
        /\ of' = [r \in Req |-> IF r \in S THEN None ELSE of[r]]
        /\ lost' = (lost \cup Victims(S)) \ S
    BY <1>5 DEF Gone
  <2>2. lost' \subseteq Owner
    BY <2>1, VictimsAreOwners DEF TimerInv, TimerTypeOK
  <2>3. /\ life' \in [Owner -> {"absent", "live", "over"}]
        /\ of' \in [Req -> Ctx \cup {None}]
    BY <2>1 DEF TimerInv, TimerTypeOK
  <2> QED
    BY <2>1, <2>2, <2>3, StopKeepsInv
<1>6. ASSUME NEW r \in Req, FreeRequire(r)
      PROVE  TimerInv'
  BY <1>5, <1>6 DEF FreeRequire
<1>7. ASSUME NEW c \in Ctx, FreeContext(c)
      PROVE  TimerInv'
  BY <1>5, <1>7 DEF FreeContext
<1>8. ASSUME NEW t \in Id, Fire(t)
      PROVE  TimerInv'
  <2> DEFINE o == timer[t].of
             tm == [timer EXCEPT ![t].state = "running"]
  <2>1. timer[t] \in Timer /\ o \in Owner /\ held[o] = t
    BY <1>8 DEF Fire, TimerInv, TimerTypeOK, TimerHasOwner, Timer, Free
  <2>2. tm[t] \in Timer /\ tm[t].state = "running" /\ \A u \in Id \ {t} : tm[u] = timer[u]
    BY <2>1 DEF TimerInv, TimerTypeOK, Timer
  <2>3. CASE o \in Req /\ life[o] = "live"
    <3>1. /\ life' = [life EXCEPT ![o] = "over"]
          /\ timer' = Stop({o}, tm)
          /\ held' = [held EXCEPT ![o] = None]
          /\ lost' = lost \cup Victims({o})
          /\ of' = of
      BY <1>8, <2>3 DEF Fire
    <3>2. Named({o}) = {t}
      BY <2>1 DEF Named, TimerInv, TimerTypeOK
    <3>3. \A u \in Id : timer'[u] = IF u = t THEN Unregistered(tm[t]) ELSE timer[u]
      BY <2>2, <3>1, <3>2 DEF Stop
    <3>4. Unregistered(tm[t]) \in Timer /\ Unregistered(tm[t]).state = "deleting"
      BY <2>2 DEF Unregistered, Timer
    <3>5. Victims({o}) \subseteq Owner
      BY VictimsAreOwners
    <3>6. TimerTypeOK'
      BY <3>1, <3>3, <3>4, <3>5 DEF TimerInv, TimerTypeOK, Stop
    <3>7. TimerHasOwner'
      <4> SUFFICES ASSUME NEW u \in Id, timer'[u].state = "armed"
                   PROVE  life'[timer'[u].of] # "absent" /\ held'[timer'[u].of] = u
        BY DEF TimerHasOwner, Alive
      <4>1. u # t /\ timer'[u] = timer[u]
        BY <3>3, <3>4
      <4>2. timer[u].of \in Owner /\ Alive(timer[u].of) /\ held[timer[u].of] = u
        BY <4>1 DEF TimerInv, TimerTypeOK, TimerHasOwner, Timer, Free
      <4>3. timer[u].of # o
        BY <2>1, <4>1, <4>2
      <4> QED
        BY <3>1, <4>1, <4>2, <4>3 DEF Alive, TimerInv, TimerTypeOK
    <3>8. WaitingIsTimed'
      <4> SUFFICES ASSUME NEW r \in Req, life'[r] = "live", r \notin lost'
                   PROVE  \E u \in Id : timer'[u] = [state |-> "armed", of |-> r]
        BY DEF WaitingIsTimed
      <4>1. r # o /\ life[r] = "live" /\ r \notin lost
        BY <3>1, <2>3 DEF TimerInv, TimerTypeOK
      <4>2. PICK u \in Id : timer[u] = [state |-> "armed", of |-> r]
        BY <4>1 DEF TimerInv, WaitingIsTimed
      <4> QED
        BY <3>3, <4>1, <4>2
    <3> QED
      BY <3>6, <3>7, <3>8 DEF TimerInv
  <2>4. CASE ~(o \in Req /\ life[o] = "live")
    <3>1. timer' = tm /\ UNCHANGED <<life, of, held, lost>>
      BY <1>8, <2>4 DEF Fire
    <3>2. timer' \in [Id -> Timer \cup {Free}]
      BY <2>2, <3>1 DEF TimerInv, TimerTypeOK
    <3>3. timer'[t].state # "armed" /\ \A u \in Id \ {t} : timer'[u] = timer[u]
      BY <2>2, <3>1
    <3> QED
      BY <2>4, <3>1, <3>2, <3>3, UnarmedKeepsInv
  <2> QED
    BY <2>3, <2>4
<1>9. ASSUME NEW t \in Id, Return(t)
      PROVE  TimerInv'
  <2>1. /\ timer' = [timer EXCEPT ![t] = Free]
        /\ timer[t].state # "armed"
        /\ UNCHANGED <<life, of, held, lost>>
    BY <1>9 DEF Return
  <2>2. timer' \in [Id -> Timer \cup {Free}] /\ timer'[t] = Free
    BY <2>1 DEF TimerInv, TimerTypeOK
  <2>3. timer'[t].state # "armed"
    BY <2>2 DEF Free
  <2> QED
    BY <2>1, <2>2, <2>3, UnarmedKeepsInv DEF TimerInv, TimerTypeOK
<1>10. CASE UNCHANGED timerVars
  BY <1>10 DEF timerVars, TimerInv, TimerTypeOK, TimerHasOwner, WaitingIsTimed, Alive
<1> QED
  BY <1>1, <1>2, <1>3, <1>4, <1>6, <1>7, <1>8, <1>9, <1>10 DEF TimerNext

LEMMA TimerInitInv == TimerInit => TimerInv
<1> SUFFICES ASSUME TimerInit PROVE TimerInv
  OBVIOUS
<1>1. TimerTypeOK
  BY DEF TimerInit, TimerTypeOK
<1>2. TimerHasOwner
  BY DEF TimerInit, TimerHasOwner, Free
<1>3. WaitingIsTimed
  BY DEF TimerInit, WaitingIsTimed, Owner
<1> QED
  BY <1>1, <1>2, <1>3 DEF TimerInv

\* The invariant holds in every state the timers can be in.
LEMMA TimerInvariant == TimerSpec => []TimerInv
BY TimerInitInv, TimerStep, PTL DEF TimerSpec

\* Type correctness of the timers and their owners.
THEOREM TimerTypeCorrect == TimerSpec => []TimerTypeOK
BY TimerInvariant, PTL DEF TimerInv

\* No callback is called for an owner that was freed (gd_timer_mgr_dispatch_timer),
\* although identifiers are reused and owners keep old ones.
THEOREM NoOrphanTimer == TimerSpec => []TimerHasOwner
BY TimerInvariant, PTL DEF TimerInv

\* A require that waits has its timer, unless another owner's stale identifier
\* removed it (gd_timer_mgr_unregist_timer_by_id).
THEOREM WaitingHasTimer == TimerSpec => []WaitingIsTimed
BY TimerInvariant, PTL DEF TimerInv
=============================================================================
