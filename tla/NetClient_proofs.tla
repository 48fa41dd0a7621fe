-------------------------- MODULE NetClient_proofs --------------------------
(***************************************************************************)
(* Proofs about NetClient, for any number of requires, contexts, timers    *)
(* and disables: it implements GdTimer and NetConnector, whose theorems it *)
(* therefore inherits, and no request is forgotten by the table.           *)
(***************************************************************************)
EXTENDS NetClient, GdTimer_proofs, NetConnector_proofs

TableTypeOK == stage \in [Req -> Stages] /\ table \subseteq Req

-----------------------------------------------------------------------------
(* Every step is one of the timers' and one of the connector's, or leaves   *)
(* them alone                                                               *)

LEMMA ClosedOrNotTimers ==
    ASSUME TableTypeOK, ClosedOrNot PROVE [TimerNext]_timerVars
<1>1. CASE UNCHANGED timerVars
  BY <1>1
<1>2. CASE NotifyAll
  BY <1>2 DEF NotifyAll, TimerNext, TableTypeOK
<1> QED
  BY <1>1, <1>2 DEF ClosedOrNot

LEMMA TimersStep ==
    ASSUME TableTypeOK, [Next]_vars PROVE [TimerNext]_timerVars
<1>1. ASSUME NEW r \in Req, RequestStep(r) PROVE [TimerNext]_timerVars
  <2>1. CASE NewRequire(r)
    BY <2>1 DEF NewRequire, TimerNext
  <2>2. CASE SendUnconnected(r)
    BY <2>2 DEF SendUnconnected, TimerNext
  <2>3. CASE SendUnencoded(r) \/ SendAccepted(r)
    BY <2>3 DEF SendUnencoded, SendAccepted
  <2>4. CASE SendOverflows(r)
    BY <2>4 DEF SendOverflows, TimerNext, TableTypeOK
  <2>5. CASE Response(r)
    BY <2>5 DEF Response, TimerNext
  <2>6. CASE CancelRequire(r) \/ DropRequire(r)
    BY <2>6 DEF CancelRequire, DropRequire, TimerNext
  <2> QED
    BY <1>1, <2>1, <2>2, <2>3, <2>4, <2>5, <2>6 DEF RequestStep
<1>2. ASSUME NEW c \in Ctx, NewContext(c) \/ DropContext(c) PROVE [TimerNext]_timerVars
  BY <1>2 DEF NewContext, DropContext, TimerNext
<1>3. ASSUME ConnStep PROVE [TimerNext]_timerVars
  <2>1. CASE EnableClient \/ ConnectEnds \/ TryAgain \/ Push
    BY <2>1 DEF EnableClient, ConnectEnds, TryAgain, Push
  <2>2. CASE ClosedOrNot
    BY <2>2, ClosedOrNotTimers
  <2> QED
    BY <1>3, <2>1, <2>2 DEF ConnStep, DisableClient, BeginRead, WriteEvent, ReadEnds, ReadFails
<1>4. ASSUME NEW t \in Id, TimerFires(t) \/ TimerReturns(t) PROVE [TimerNext]_timerVars
  BY <1>4 DEF TimerFires, TimerReturns, TimerNext
<1>5. CASE UNCHANGED vars
  BY <1>5 DEF vars
<1> QED
  BY <1>1, <1>2, <1>3, <1>4, <1>5 DEF Next

LEMMA ConnectorStep ==
    ASSUME [Next]_vars PROVE [ConnNext]_connVars
<1>1. ASSUME NEW r \in Req, RequestStep(r) PROVE [ConnNext]_connVars
  <2>1. CASE SendAccepted(r)
    BY <2>1 DEF SendAccepted, ConnNext
  <2>2. CASE SendOverflows(r)
    BY <2>2 DEF SendOverflows, ConnNext
  <2>3. CASE Response(r)
    BY <2>3 DEF Response, ConnNext
  <2> QED
    BY <1>1, <2>1, <2>2, <2>3 DEF RequestStep, NewRequire, SendUnconnected, SendUnencoded,
       CancelRequire, DropRequire
<1>2. ASSUME NEW c \in Ctx, NewContext(c) \/ DropContext(c) PROVE [ConnNext]_connVars
  BY <1>2 DEF NewContext, DropContext
<1>3. ASSUME ConnStep PROVE [ConnNext]_connVars
  BY <1>3 DEF ConnStep, ConnNext, EnableClient, DisableClient, ConnectEnds, TryAgain, BeginRead,
     WriteEvent, Push, ReadEnds, ReadFails
<1>4. ASSUME NEW t \in Id, TimerFires(t) \/ TimerReturns(t) PROVE [ConnNext]_connVars
  BY <1>4 DEF TimerFires, TimerReturns
<1>5. CASE UNCHANGED vars
  BY <1>5 DEF vars
<1> QED
  BY <1>1, <1>2, <1>3, <1>4, <1>5 DEF Next

-----------------------------------------------------------------------------
(* The table *)

ClientInv == TableTypeOK /\ TimerInv /\ ConnInv /\ Told

LEMMA FaultStays ==
    ASSUME [ConnNext]_connVars, ~fault' PROVE ~fault
BY DEF ConnNext, connVars, Enable, Disable, UserClose, Send, ConnectDone, Reconnect, ReadBegins,
   WriteOnly, Decode, DecodeEnds, DecodeFails, InLoop, ClientTurn, Reading

\* A connection is not lost without its descriptor being closed.
LEMMA ClosedWhenLost ==
    ASSUME ConnInv, [ConnNext]_connVars, ~fault', conn = "connected", ~(fd /\ ~fd')
    PROVE  conn' = "connected"
<1>1. ~fault /\ fd /\ fd'
  BY FaultStays DEF ConnInv, StateAgrees
<1>2. CASE Enable \/ Reconnect
  BY <1>1, <1>2 DEF Enable, Reconnect, Connect
<1>3. CASE Disable \/ UserClose
  BY <1>1, <1>3 DEF Disable, UserClose, Close, CloseTo
<1>4. CASE ConnectDone
  <2>1. watch = Connecting /\ watch = EpWatch(Calc(rsize, wsize))
    BY <1>4, InvWatches DEF ConnectDone, WatcherAgrees
  <2> QED
    BY <2>1 DEF Connecting, EpWatch, Off
<1>5. ASSUME NEW n \in 1..Capacity, Send(n) PROVE conn' = "connected"
  BY <1>5 DEF Send
<1>6. ASSUME NEW events \in SUBSET {"r", "w"}, ReadBegins(events) PROVE conn' = "connected"
  BY <1>1, <1>6 DEF ReadBegins, Close, CloseTo
<1>7. CASE WriteOnly \/ DecodeEnds
  BY <1>1, <1>7 DEF WriteOnly, DecodeEnds, Finish, Close, CloseTo
<1>8. CASE Decode \/ DecodeFails
  BY <1>1, <1>8 DEF Decode, DecodeFails, Close, CloseTo
<1>9. CASE UNCHANGED connVars
  BY <1>9 DEF connVars
<1> QED
  BY <1>2, <1>3, <1>4, <1>5, <1>6, <1>7, <1>8, <1>9 DEF ConnNext

\* What a step has to show: a request that is still out was out before, and its
\* place in the table and its connection are kept.
LEMMA ToldIfKept ==
    ASSUME ClientInv, [ConnNext]_connVars, TableTypeOK',
           \A r \in Req : stage'[r] = "sent" /\ life'[r] = "live" /\ ~fault' =>
               /\ stage[r] = "sent" /\ life[r] = "live"
               /\ r \in table => r \in table'
               /\ ~(fd /\ ~fd')
    PROVE  Told'
<1> SUFFICES ASSUME ~fault', NEW r \in Req, stage'[r] = "sent", life'[r] = "live"
             PROVE  r \in table' /\ conn' = "connected"
  BY DEF Told
<1>1. ~fault /\ r \in table /\ conn = "connected"
  BY FaultStays DEF ClientInv, Told
<1> QED
  BY <1>1, ClosedWhenLost DEF ClientInv

\* A connection that is closed fails the requires of the table.
LEMMA NotifiedAll ==
    ASSUME ClientInv, [ConnNext]_connVars, fd /\ ~fd' => ~fault, ClosedOrNot
    PROVE  TableTypeOK' /\ Told'
<1>1. CASE UNCHANGED <<timerVars, clientVars>> /\ ~(fd /\ ~fd')
  <2>1. TableTypeOK'
    BY <1>1 DEF ClientInv, TableTypeOK, clientVars
  <2>2. life' = life /\ stage' = stage /\ table' = table
    BY <1>1 DEF timerVars, clientVars
  <2> QED
    BY <1>1, <2>1, <2>2, ToldIfKept
<1>2. CASE NotifyAll /\ ~fault
  <2>1. TableTypeOK'
    BY <1>2 DEF NotifyAll, ClientInv, TableTypeOK
  <2>2. \A r \in Req : ~(stage'[r] = "sent" /\ life'[r] = "live")
    BY <1>2 DEF NotifyAll, Resolve, ClientInv, Told, Owner
  <2> QED
    BY <2>1, <2>2 DEF Told
<1> QED
  BY <1>1, <1>2 DEF ClosedOrNot

LEMMA ClientStep ==
    ASSUME CapacityAssumption, DisablesAssumption, ClientInv, [Next]_vars PROVE ClientInv'
<1> USE TimerAssumption DEF Owner
<1>1. [TimerNext]_timerVars /\ [ConnNext]_connVars
  BY TimersStep, ConnectorStep DEF ClientInv
<1>2. TimerInv' /\ ConnInv'
  BY <1>1, TimerStep, ConnStepInv DEF ClientInv
<1>3. ASSUME NEW c \in Ctx, NewContext(c) \/ DropContext(c) PROVE TableTypeOK' /\ Told'
  <2>1. TableTypeOK' /\ stage' = stage /\ table' = table /\ fd' = fd
    BY <1>3 DEF NewContext, DropContext, clientVars, connVars, ClientInv, TableTypeOK
  <2>2. \A r \in Req : life'[r] = "live" => life[r] = "live"
    BY <1>3 DEF NewContext, DropContext, CreateContext, FreeContext, Gone, ClientInv, TimerInv, TimerTypeOK
  <2> QED
    BY <1>1, <2>1, <2>2, ToldIfKept
<1>4. ASSUME NEW t \in Id, TimerFires(t) \/ TimerReturns(t) PROVE TableTypeOK' /\ Told'
  <2>1. TableTypeOK' /\ stage' = stage /\ table' = table /\ fd' = fd
    BY <1>4 DEF TimerFires, TimerReturns, clientVars, connVars, ClientInv, TableTypeOK
  <2>2. \A r \in Req : life'[r] = "live" => life[r] = "live"
    BY <1>4 DEF TimerFires, TimerReturns, Fire, Return, ClientInv, TimerInv, TimerTypeOK
  <2> QED
    BY <1>1, <2>1, <2>2, ToldIfKept
<1>5. ASSUME ConnStep PROVE TableTypeOK' /\ Told'
  <2>1. CASE EnableClient \/ ConnectEnds \/ TryAgain \/ Push
    <3>1. TableTypeOK' /\ stage' = stage /\ table' = table /\ life' = life
      BY <2>1 DEF EnableClient, ConnectEnds, TryAgain, Push, timerVars, clientVars, ClientInv, TableTypeOK
    <3>2. ~fault' /\ conn = "connected" => ~(fd /\ ~fd')
      <4>1. CASE EnableClient \/ TryAgain
        BY <4>1 DEF EnableClient, TryAgain, Enable, Reconnect, Connect
      <4>2. CASE ConnectEnds
        <5>1. conn = "connected" => watch = Connecting /\ watch = EpWatch(Calc(rsize, wsize))
          BY <4>2, InvWatches DEF ConnectEnds, ConnectDone, WatcherAgrees, ClientInv
        <5> QED
          BY <5>1 DEF Connecting, EpWatch, Off
      <4>3. CASE Push
        BY <4>3 DEF Push, Decode
      <4> QED
        BY <2>1, <4>1, <4>2, <4>3
    <3>3. \A r \in Req : stage'[r] = "sent" /\ life'[r] = "live" /\ ~fault' => conn = "connected"
      BY <1>1, <3>1, FaultStays DEF ClientInv, Told
    <3> QED
      BY <1>1, <3>1, <3>2, <3>3, ToldIfKept
  <2>2. CASE ClosedOrNot /\ ~fault
    BY <1>1, <2>2, NotifiedAll
  <2> QED
    BY <1>5, <2>1, <2>2 DEF ConnStep, DisableClient, BeginRead, WriteEvent, ReadEnds, ReadFails,
       Disable, ReadBegins, WriteOnly, DecodeEnds, DecodeFails, ClientTurn, InLoop, Reading
<1>6. ASSUME NEW r \in Req, RequestStep(r) PROVE TableTypeOK' /\ Told'
  <2> USE DEF ClientInv
  <2>1. CASE NewRequire(r)
    <3>1. TableTypeOK' /\ table' = table /\ fd' = fd /\ stage' = [stage EXCEPT ![r] = "new"]
      BY <2>1 DEF NewRequire, connVars, TableTypeOK, Stages
    <3>2. \A q \in Req \ {r} : life'[q] = life[q]
      BY <2>1 DEF NewRequire, CreateRequire, TimerInv, TimerTypeOK
    <3> QED
      BY <1>1, <3>1, <3>2, ToldIfKept DEF TableTypeOK
  <2>2. CASE SendUnconnected(r) \/ SendUnencoded(r)
    <3>1. TableTypeOK' /\ table' = table /\ fd' = fd /\ stage' = [stage EXCEPT ![r] = "refused"]
      BY <2>2 DEF SendUnconnected, SendUnencoded, connVars, TableTypeOK, Stages
    <3>2. \A q \in Req : life'[q] = "live" => life[q] = "live"
      BY <2>2 DEF SendUnconnected, SendUnencoded, Resolve, timerVars
    <3> QED
      BY <1>1, <3>1, <3>2, ToldIfKept DEF TableTypeOK
  <2>3. CASE SendAccepted(r)
    <3>1. /\ conn = "connected" /\ conn' = conn /\ fault' = fault /\ fd' = fd
          /\ stage' = [stage EXCEPT ![r] = "sent"] /\ life' = life
      BY <2>3 DEF SendAccepted, Send, timerVars
    <3>2. PICK before \in {table, Checked} : table' = before \cup {r}
      BY <2>3 DEF SendAccepted, Save
    <3>3. TableTypeOK'
      BY <3>1, <3>2 DEF TableTypeOK, Stages, Checked
    <3>4. \A q \in Req : life[q] = "live" /\ q \in table => q \in table'
      BY <3>2 DEF Checked, Alive
    <3>5. Told'
      BY <3>1, <3>2, <3>4 DEF Told, TableTypeOK
    <3> QED
      BY <3>3, <3>5
  <2>4. CASE SendOverflows(r)
    <3>1. ~fault
      BY <2>4 DEF SendOverflows, UserClose, ClientTurn
    <3>2. TableTypeOK' /\ stage' = [stage EXCEPT ![r] = "refused"]
      BY <2>4 DEF SendOverflows, TableTypeOK, Stages
    <3>3. \A q \in Req : ~(stage'[q] = "sent" /\ life'[q] = "live")
      BY <2>4, <3>1, <3>2 DEF SendOverflows, Resolve, Told, TableTypeOK
    <3> QED
      BY <3>2, <3>3 DEF Told
  <2>5. CASE Response(r)
    <3>1. /\ TableTypeOK' /\ fd' = fd
          /\ table' = table \ {r} /\ stage' = [stage EXCEPT ![r] = "heard"]
      BY <2>5 DEF Response, Decode, TableTypeOK, Stages
    <3>2. \A q \in Req : life'[q] = "live" => life[q] = "live"
      BY <2>5 DEF Response, Resolve, timerVars
    <3> QED
      BY <1>1, <3>1, <3>2, ToldIfKept DEF TableTypeOK
  <2>6. CASE CancelRequire(r) \/ DropRequire(r)
    <3>1. TableTypeOK' /\ table' = table /\ fd' = fd /\ stage' = stage
      BY <2>6 DEF CancelRequire, DropRequire, connVars, clientVars, TableTypeOK
    <3>2. \A q \in Req : life'[q] = "live" => life[q] = "live"
      BY <2>6 DEF CancelRequire, DropRequire, Cancel, FreeRequire, Gone, TimerInv, TimerTypeOK
    <3> QED
      BY <1>1, <3>1, <3>2, ToldIfKept
  <2> QED
    BY <1>6, <2>1, <2>2, <2>3, <2>4, <2>5, <2>6 DEF RequestStep
<1>7. CASE UNCHANGED vars
  <2>1. TableTypeOK' /\ Told'
    BY <1>7 DEF vars, timerVars, connVars, clientVars, ClientInv, TableTypeOK, Told
  <2> QED
    BY <1>2, <2>1 DEF ClientInv
<1> QED
  BY <1>2, <1>3, <1>4, <1>5, <1>6, <1>7 DEF Next, ClientInv

LEMMA ClientInitInv ==
    ASSUME CapacityAssumption, DisablesAssumption, Init PROVE ClientInv
<1>1. ConnInv
  BY ConnInitInv DEF Init
<1>2. TimerInv
  BY TimerInitInv DEF Init
<1>3. TableTypeOK /\ Told
  BY DEF Init, TableTypeOK, Stages, Told
<1> QED
  BY <1>1, <1>2, <1>3 DEF ClientInv

LEMMA ClientInvariant == Spec => []ClientInv
<1>1. Init => ClientInv
  BY ClientInitInv, CapacityAssumption, DisablesAssumption
<1>2. ClientInv /\ [Next]_vars => ClientInv'
  BY ClientStep, CapacityAssumption, DisablesAssumption
<1> QED
  BY <1>1, <1>2, PTL DEF Spec

-----------------------------------------------------------------------------
\* The client's requires, their contexts and their timers behave as GdTimer
\* says, whatever the connection does (bpg_net_client_requires.c).
THEOREM ImplementsTimers == Spec => TimerSpec
<1>1. Init => TimerInit
  BY DEF Init
<1>2. ClientInv /\ [Next]_vars => [TimerNext]_timerVars
  BY TimersStep DEF ClientInv
<1> QED
  BY <1>1, <1>2, ClientInvariant, PTL DEF Spec, TimerSpec

\* The client drives its connector and endpoint as NetConnector says
\* (bpg_net_client_send.c, bpg_net_client_process.c).
THEOREM ImplementsConnector == Spec => ConnSpec
<1>1. Init => ConnInit
  BY DEF Init
<1>2. [Next]_vars => [ConnNext]_connVars
  BY ConnectorStep
<1> QED
  BY <1>1, <1>2, PTL DEF Spec, ConnSpec

\* Every variable of the client stays in its type.
THEOREM ClientTypeCorrect == Spec => []TypeOK
<1>1. ClientInv => TypeOK
  BY DEF ClientInv, TableTypeOK, TimerInv, ConnInv, TypeOK
<1> QED
  BY <1>1, ClientInvariant, PTL

\* bpg_net_client_notify_all_require_disconnect reaches every request on its way
\* whose require still waits, in whatever step the connection is lost.
THEOREM NoneForgotten == Spec => []Told
<1>1. ClientInv => Told
  BY DEF ClientInv
<1> QED
  BY <1>1, ClientInvariant, PTL

\* What the two components promise holds in the client.
THEOREM ClientInherits ==
    Spec => [](TimerHasOwner /\ WaitingIsTimed /\ WatcherAgrees /\ RetriesAfterError /\ SoundUnlessDisabled)
BY ImplementsTimers, ImplementsConnector, NoOrphanTimer, WaitingHasTimer, WatcherCorrect,
   AlwaysRetries, SoundWithoutDisable, PTL
=============================================================================
