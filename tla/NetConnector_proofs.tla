------------------------- MODULE NetConnector_proofs -------------------------
(***************************************************************************)
(* Proofs about NetConnector, for channels of any size and any number of   *)
(* calls of net_connector_disable.                                         *)
(*                                                                         *)
(* WatcherAgrees speaks of the moments the event loop has control; in      *)
(* between, while a read event is dealt with, the watcher waits for the    *)
(* events of the channels as they are or as they were at the beginning     *)
(* (old_events), and that is enough for the comparison at the end.         *)
(***************************************************************************)
EXTENDS NetConnector, TLAPS

\* The descriptor and the watcher follow the state of the connector.
StateAgrees ==
    ~fault => /\ fd <=> conn \in {"connecting", "connected"}
              /\ ~fd => watch = Off
              /\ conn = "connecting" => watch = Connecting

WatchedMeanwhile ==
    ~fault /\ conn = "connected" =>
        \/ watch = EpWatch(Calc(rsize, wsize))
        \/ (cb.at # "none" /\ watch = EpWatch(cb.old))

WriteWasAsked == cb.at # "none" /\ cb.write => "w" \in cb.old

\* What happened to a connector that was never disabled.
NeverDisabled ==
    disables = 0 => /\ ~leftover
                    /\ cb.at # "none" => conn \in {"connected", "error"}

ConnInv ==
    /\ ConnTypeOK /\ StateAgrees /\ WatchedMeanwhile /\ WriteWasAsked
    /\ NeverDisabled /\ RetriesAfterError /\ SoundUnlessDisabled

\* The watcher after net_ep_update_events at the end of net_ep_cb, with w units
\* left to write: what was written had been asked for.
LEMMA UpdateAgrees ==
    ASSUME CapacityAssumption, ConnTypeOK, StateAgrees, ~fault, conn = "connected",
           NEW old \in SUBSET {"r", "w"}, NEW w \in 0..wsize,
           w < wsize => "w" \in old,
           watch = EpWatch(Calc(rsize, wsize)) \/ watch = EpWatch(old)
    PROVE  Update(old, Calc(rsize, w)) = EpWatch(Calc(rsize, w))
<1>1. fd
  BY DEF StateAgrees
<1>2. CASE Calc(rsize, w) # old
  BY <1>1, <1>2 DEF Update
<1>3. CASE Calc(rsize, w) = old
  <2>1. Calc(rsize, wsize) = Calc(rsize, w)
    BY <1>3 DEF Calc, ConnTypeOK
  <2> QED
    BY <1>1, <1>3, <2>1 DEF Update
<1> QED
  BY <1>2, <1>3

Calls   == [at : {"none", "read", "told"}, old : SUBSET {"r", "w"}, write : BOOLEAN]
Watches == [of : {"none", "connector", "ep"}, events : SUBSET {"r", "w"}]

LEMMA WatchTypes ==
    /\ Off \in Watches /\ Connecting \in Watches
    /\ \A ev \in SUBSET {"r", "w"} : EpWatch(ev) \in Watches
    /\ \A r, w : Calc(r, w) \in SUBSET {"r", "w"}
    /\ Quiet \in Calls
<1>1. Off \in Watches
  BY DEF Off, Watches
<1>2. Connecting \in Watches
  <2>1. {"w"} \in SUBSET {"r", "w"}
    OBVIOUS
  <2> QED
    BY <2>1 DEF Connecting, Watches
<1>3. \A ev \in SUBSET {"r", "w"} : EpWatch(ev) \in Watches
  BY <1>1 DEF EpWatch, Watches
<1>4. \A r, w : Calc(r, w) \in SUBSET {"r", "w"}
  BY DEF Calc
<1>5. Quiet \in Calls
  <2>1. {} \in SUBSET {"r", "w"}
    OBVIOUS
  <2> QED
    BY <2>1 DEF Quiet, Calls
<1> QED
  BY <1>1, <1>2, <1>3, <1>4, <1>5

LEMMA ConnInitInv == ASSUME CapacityAssumption, DisablesAssumption, ConnInit PROVE ConnInv
<1> USE DEF ConnInit
<1>1. ConnTypeOK
  <2>1. watch \in Watches
    BY WatchTypes
  <2>2. cb \in Calls
    BY WatchTypes
  <2>3. rsize \in 0..Capacity /\ wsize \in 0..Capacity /\ disables \in 0..MaxDisables
    BY DEF CapacityAssumption, DisablesAssumption
  <2> QED
    BY <2>1, <2>2, <2>3 DEF ConnTypeOK, Watches, Calls
<1>2. StateAgrees /\ WatchedMeanwhile /\ WriteWasAsked
  BY DEF StateAgrees, WatchedMeanwhile, WriteWasAsked, Quiet
<1>3. NeverDisabled /\ RetriesAfterError /\ SoundUnlessDisabled
  BY DEF NeverDisabled, RetriesAfterError, SoundUnlessDisabled, Quiet
<1> QED
  BY <1>1, <1>2, <1>3 DEF ConnInv

\* What the two ways to begin a connect share: the connector's state, its
\* descriptor, its watcher and its timer afterwards.
LEMMA ConnectKeepsInv ==
    ASSUME CapacityAssumption, ConnInv, ~fault, NEW armed \in BOOLEAN,
           Connect(armed), UNCHANGED <<rsize, wsize, cb, disables>>,
           \/ ~armed /\ leftover' = FALSE /\ cb.at = "none"
           \/ armed = retry /\ leftover' = leftover /\ conn = "disable",
           fd \/ armed => disables > 0,
           cb.at # "none" => disables > 0
    PROVE  ConnInv'
<1> USE DEF ConnInv
<1>1. ConnTypeOK'
  <2>1. watch' \in Watches
    BY WatchTypes DEF Connect, ConnTypeOK, Watches
  <2>2. /\ conn' \in {"disable", "connecting", "connected", "error"}
        /\ fd' \in BOOLEAN /\ retry' \in BOOLEAN /\ fault' \in BOOLEAN
    BY DEF Connect, Prepare, ConnTypeOK, Off
  <2> QED
    BY <2>1, <2>2 DEF ConnTypeOK, Watches
<1>2. StateAgrees'
  BY DEF ConnTypeOK, Connect, Prepare, StateAgrees
<1>3. WatchedMeanwhile'
  BY DEF ConnTypeOK, Connect, Prepare, WatchedMeanwhile, Calc, EpWatch
<1>4. WriteWasAsked'
  BY DEF WriteWasAsked
<1>5. NeverDisabled'
  BY DEF NeverDisabled, ConnTypeOK
<1>6. RetriesAfterError'
  BY DEF RetriesAfterError, Connect, Prepare, ConnTypeOK
<1>7. SoundUnlessDisabled'
  BY DEF SoundUnlessDisabled, Connect, Prepare, StateAgrees, ConnTypeOK
<1> QED
  BY <1>1, <1>2, <1>3, <1>4, <1>5, <1>6, <1>7

\* Closing an open endpoint, and turning to a state it is then in.
LEMMA CloseKeepsInv ==
    ASSUME CapacityAssumption, ConnInv, ~fault, Close,
           rsize' \in 0..Capacity, UNCHANGED <<wsize, disables, leftover>>,
           cb' = cb \/ cb' = Quiet
    PROVE  ConnInv'
<1> USE DEF ConnInv, Close, CloseTo, Prepare
<1>1. ConnTypeOK'
  <2>1. watch' \in Watches
    BY WatchTypes
  <2>2. cb' \in Calls
    BY WatchTypes DEF ConnTypeOK, Calls
  <2> QED
    BY <2>1, <2>2 DEF ConnTypeOK, Watches, Calls
<1>2. StateAgrees' /\ WatchedMeanwhile'
  BY DEF StateAgrees, WatchedMeanwhile
<1>3. WriteWasAsked' /\ NeverDisabled'
  BY DEF WriteWasAsked, NeverDisabled, Quiet, ConnTypeOK
<1>4. RetriesAfterError'
  BY DEF RetriesAfterError
<1>5. SoundUnlessDisabled'
  BY DEF SoundUnlessDisabled, RetriesAfterError, StateAgrees, NeverDisabled, ConnTypeOK
<1> QED
  BY <1>1, <1>2, <1>3, <1>4, <1>5

\* The channels change and the watcher with them, in the client's turn.
LEMMA FlowKeepsInv ==
    ASSUME CapacityAssumption, ConnInv, ~fault,
           rsize' \in 0..Capacity, wsize' \in 0..Capacity,
           watch' = Update(Calc(rsize, wsize), Calc(rsize', wsize')),
           fault' = Redirects(Calc(rsize, wsize), Calc(rsize', wsize')),
           UNCHANGED <<conn, fd, retry, disables, leftover>>,
           conn = "connecting" => disables > 0 \/ ~fault',
           cb' = cb \/ (cb' = [cb EXCEPT !.at = "told"] /\ cb.at # "none")
    PROVE  ConnInv'
<1> USE DEF ConnInv
<1>1. ConnTypeOK'
  BY DEF ConnTypeOK, Update, EpWatch, Off, Calc, Redirects
<1>2. StateAgrees'
  BY DEF StateAgrees, Update, Redirects
<1>3. WatchedMeanwhile'
  <2> SUFFICES ASSUME ~fault', conn = "connected"
               PROVE  \/ watch' = EpWatch(Calc(rsize', wsize'))
                      \/ cb'.at # "none" /\ watch' = EpWatch(cb'.old)
    BY DEF WatchedMeanwhile, Calc, EpWatch
  <2>1. fd
    BY DEF StateAgrees
  <2>2. CASE Calc(rsize', wsize') # Calc(rsize, wsize)
    BY <2>1, <2>2 DEF Update
  <2>3. CASE Calc(rsize', wsize') = Calc(rsize, wsize)
    BY <2>1, <2>3 DEF Update, WatchedMeanwhile, ConnTypeOK
  <2> QED
    BY <2>2, <2>3
<1>4. WriteWasAsked' /\ NeverDisabled'
  BY DEF WriteWasAsked, NeverDisabled, ConnTypeOK
<1>5. RetriesAfterError' /\ SoundUnlessDisabled'
  BY DEF RetriesAfterError, SoundUnlessDisabled, Redirects
<1> QED
  BY <1>1, <1>2, <1>3, <1>4, <1>5

\* The end of net_ep_cb, from a state in which the watcher waits for the events
\* of the channels or for those of the beginning.
LEMMA FinishKeepsInv ==
    ASSUME CapacityAssumption, ConnInv, ~fault,
           NEW old \in SUBSET {"r", "w"}, NEW write \in BOOLEAN, Finish(old, write),
           write => "w" \in old,
           conn = "connected" => watch = EpWatch(Calc(rsize, wsize)) \/ watch = EpWatch(old),
           conn = "connecting" => disables > 0,
           cb' = Quiet \/ (cb' = cb /\ cb.at = "none"), UNCHANGED <<rsize, disables, leftover>>
    PROVE  ConnInv'
<1> USE DEF ConnInv
<1>1. CASE Close /\ UNCHANGED wsize
  BY <1>1, CloseKeepsInv DEF ConnTypeOK
<1>2. CASE /\ wsize' \in 0..wsize
           /\ (wsize' < wsize => "w" \in old)
           /\ watch' = Update(old, Calc(rsize, wsize'))
           /\ fault' = Redirects(old, Calc(rsize, wsize'))
           /\ UNCHANGED <<conn, fd, retry>>
  <2>1. conn = "connected" => watch' = EpWatch(Calc(rsize', wsize'))
    BY <1>2, UpdateAgrees
  <2>2. ConnTypeOK'
    <3>1. watch' \in Watches
      BY <1>2, WatchTypes DEF Update, ConnTypeOK, Watches
    <3>2. cb' \in Calls
      BY WatchTypes DEF ConnTypeOK, Calls
    <3>3. wsize' \in 0..Capacity
      BY <1>2 DEF ConnTypeOK, CapacityAssumption
    <3> QED
      BY <1>2, <3>1, <3>2, <3>3 DEF ConnTypeOK, Watches, Calls, Redirects
  <2>3. StateAgrees'
    BY <1>2 DEF StateAgrees, Update, Redirects
  <2>4. WatchedMeanwhile'
    BY <1>2, <2>1 DEF WatchedMeanwhile
  <2>5. WriteWasAsked' /\ NeverDisabled'
    BY <1>2 DEF WriteWasAsked, NeverDisabled, Quiet
  <2>6. RetriesAfterError' /\ SoundUnlessDisabled'
    BY <1>2 DEF RetriesAfterError, SoundUnlessDisabled, Redirects
  <2> QED
    BY <2>2, <2>3, <2>4, <2>5, <2>6
<1>3. wsize \in Nat
  BY DEF ConnTypeOK
<1> QED
  BY <1>1, <1>2, <1>3 DEF Finish

LEMMA ConnStepInv ==
    ASSUME CapacityAssumption, DisablesAssumption, ConnInv, [ConnNext]_connVars PROVE ConnInv'
<1> USE DEF ConnInv
<1>1. CASE Enable
  <2>1. conn = "disable" /\ ~fault /\ (cb.at # "none" => disables > 0) /\ ~fd
    BY <1>1 DEF Enable, ClientTurn, NeverDisabled, StateAgrees, ConnTypeOK
  <2>2. retry => disables > 0
    BY <2>1 DEF RetriesAfterError, NeverDisabled, ConnTypeOK
  <2> QED
    BY <1>1, <2>1, <2>2, ConnectKeepsInv DEF Enable, ConnTypeOK
<1>2. CASE Disable
  <2>0. ~fault
    BY <1>2 DEF Disable, ClientTurn
  <2>1. ConnTypeOK'
    <3>1. watch' \in Watches
      BY <1>2, WatchTypes DEF Disable, CloseTo, ConnTypeOK, Watches
    <3>2. disables' \in 0..MaxDisables /\ leftover' \in BOOLEAN
      BY <1>2 DEF Disable, ConnTypeOK, DisablesAssumption
    <3>3. /\ conn' \in {"disable", "connecting", "connected", "error"}
          /\ fd' \in BOOLEAN /\ retry' \in BOOLEAN /\ fault' \in BOOLEAN
      BY <1>2 DEF Disable, CloseTo, Prepare, ConnTypeOK
    <3> QED
      BY <1>2, <3>1, <3>2, <3>3 DEF Disable, ConnTypeOK, Watches
  <2>2. StateAgrees' /\ WatchedMeanwhile'
    BY <1>2, <2>0 DEF Disable, CloseTo, StateAgrees, WatchedMeanwhile
  <2>3. WriteWasAsked' /\ NeverDisabled' /\ SoundUnlessDisabled'
    BY <1>2 DEF Disable, WriteWasAsked, NeverDisabled, SoundUnlessDisabled, ConnTypeOK
  <2>4. RetriesAfterError'
    BY <1>2 DEF Disable, CloseTo, RetriesAfterError
  <2> QED
    BY <2>1, <2>2, <2>3, <2>4
<1>3. CASE UserClose
  BY <1>3, CloseKeepsInv DEF UserClose, ClientTurn, ConnTypeOK
<1>4. ASSUME NEW n \in 1..Capacity, Send(n) PROVE ConnInv'
  <2>1. wsize' \in 0..Capacity /\ rsize' \in 0..Capacity
    BY <1>4 DEF Send, ConnTypeOK, CapacityAssumption
  <2>2. ~fault /\ conn # "connecting" /\ rsize' = rsize
    BY <1>4 DEF Send, ClientTurn
  <2>3. fault' = FALSE
    BY <1>4, <2>2 DEF Send, ConnTypeOK
  <2>4. Redirects(Calc(rsize, wsize), Calc(rsize', wsize')) = FALSE
    BY <2>2 DEF Redirects
  <2>5. fault' = Redirects(Calc(rsize, wsize), Calc(rsize', wsize'))
    BY <2>3, <2>4
  <2>6. watch' = Update(Calc(rsize, wsize), Calc(rsize', wsize'))
    BY <1>4, <2>2 DEF Send
  <2>7. UNCHANGED <<conn, fd, retry, disables, leftover>> /\ cb' = cb
    BY <1>4 DEF Send
  <2> QED
    BY <2>1, <2>2, <2>5, <2>6, <2>7, FlowKeepsInv
<1>5. CASE ConnectDone
  <2>0. ~fault /\ watch = Connecting /\ cb.at = "none"
    BY <1>5 DEF ConnectDone, InLoop
  <2>1. conn = "connecting" /\ fd
    BY <2>0 DEF StateAgrees, WatchedMeanwhile, Connecting, Off, EpWatch, ConnTypeOK
  <2>2. ConnTypeOK'
    <3>1. watch' \in Watches
      BY <1>5, WatchTypes DEF ConnectDone
    <3> QED
      BY <1>5, <3>1 DEF ConnectDone, Prepare, ConnTypeOK, Watches
  <2>3. StateAgrees' /\ WatchedMeanwhile'
    BY <1>5, <2>0, <2>1 DEF ConnectDone, StateAgrees, WatchedMeanwhile, Calc, EpWatch
  <2>4. WriteWasAsked' /\ NeverDisabled'
    BY <1>5, <2>0 DEF ConnectDone, WriteWasAsked, NeverDisabled
  <2>5. RetriesAfterError'
    BY <1>5, <2>0, <2>1 DEF ConnectDone, Prepare, RetriesAfterError
  <2>6. retry => disables > 0
    BY <2>0, <2>1 DEF RetriesAfterError, NeverDisabled, ConnTypeOK
  <2>7. SoundUnlessDisabled'
    BY <1>5, <2>0, <2>6 DEF ConnectDone, Prepare, SoundUnlessDisabled
  <2> QED
    BY <2>2, <2>3, <2>4, <2>5, <2>7
<1>6. CASE Reconnect
  <2>1. retry /\ ~fault /\ cb.at = "none"
    BY <1>6 DEF Reconnect, InLoop
  <2>2. fd => disables > 0
    BY <2>1 DEF RetriesAfterError, StateAgrees, NeverDisabled, ConnTypeOK
  <2>3. Connect(FALSE) /\ UNCHANGED <<rsize, wsize, cb, disables>> /\ leftover' = FALSE
    BY <1>6 DEF Reconnect
  <2>4. FALSE \in BOOLEAN /\ (fd \/ FALSE => disables > 0)
    BY <2>2
  <2>5. \/ ~FALSE /\ leftover' = FALSE /\ cb.at = "none"
        \/ FALSE = retry /\ leftover' = leftover /\ conn = "disable"
    BY <2>1, <2>3
  <2>6. cb.at # "none" => disables > 0
    BY <2>1
  <2> QED
    BY <2>1, <2>3, <2>4, <2>5, <2>6, ConnectKeepsInv
<1>7. ASSUME NEW events \in SUBSET {"r", "w"}, ReadBegins(events) PROVE ConnInv'
  <2>1. ~fault /\ cb.at = "none" /\ watch.of = "ep"
    BY <1>7 DEF ReadBegins, InLoop
  <2>2. conn = "connected" /\ fd /\ watch = EpWatch(Calc(rsize, wsize))
    BY <2>1 DEF StateAgrees, WatchedMeanwhile, ConnTypeOK, Off, Connecting
  <2>3. CASE Close /\ UNCHANGED <<rsize, cb>>
    BY <1>7, <2>1, <2>3, CloseKeepsInv DEF ReadBegins, ConnTypeOK
  <2>4. CASE /\ \E n \in 1..(Capacity - rsize) : rsize' = rsize + n
             /\ cb' = [at |-> "read", old |-> Calc(rsize, wsize), write |-> "w" \in events]
             /\ UNCHANGED <<conn, fd, retry, watch, fault>>
    <3>1. ConnTypeOK'
      <4>1. cb' \in Calls
        BY <2>4, WatchTypes DEF Calls
      <4>2. rsize' \in 0..Capacity
        BY <2>4 DEF ConnTypeOK, CapacityAssumption
      <4> QED
        BY <1>7, <2>4, <4>1, <4>2 DEF ReadBegins, ConnTypeOK, Calls
    <3>2. StateAgrees' /\ WatchedMeanwhile'
      BY <2>2, <2>4 DEF StateAgrees, WatchedMeanwhile
    <3>3. WriteWasAsked'
      <4>1. "w" \in events => "w" \in Calc(rsize, wsize)
        BY <1>7, <2>2 DEF ReadBegins, EpWatch, Off
      <4> QED
        BY <2>4, <4>1 DEF WriteWasAsked
    <3>4. NeverDisabled' /\ RetriesAfterError' /\ SoundUnlessDisabled'
      BY <1>7, <2>2, <2>4 DEF ReadBegins, NeverDisabled, RetriesAfterError, SoundUnlessDisabled
    <3> QED
      BY <3>1, <3>2, <3>3, <3>4
  <2> QED
    BY <1>7, <2>3, <2>4 DEF ReadBegins
<1>8. CASE WriteOnly
  <2>1. ~fault /\ cb.at = "none" /\ watch.of = "ep" /\ "w" \in watch.events
    BY <1>8 DEF WriteOnly, InLoop
  <2>2. conn = "connected" /\ watch = EpWatch(Calc(rsize, wsize))
    BY <2>1 DEF StateAgrees, WatchedMeanwhile, ConnTypeOK, Off, Connecting
  <2>3. "w" \in Calc(rsize, wsize) /\ Calc(rsize, wsize) \in SUBSET {"r", "w"}
    BY <2>1, <2>2, WatchTypes DEF EpWatch, Off
  <2>4. Finish(Calc(rsize, wsize), TRUE) /\ cb' = cb /\ UNCHANGED <<rsize, disables, leftover>>
    BY <1>8 DEF WriteOnly
  <2> QED
    BY <2>1, <2>2, <2>3, <2>4, FinishKeepsInv
<1>9. CASE Decode
  <2>0. ~fault /\ cb.at # "none"
    BY <1>9 DEF Decode, Reading
  <2>1. PICK n \in 1..rsize :
            /\ rsize' = rsize - n
            /\ watch' = Update(Calc(rsize, wsize), Calc(rsize', wsize))
            /\ fault' = Redirects(Calc(rsize, wsize), Calc(rsize', wsize))
    BY <1>9 DEF Decode
  <2>2. rsize' \in 0..Capacity /\ wsize' \in 0..Capacity
    BY <1>9, <2>1 DEF Decode, ConnTypeOK, CapacityAssumption
  <2>3. conn = "connecting" => disables > 0
    BY <2>0 DEF NeverDisabled, ConnTypeOK
  <2>4. wsize' = wsize
    BY <1>9 DEF Decode
  <2> QED
    BY <1>9, <2>0, <2>1, <2>2, <2>3, <2>4, FlowKeepsInv DEF Decode
<1>10. CASE DecodeEnds
  <2>1. ~fault /\ cb.at # "none" /\ Finish(cb.old, cb.write)
    BY <1>10 DEF DecodeEnds, Reading
  <2>2. cb.old \in SUBSET {"r", "w"} /\ cb.write \in BOOLEAN
    BY DEF ConnTypeOK
  <2>3. conn = "connecting" => disables > 0
    BY <2>1 DEF NeverDisabled, ConnTypeOK
  <2>4. cb.write => "w" \in cb.old
    BY <2>1 DEF WriteWasAsked
  <2>5. conn = "connected" => watch = EpWatch(Calc(rsize, wsize)) \/ watch = EpWatch(cb.old)
    BY <2>1 DEF WatchedMeanwhile
  <2>6. cb' = Quiet /\ UNCHANGED <<rsize, disables, leftover>>
    BY <1>10 DEF DecodeEnds
  <2> QED
    BY <2>1, <2>2, <2>3, <2>4, <2>5, <2>6, FinishKeepsInv
<1>11. CASE DecodeFails
  <2>0. ~fault
    BY <1>11 DEF DecodeFails, Reading
  <2>1. CASE Close
    BY <1>11, <2>0, <2>1, CloseKeepsInv DEF DecodeFails, ConnTypeOK
  <2>2. CASE ~fd /\ UNCHANGED <<conn, fd, retry, watch, fault>>
    <3>1. ConnTypeOK'
      BY <1>11, <2>2, WatchTypes DEF DecodeFails, ConnTypeOK, Calls
    <3>2. StateAgrees' /\ WatchedMeanwhile'
      BY <2>0, <2>2 DEF StateAgrees, WatchedMeanwhile
    <3>3. WriteWasAsked' /\ NeverDisabled' /\ RetriesAfterError' /\ SoundUnlessDisabled'
      BY <1>11, <2>2 DEF DecodeFails, WriteWasAsked, NeverDisabled, RetriesAfterError, SoundUnlessDisabled, Quiet
    <3> QED
      BY <3>1, <3>2, <3>3
  <2> QED
    BY <1>11, <2>1, <2>2 DEF DecodeFails
<1>12. CASE UNCHANGED connVars
  BY <1>12 DEF connVars, ConnTypeOK, StateAgrees, WatchedMeanwhile, WriteWasAsked,
     NeverDisabled, RetriesAfterError, SoundUnlessDisabled
<1> QED
  BY <1>1, <1>2, <1>3, <1>4, <1>5, <1>6, <1>7, <1>8, <1>9, <1>10, <1>11, <1>12 DEF ConnNext

THEOREM ConnInvariant == ConnSpec => []ConnInv
<1>1. ConnInit => ConnInv
  BY ConnInitInv, CapacityAssumption, DisablesAssumption
<1>2. ConnInv /\ [ConnNext]_connVars => ConnInv'
  BY ConnStepInv, CapacityAssumption, DisablesAssumption
<1> QED
  BY <1>1, <1>2, PTL DEF ConnSpec

-----------------------------------------------------------------------------
\* The connector and its endpoint stay in their types: no channel overflows.
THEOREM ConnTypeCorrect == ConnSpec => []ConnTypeOK
<1>1. ConnInv => ConnTypeOK
  BY DEF ConnInv
<1> QED
  BY <1>1, ConnInvariant, PTL

LEMMA InvWatches == ConnInv => WatcherAgrees
<1> SUFFICES ASSUME ConnInv, ~fault, cb.at = "none" PROVE WatcherAgrees
  BY DEF WatcherAgrees, InLoop
<1>1. CASE conn = "connecting"
  BY <1>1 DEF ConnInv, StateAgrees, WatcherAgrees
<1>2. CASE conn = "connected"
  BY <1>2 DEF ConnInv, StateAgrees, WatchedMeanwhile, WatcherAgrees
<1>3. CASE conn \notin {"connecting", "connected"}
  BY <1>3 DEF ConnInv, StateAgrees, WatcherAgrees
<1> QED
  BY <1>1, <1>2, <1>3

\* net_ep_cb, net_ep_update_events: whatever the callbacks do to the channels
\* and to the connection, the watcher waits for what they call for once the
\* event loop has control again.
THEOREM WatcherCorrect == ConnSpec => []WatcherAgrees
BY InvWatches, ConnInvariant, PTL

\* net_connector_on_disconnect, net_connector_cb_prepaire: a connection that
\* failed has its timer.
THEOREM AlwaysRetries == ConnSpec => []RetriesAfterError
<1>1. ConnInv => RetriesAfterError
  BY DEF ConnInv
<1> QED
  BY <1>1, ConnInvariant, PTL

\* net_connector_disable is the only way to a watcher initialised while active.
THEOREM SoundWithoutDisable == ConnSpec => []SoundUnlessDisabled
<1>1. ConnInv => SoundUnlessDisabled
  BY DEF ConnInv
<1> QED
  BY <1>1, ConnInvariant, PTL
=============================================================================
