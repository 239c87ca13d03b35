------------------------------ MODULE RelayProofs ------------------------------
(***************************************************************************)
(* What the relay reports is true, however much the peers send.            *)
(***************************************************************************)
EXTENDS Relay, TLAPS

Err == {"nil", "closed", "failed"}

\* The types, of what the peers and the copiers do and of what the loop does
PeerTypes ==
  /\ sent \in [Conn -> 0..MaxChunks]
  /\ peerEnded \in [Conn -> BOOLEAN]
  /\ peerReset \in [Conn -> BOOLEAN]

StreamTypes ==
  /\ read \in [Conn -> 0..MaxChunks]
  /\ written \in [Conn -> 0..MaxChunks]
  /\ ended \in [Conn -> BOOLEAN]
  /\ closed \in [Conn -> BOOLEAN]

CopierTypes ==
  /\ copier \in [Conn -> {"reading", "writing", "closing", "done"}]
  /\ err \in [Conn -> Err]

LoopTypes ==
  /\ results \in Seq(Err)
  /\ completed \in 0..2
  /\ relayErr \in BOOLEAN /\ ctxDone \in BOOLEAN /\ canceled \in BOOLEAN /\ owner \in BOOLEAN
  /\ returned \in {"no", "nil", "error", "canceled"}

Types == PeerTypes /\ StreamTypes /\ CopierTypes /\ LoopTypes

\* Something on our side gave a reason to close a connection.
Reason == relayErr \/ canceled \/ owner

\* A direction that stopped without an error passed on all there was, and its
\* end.
DirectionOK(c) ==
  /\ copier[c] = "reading" => written[Other(c)] = read[c]
  /\ copier[c] = "writing" => written[Other(c)] + 1 = read[c]
  /\ copier[c] \in {"reading", "writing"} => err[c] = "nil"
  /\ copier[c] \in {"closing", "done"} /\ err[c] = "nil" =>
       peerEnded[c] /\ read[c] = sent[c] /\ written[Other(c)] = sent[c]
  /\ copier[c] = "done" /\ err[c] = "nil" => ended[Other(c)]

\* Nothing is closed without a reason the loop knows of.
ReasonOK(c) == closed[c] \/ err[c] = "closed" => Reason

\* The results of both directions, in the channel or received; none is lost.
Done(c) == IF copier[c] = "done" THEN 1 ELSE 0

FailurePending == \E i \in 1..Len(results) : results[i] = "failed"

ChannelOK ==
  /\ Len(results) + completed = Done("left") + Done("right")
  /\ \A c \in Conn : copier[c] = "done" /\ err[c] = "failed" => relayErr \/ FailurePending

ReturnOK ==
  /\ returned # "no" => completed = 2
  /\ returned # "no" /\ relayErr => returned = "error"
  /\ returned = "nil" => ~relayErr /\ ~canceled

RelayInvariant ==
  /\ Types
  /\ \A c \in Conn : DirectionOK(c) /\ ReasonOK(c)
  /\ ChannelOK /\ ReturnOK

\* There are two connections.
LEMMA Others == \A c \in Conn : Other(c) \in Conn /\ Other(c) # c /\ Other(Other(c)) = c
  BY DEF Conn, Other

\* A relay begins with both directions reading.
LEMMA InitInvariant == Init => RelayInvariant
<1> SUFFICES ASSUME Init PROVE RelayInvariant
  OBVIOUS
<1>1. 0 \in 0..MaxChunks
  BY RelayAssumption
<1>2. PeerTypes /\ StreamTypes
  BY <1>1 DEF Init, PeerTypes, StreamTypes
<1>3. CopierTypes /\ LoopTypes
  <2>1. results \in Seq(Err)
    BY DEF Init
  <2>2. CopierTypes
    BY DEF Init, CopierTypes, Err
  <2>3. completed \in 0..2 /\ returned \in {"no", "nil", "error", "canceled"}
    BY DEF Init
  <2>4. relayErr \in BOOLEAN /\ ctxDone \in BOOLEAN /\ canceled \in BOOLEAN /\ owner \in BOOLEAN
    BY DEF Init
  <2> QED
    BY <2>1, <2>2, <2>3, <2>4 DEF LoopTypes
<1>4. \A c \in Conn : DirectionOK(c) /\ ReasonOK(c)
  BY Others DEF Init, DirectionOK, ReasonOK
<1>5. ChannelOK /\ ReturnOK
  BY DEF Init, ChannelOK, ReturnOK, Done, Conn
<1> QED
  BY <1>2, <1>3, <1>4, <1>5 DEF RelayInvariant, Types

-------------------------------------------------------------------------------
(* The peers, the owner and the caller *)

\* They touch neither the copiers nor the loop, and send nothing on a stream that
\* was ended.
LEMMA EnvironmentInvariant ==
  ASSUME RelayInvariant, Environment
  PROVE  RelayInvariant'
<1> USE DEF RelayInvariant, Types
<1>1. /\ UNCHANGED <<read, written, ended, copier, err, results, completed, relayErr, canceled, returned>>
      /\ owner => owner'
  BY DEF Environment, Cancel, PeerSends, PeerEnds, PeerResets, OwnerCloses, streams, loop
<1>2. CASE Cancel
  <2>1. UNCHANGED <<sent, peerEnded, peerReset, closed, owner>> /\ ctxDone' = TRUE
    BY <1>2 DEF Cancel, peers
  <2> QED
    BY <1>1, <2>1 DEF PeerTypes, StreamTypes, CopierTypes, LoopTypes, DirectionOK, ReasonOK, Reason, ChannelOK, Done,
                      FailurePending, ReturnOK
<1>3. ASSUME NEW c \in Conn, PeerSends(c) \/ PeerEnds(c) \/ PeerResets(c) PROVE RelayInvariant'
  <2>1. UNCHANGED <<closed, owner, ctxDone>>
    BY <1>3 DEF PeerSends, PeerEnds, PeerResets
  <2>2. PeerTypes'
    <3>1. CASE PeerSends(c)
      BY <3>1, RelayAssumption DEF PeerSends, PeerTypes
    <3>2. CASE PeerEnds(c)
      BY <3>2 DEF PeerEnds, PeerTypes
    <3>3. CASE PeerResets(c)
      BY <3>3 DEF PeerResets, PeerTypes
    <3> QED
      BY <1>3, <3>1, <3>2, <3>3
  <2>3. ASSUME NEW d \in Conn
        PROVE  /\ peerEnded[d] => peerEnded'[d] /\ sent'[d] = sent[d]
    <3>1. CASE PeerSends(c)
      BY <3>1 DEF PeerSends, PeerTypes
    <3>2. CASE PeerEnds(c)
      BY <3>2 DEF PeerEnds, PeerTypes
    <3>3. CASE PeerResets(c)
      BY <3>3 DEF PeerResets, PeerTypes
    <3> QED
      BY <1>3, <3>1, <3>2, <3>3
  <2>4. ASSUME NEW d \in Conn PROVE DirectionOK(d)' /\ ReasonOK(d)'
    BY <1>1, <2>1, <2>3 DEF DirectionOK, ReasonOK, Reason
  <2> QED
    BY <1>1, <2>1, <2>2, <2>4 DEF StreamTypes, CopierTypes, LoopTypes, ChannelOK, Done, FailurePending, ReturnOK
<1>4. ASSUME NEW c \in Conn, OwnerCloses(c) PROVE RelayInvariant'
  <2>1. UNCHANGED <<sent, peerEnded, peerReset, ctxDone>> /\ owner' = TRUE /\ closed' = [closed EXCEPT ![c] = TRUE]
    BY <1>4 DEF OwnerCloses, peers
  <2> QED
    BY <1>1, <2>1 DEF PeerTypes, StreamTypes, CopierTypes, LoopTypes, DirectionOK, ReasonOK, Reason, ChannelOK, Done,
                      FailurePending, ReturnOK
<1> QED
  BY <1>2, <1>3, <1>4 DEF Environment

-------------------------------------------------------------------------------
(* The copiers *)

\* What a copier does before it reports
Copies(c) == Read(c) \/ ReadEOF(c) \/ ReadFails(c) \/ Write(c) \/ WriteFails(c)

\* It keeps account of what it read and wrote.
LEMMA CopiesInvariant ==
  ASSUME RelayInvariant, NEW c \in Conn, Copies(c)
  PROVE  RelayInvariant'
<1> USE DEF RelayInvariant, Types
<1>1. UNCHANGED <<sent, peerEnded, peerReset, ended, closed, results, completed, relayErr, canceled, returned, ctxDone, owner>>
  BY DEF Copies, Read, ReadEOF, ReadFails, Write, WriteFails, CopyEnds, peers, streams, loop
<1>2. copier[c] \in {"reading", "writing"} /\ copier'[c] # "done"
  BY DEF Copies, Read, ReadEOF, ReadFails, Write, WriteFails, CopyEnds, CopierTypes
<1>3. \A d \in Conn : d # c => copier'[d] = copier[d] /\ err'[d] = err[d] /\ read'[d] = read[d] /\ written'[Other(d)] = written[Other(d)]
  BY Others DEF Copies, Read, ReadEOF, ReadFails, Write, WriteFails, CopyEnds, CopierTypes, StreamTypes, streams
<1>4. CopierTypes'
  BY DEF Copies, Read, ReadEOF, ReadFails, Write, WriteFails, CopyEnds, CopierTypes, Err
<1>5. StreamTypes'
  <2>1. CASE Read(c)
    BY <1>1, <2>1, RelayAssumption DEF Read, StreamTypes, PeerTypes
  <2>2. CASE Write(c)
    <3>1. Other(c) \in Conn /\ written[Other(c)] + 1 = read[c]
      BY <2>2, Others DEF Write, DirectionOK
    <3> QED
      BY <1>1, <2>2, <3>1, RelayAssumption DEF Write, StreamTypes
  <2>3. CASE ReadEOF(c) \/ ReadFails(c) \/ WriteFails(c)
    BY <1>1, <2>3 DEF ReadEOF, ReadFails, WriteFails, StreamTypes, streams
  <2> QED
    BY <2>1, <2>2, <2>3 DEF Copies
<1>6. DirectionOK(c)'
  <2>1. CASE Read(c)
    BY <1>1, <2>1, Others DEF Read, DirectionOK, StreamTypes, CopierTypes
  <2>2. CASE Write(c)
    BY <1>1, <2>2, Others DEF Write, DirectionOK, StreamTypes, CopierTypes
  <2>3. CASE ReadEOF(c)
    BY <1>1, <2>3, Others DEF ReadEOF, CopyEnds, DirectionOK, StreamTypes, CopierTypes, streams
  <2>4. CASE ReadFails(c) \/ WriteFails(c)
    BY <1>1, <2>4, Others DEF ReadFails, WriteFails, CopyEnds, DirectionOK, StreamTypes, CopierTypes, streams
  <2> QED
    BY <2>1, <2>2, <2>3, <2>4 DEF Copies
<1>7. ReasonOK(c)'
  BY <1>1, Others DEF Copies, Read, ReadEOF, ReadFails, Write, WriteFails, CopyEnds, ReasonOK, Reason, CopierTypes
<1>8. ASSUME NEW d \in Conn PROVE DirectionOK(d)' /\ ReasonOK(d)'
  <2>1. CASE d = c
    BY <1>6, <1>7, <2>1
  <2>2. CASE d # c
    BY <1>1, <1>3, <2>2 DEF DirectionOK, ReasonOK, Reason
  <2> QED
    BY <2>1, <2>2
<1>9. \A d \in Conn : copier'[d] = "done" <=> copier[d] = "done"
  BY <1>2, <1>3
<1>10. ChannelOK'
  BY <1>1, <1>2, <1>3, <1>9 DEF ChannelOK, Done, FailurePending, Conn
<1> QED
  BY <1>1, <1>4, <1>5, <1>8, <1>10 DEF PeerTypes, LoopTypes, ReturnOK

\* Reporting
Reports(c) == HalfClose(c) \/ HalfCloseFails(c)

\* The end of the stream is passed on, or the failure to do so is reported.
LEMMA ReportsInvariant ==
  ASSUME RelayInvariant, NEW c \in Conn, Reports(c)
  PROVE  RelayInvariant'
<1> USE DEF RelayInvariant, Types
<1>1. UNCHANGED <<sent, peerEnded, peerReset, read, written, closed, completed, relayErr, canceled, returned, ctxDone, owner>>
  BY DEF Reports, HalfClose, HalfCloseFails, peers, streams, loop
<1>2. PICK e \in Err :
        /\ Sends(c, e) /\ copier[c] = "closing"
        /\ e = "nil" => err[c] = "nil" /\ ended'[Other(c)]
        /\ e = "closed" => Reason
  <2>1. CASE HalfClose(c)
    <3>0. err[c] \in Err
      BY DEF CopierTypes
    <3> WITNESS err[c] \in Err
    <3>1. ended'[Other(c)] /\ Sends(c, err[c]) /\ copier[c] = "closing"
      BY <2>1, Others DEF HalfClose, StreamTypes
    <3> QED
      BY <3>1 DEF ReasonOK
  <2>2. CASE HalfCloseFails(c)
    BY <2>2, Others DEF HalfCloseFails, CopierTypes, Err, ReasonOK
  <2> QED
    BY <2>1, <2>2 DEF Reports
<1>3. /\ results' = Append(results, e)
      /\ copier' = [copier EXCEPT ![c] = "done"]
      /\ err' = [err EXCEPT ![c] = e]
  BY <1>2 DEF Sends
<1>4. CopierTypes'
  BY <1>3 DEF CopierTypes
<1>5. /\ results' \in Seq(Err) /\ Len(results') = Len(results) + 1
      /\ results'[Len(results) + 1] = e /\ \A i \in 1..Len(results) : results'[i] = results[i]
  BY <1>3 DEF LoopTypes
<1>6. ended' \in [Conn -> BOOLEAN] /\ \A d \in Conn : ended[d] => ended'[d]
  BY DEF Reports, HalfClose, HalfCloseFails, StreamTypes, streams
<1>7. ASSUME NEW d \in Conn PROVE DirectionOK(d)' /\ ReasonOK(d)'
  <2>1. CASE d = c
    BY <1>1, <1>2, <1>3, <2>1 DEF DirectionOK, ReasonOK, Reason, CopierTypes
  <2>2. CASE d # c
    BY <1>1, <1>3, <1>6, <2>2, Others DEF DirectionOK, ReasonOK, Reason, CopierTypes
  <2> QED
    BY <2>1, <2>2
<1>8. Len(results') + completed' = Done("left")' + Done("right")'
  BY <1>1, <1>2, <1>3, <1>5 DEF ChannelOK, Done, Conn, CopierTypes, LoopTypes
<1>9. ASSUME NEW d \in Conn, copier'[d] = "done", err'[d] = "failed" PROVE relayErr' \/ FailurePending'
  <2>1. CASE d = c
    <3>1. e = "failed" /\ Len(results) + 1 \in 1..Len(results')
      BY <1>3, <1>5, <1>9, <2>1 DEF CopierTypes, LoopTypes
    <3> QED
      BY <1>5, <3>1 DEF FailurePending
  <2>2. CASE d # c
    <3>1. copier[d] = "done" /\ err[d] = "failed"
      BY <1>3, <1>9, <2>2 DEF CopierTypes
    <3>2. CASE FailurePending
      <4>1. PICK i \in 1..Len(results) : results[i] = "failed"
        BY <3>2 DEF FailurePending
      <4> QED
        BY <1>5, <4>1 DEF FailurePending, LoopTypes
    <3> QED
      BY <1>1, <3>1, <3>2 DEF ChannelOK
  <2> QED
    BY <2>1, <2>2
<1> QED
  BY <1>1, <1>4, <1>5, <1>6, <1>7, <1>8, <1>9 DEF PeerTypes, StreamTypes, LoopTypes, ChannelOK, ReturnOK

-------------------------------------------------------------------------------
(* The loop *)

\* The first failure the loop receives becomes its own, and stays so.
LEMMA ReceiveInvariant ==
  ASSUME RelayInvariant, Receive
  PROVE  RelayInvariant'
<1> USE DEF RelayInvariant, Types
<1>1. /\ UNCHANGED <<sent, peerEnded, peerReset, read, written, ended, copier, err, ctxDone, canceled, owner, returned>>
      /\ returned = "no" /\ completed < 2 /\ results # <<>>
      /\ results' = Tail(results) /\ completed' = completed + 1
  BY DEF Receive, Running, peers, streams
<1>2. /\ results' \in Seq(Err) /\ Len(results') = Len(results) - 1 /\ Len(results) > 0
      /\ \A i \in 1..Len(results') : results'[i] = results[i + 1]
  BY <1>1 DEF LoopTypes
<1>3. relayErr' \in BOOLEAN /\ (relayErr => relayErr') /\ (results[1] = "failed" => relayErr')
  <2>1. Head(results) = results[1]
    BY <1>1 DEF LoopTypes
  <2>2. CASE ~relayErr /\ Head(results) = "failed"
    BY <2>2 DEF Receive
  <2>3. CASE ~(~relayErr /\ Head(results) = "failed")
    <3>1. relayErr' = relayErr
      BY <2>3 DEF Receive
    <3> QED
      BY <2>1, <2>3, <3>1 DEF LoopTypes
  <2> QED
    BY <2>2, <2>3
<1>4. closed' = closed \/ (relayErr' /\ closed' = [d \in Conn |-> TRUE])
  BY DEF Receive, CloseBoth
<1>5. ASSUME NEW d \in Conn PROVE DirectionOK(d)' /\ ReasonOK(d)'
  BY <1>1, <1>3, <1>4 DEF DirectionOK, ReasonOK, Reason
<1>6. FailurePending => relayErr' \/ FailurePending'
  <2> SUFFICES ASSUME NEW i \in 1..Len(results), results[i] = "failed" PROVE relayErr' \/ FailurePending'
    BY DEF FailurePending
  <2>1. CASE i = 1
    BY <1>3, <2>1
  <2>2. CASE i # 1
    <3>1. i - 1 \in 1..Len(results') /\ results'[i - 1] = "failed"
      BY <1>2, <2>2 DEF LoopTypes
    <3> QED
      BY <3>1 DEF FailurePending
  <2> QED
    BY <2>1, <2>2
<1>7. Len(results') + completed' = Done("left")' + Done("right")'
  BY <1>1, <1>2 DEF ChannelOK, Done, LoopTypes
<1>8. \A d \in Conn : copier'[d] = "done" /\ err'[d] = "failed" => relayErr' \/ FailurePending'
  BY <1>1, <1>3, <1>6 DEF ChannelOK
<1>9. StreamTypes' /\ PeerTypes' /\ CopierTypes'
  BY <1>1, <1>4 DEF StreamTypes, PeerTypes, CopierTypes
<1>10. LoopTypes'
  BY <1>1, <1>2, <1>3 DEF LoopTypes
<1> QED
  BY <1>1, <1>5, <1>7, <1>8, <1>9, <1>10 DEF ChannelOK, ReturnOK

\* A cancellation closes both connections.
LEMMA CancelInvariant ==
  ASSUME RelayInvariant, SeeCancel
  PROVE  RelayInvariant'
<1> USE DEF RelayInvariant, Types
<1>1. /\ UNCHANGED <<sent, peerEnded, peerReset, read, written, ended, copier, err, results, completed, relayErr, ctxDone, owner, returned>>
      /\ returned = "no" /\ canceled' = TRUE /\ closed' = [c \in Conn |-> TRUE]
  BY DEF SeeCancel, Running, CloseBoth, peers, streams
<1>2. PeerTypes' /\ StreamTypes' /\ CopierTypes' /\ LoopTypes'
  BY <1>1 DEF PeerTypes, StreamTypes, CopierTypes, LoopTypes
<1>3. \A d \in Conn : DirectionOK(d)' /\ ReasonOK(d)'
  BY <1>1 DEF DirectionOK, ReasonOK, Reason
<1> QED
  BY <1>1, <1>2, <1>3 DEF ChannelOK, Done, FailurePending, ReturnOK

\* The loop returns what it knows.
LEMMA ReturnInvariant ==
  ASSUME RelayInvariant, Return
  PROVE  RelayInvariant'
<1> USE DEF RelayInvariant, Types
<1>1. UNCHANGED <<sent, peerEnded, peerReset, read, written, ended, closed, copier, err, results, completed, relayErr, canceled, ctxDone, owner>>
  BY DEF Return, peers, streams
<1>2. /\ completed = 2 /\ returned' \in {"nil", "error", "canceled"}
      /\ relayErr => returned' = "error"
      /\ returned' = "nil" => ~relayErr /\ ~canceled
  BY DEF Return, LoopTypes
<1>3. PeerTypes' /\ StreamTypes' /\ CopierTypes' /\ LoopTypes'
  BY <1>1, <1>2 DEF PeerTypes, StreamTypes, CopierTypes, LoopTypes
<1>4. \A d \in Conn : DirectionOK(d)' /\ ReasonOK(d)'
  BY <1>1 DEF DirectionOK, ReasonOK, Reason
<1> QED
  BY <1>1, <1>2, <1>3, <1>4 DEF ChannelOK, Done, FailurePending, ReturnOK

-------------------------------------------------------------------------------

\* No step breaks the invariant.
LEMMA StepInvariant == RelayInvariant /\ [Next]_vars => RelayInvariant'
<1> SUFFICES ASSUME RelayInvariant, [Next]_vars PROVE RelayInvariant'
  OBVIOUS
<1>1. CASE UNCHANGED vars
  BY <1>1 DEF vars, peers, streams, loop, RelayInvariant, Types, PeerTypes, StreamTypes, CopierTypes, LoopTypes,
              DirectionOK, ReasonOK, Reason, ChannelOK, Done, FailurePending, ReturnOK
<1>2. CASE Next
  BY <1>2, EnvironmentInvariant, CopiesInvariant, ReportsInvariant, ReceiveInvariant, CancelInvariant, ReturnInvariant
  DEF Next, LoopStep, CopierStep, Copies, Reports
<1> QED
  BY <1>1, <1>2

\* A relay is always in a state the invariant describes.
THEOREM RelayInvariantHolds == Spec => []RelayInvariant
  BY InitInvariant, StepInvariant, PTL DEF Spec

\* A relay that returned has both results, and none is left in the channel.
LEMMA ReturnedIsComplete ==
  ASSUME RelayInvariant, returned # "no"
  PROVE  (\A c \in Conn : copier[c] = "done") /\ Len(results) = 0
  BY DEF RelayInvariant, Types, CopierTypes, LoopTypes, ReturnOK, ChannelOK, Done, Conn

\* Bidirectional returns nil only if all that either peer sent was passed on.
THEOREM AllDelivered == Spec => []NilMeansAllDelivered
<1>1. RelayInvariant => NilMeansAllDelivered
  <2> SUFFICES ASSUME RelayInvariant, returned = "nil", ~owner, NEW c \in Conn
               PROVE  peerEnded[c] /\ written[Other(c)] = sent[c] /\ ended[Other(c)]
    BY DEF NilMeansAllDelivered
  <2>1. copier[c] = "done" /\ Len(results) = 0
    BY ReturnedIsComplete
  <2>2. ~relayErr /\ ~canceled
    BY DEF RelayInvariant, ReturnOK
  <2>3. err[c] # "failed" /\ err[c] # "closed"
    BY <2>1, <2>2 DEF RelayInvariant, ChannelOK, FailurePending, ReasonOK, Reason
  <2>4. err[c] = "nil"
    BY <2>3 DEF RelayInvariant, Types, CopierTypes, Err
  <2> QED
    BY <2>1, <2>4 DEF RelayInvariant, DirectionOK
<1> QED
  BY <1>1, RelayInvariantHolds, PTL

\* The end of a stream closes no connection.
THEOREM HalfCloseOnly == Spec => []EndOfStreamClosesNothing
<1>1. RelayInvariant => EndOfStreamClosesNothing
  BY DEF RelayInvariant, ReasonOK, Reason, EndOfStreamClosesNothing
<1> QED
  BY <1>1, RelayInvariantHolds, PTL

\* No result hides the failure of the other direction.
THEOREM FailureReported == Spec => []FailureIsReported
<1>1. RelayInvariant => TypeOK
  <2> SUFFICES ASSUME RelayInvariant PROVE TypeOK
    OBVIOUS
  <2>1. Len(results) + completed <= 2
    BY DEF RelayInvariant, ChannelOK, Done
  <2> QED
    BY <2>1 DEF RelayInvariant, Types, PeerTypes, StreamTypes, CopierTypes, LoopTypes, Err, TypeOK
<1>2. ASSUME RelayInvariant, returned # "no", NEW c \in Conn, err[c] = "failed" PROVE returned = "error"
  <2>1. copier[c] = "done" /\ Len(results) = 0
    BY <1>2, ReturnedIsComplete
  <2>2. relayErr
    BY <1>2, <2>1 DEF RelayInvariant, ChannelOK, FailurePending
  <2> QED
    BY <1>2, <2>2 DEF RelayInvariant, ReturnOK
<1>3. RelayInvariant => FailureIsReported
  BY <1>1, <1>2 DEF FailureIsReported
<1> QED
  BY <1>3, RelayInvariantHolds, PTL
===============================================================================
