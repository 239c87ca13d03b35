--------------------------------- MODULE Relay ---------------------------------
(***************************************************************************)
(* relay.Bidirectional: the full-duplex copy between two connections that  *)
(* the HTTP proxy's tunnels and the namespace forwarder run.  Two copying  *)
(* goroutines, one per direction, report to the function's own loop, which *)
(* also watches the context.  The peers of the two connections send, end   *)
(* their stream or reset at any time; whoever tracks the connections       *)
(* (connectionSet, forwarder) may close both at any time.                  *)
(*                                                                         *)
(* Data is counted in chunks: a stream delivers its chunks in order, so    *)
(* counters say all there is to say of what was lost.                      *)
(***************************************************************************)
EXTENDS Naturals, Sequences

CONSTANT MaxChunks  \* bound: what a peer sends on a connection

ASSUME RelayAssumption == MaxChunks \in Nat

Conn == {"left", "right"}

Other(c) == IF c = "left" THEN "right" ELSE "left"

VARIABLES
  sent,       \* chunks the peer of the connection sent on it
  peerEnded,  \* the peer closed its sending half
  peerReset,  \* the peer reset the connection
  read,       \* chunks read from the connection
  written,    \* chunks written to the connection
  ended,      \* CloseWrite was done on the connection
  closed,     \* Close was done on the connection
  copier,     \* where the goroutine that reads from the connection stands
  err,        \* the err of that goroutine
  results,    \* the channel results
  completed,  \* results received by the loop
  relayErr,   \* relayErr # nil
  ctxDone,    \* the context is canceled
  canceled,   \* and the loop saw it
  owner,      \* whoever tracks the connections closes them
  returned    \* what Bidirectional returned

peers == <<sent, peerEnded, peerReset>>
streams == <<read, written, ended>>
loop == <<completed, relayErr, canceled, returned>>
vars == <<peers, streams, closed, copier, err, results, loop, ctxDone, owner>>

Init ==
  /\ sent = [c \in Conn |-> 0]
  /\ peerEnded = [c \in Conn |-> FALSE]
  /\ peerReset = [c \in Conn |-> FALSE]
  /\ read = [c \in Conn |-> 0]
  /\ written = [c \in Conn |-> 0]
  /\ ended = [c \in Conn |-> FALSE]
  /\ closed = [c \in Conn |-> FALSE]
  /\ copier = [c \in Conn |-> "reading"]
  /\ err = [c \in Conn |-> "nil"]
  /\ results = <<>>
  /\ completed = 0
  /\ relayErr = FALSE
  /\ ctxDone = FALSE
  /\ canceled = FALSE
  /\ owner = FALSE
  /\ returned = "no"

-------------------------------------------------------------------------------
(* The peers and the context *)

PeerLive(c) == ~peerReset[c] /\ ~closed[c]

PeerSends(c) ==
  /\ PeerLive(c) /\ ~peerEnded[c] /\ sent[c] < MaxChunks
  /\ sent' = [sent EXCEPT ![c] = @ + 1]
  /\ UNCHANGED <<peerEnded, peerReset, streams, closed, copier, err, results, loop, ctxDone, owner>>

PeerEnds(c) ==
  /\ PeerLive(c) /\ ~peerEnded[c]
  /\ peerEnded' = [peerEnded EXCEPT ![c] = TRUE]
  /\ UNCHANGED <<sent, peerReset, streams, closed, copier, err, results, loop, ctxDone, owner>>

PeerResets(c) ==
  /\ PeerLive(c)
  /\ peerReset' = [peerReset EXCEPT ![c] = TRUE]
  /\ UNCHANGED <<sent, peerEnded, streams, closed, copier, err, results, loop, ctxDone, owner>>

Cancel ==
  /\ ~ctxDone /\ returned = "no"
  /\ ctxDone' = TRUE
  /\ UNCHANGED <<peers, streams, closed, copier, err, results, loop, owner>>

\* closeAll closes every connection it tracks, one after the other.
OwnerCloses(c) ==
  /\ returned = "no" /\ ~closed[c]
  /\ owner' = TRUE
  /\ closed' = [closed EXCEPT ![c] = TRUE]
  /\ UNCHANGED <<peers, streams, copier, err, results, loop, ctxDone>>

-------------------------------------------------------------------------------
(* copyStream(Other(c), c): from connection c to the other one *)

\* io.Copy returns with this error.
CopyEnds(c, e) ==
  /\ copier' = [copier EXCEPT ![c] = "closing"]
  /\ err' = [err EXCEPT ![c] = e]

Read(c) ==
  /\ copier[c] = "reading" /\ PeerLive(c) /\ read[c] < sent[c]
  /\ read' = [read EXCEPT ![c] = @ + 1]
  /\ copier' = [copier EXCEPT ![c] = "writing"]
  /\ UNCHANGED <<peers, written, ended, closed, err, results, loop, ctxDone, owner>>

ReadEOF(c) ==
  /\ copier[c] = "reading" /\ PeerLive(c) /\ peerEnded[c] /\ read[c] = sent[c]
  /\ CopyEnds(c, "nil")
  /\ UNCHANGED <<peers, streams, closed, results, loop, ctxDone, owner>>

\* net.ErrClosed from our own Close, anything else from the peer.
ReadFails(c) ==
  /\ copier[c] = "reading" /\ ~PeerLive(c)
  /\ CopyEnds(c, IF closed[c] THEN "closed" ELSE "failed")
  /\ UNCHANGED <<peers, streams, closed, results, loop, ctxDone, owner>>

\* Blocks for as long as the other peer does not read.
Write(c) ==
  /\ copier[c] = "writing" /\ PeerLive(Other(c))
  /\ written' = [written EXCEPT ![Other(c)] = @ + 1]
  /\ copier' = [copier EXCEPT ![c] = "reading"]
  /\ UNCHANGED <<peers, read, ended, closed, err, results, loop, ctxDone, owner>>

WriteFails(c) ==
  /\ copier[c] = "writing" /\ ~PeerLive(Other(c))
  /\ CopyEnds(c, IF closed[Other(c)] THEN "closed" ELSE "failed")
  /\ UNCHANGED <<peers, streams, closed, results, loop, ctxDone, owner>>

Sends(c, e) ==
  /\ results' = Append(results, e)
  /\ copier' = [copier EXCEPT ![c] = "done"]
  /\ err' = [err EXCEPT ![c] = e]

\* Mutant: the end of a stream closes the destination altogether.
FullClose(c) ==
  /\ copier[c] = "closing" /\ PeerLive(Other(c))
  /\ ended' = [ended EXCEPT ![Other(c)] = TRUE]
  /\ closed' = [closed EXCEPT ![Other(c)] = TRUE]
  /\ Sends(c, err[c])
  /\ UNCHANGED <<peers, read, written, loop, ctxDone, owner>>

\* CloseWrite passes the end of the stream on, after an error too.
HalfClose(c) ==
  /\ copier[c] = "closing" /\ PeerLive(Other(c))
  /\ ended' = [ended EXCEPT ![Other(c)] = TRUE]
  /\ Sends(c, err[c])
  /\ UNCHANGED <<peers, read, written, closed, loop, ctxDone, owner>>

\* Mutant: the error of CloseWrite is dropped.
HalfCloseIgnored(c) ==
  /\ copier[c] = "closing" /\ ~PeerLive(Other(c))
  /\ Sends(c, err[c])
  /\ UNCHANGED <<peers, streams, closed, loop, ctxDone, owner>>

\* CloseWrite fails: its error counts only if io.Copy had none.
HalfCloseFails(c) ==
  /\ copier[c] = "closing" /\ ~PeerLive(Other(c))
  /\ Sends(c, IF err[c] # "nil" THEN err[c]
              ELSE IF closed[Other(c)] THEN "closed" ELSE "failed")
  /\ UNCHANGED <<peers, streams, closed, loop, ctxDone, owner>>

-------------------------------------------------------------------------------
(* The loop of Bidirectional *)

Running == returned = "no" /\ completed < 2

CloseBoth == closed' = [c \in Conn |-> TRUE]

\* Mutant: an error of one direction leaves the other one running.
ReceiveKeepsOpen ==
  /\ Running /\ results # <<>>
  /\ results' = Tail(results)
  /\ completed' = completed + 1
  /\ relayErr' = (relayErr \/ Head(results) = "failed")
  /\ UNCHANGED <<peers, streams, closed, copier, err, ctxDone, canceled, owner, returned>>

\* Mutant: the error of the last direction is kept.
ReceiveLast ==
  /\ Running /\ results # <<>>
  /\ results' = Tail(results)
  /\ completed' = completed + 1
  /\ relayErr' = (Head(results) = "failed")
  /\ IF relayErr' THEN CloseBoth ELSE UNCHANGED closed
  /\ UNCHANGED <<peers, streams, copier, err, ctxDone, canceled, owner, returned>>

\* A direction reports; the first relay error closes both connections.
Receive ==
  /\ Running /\ results # <<>>
  /\ results' = Tail(results)
  /\ completed' = completed + 1
  /\ IF ~relayErr /\ Head(results) = "failed"
     THEN relayErr' = TRUE /\ CloseBoth
     ELSE UNCHANGED <<relayErr, closed>>
  /\ UNCHANGED <<peers, streams, copier, err, ctxDone, canceled, owner, returned>>

SeeCancel ==
  /\ Running /\ ctxDone /\ ~canceled
  /\ canceled' = TRUE
  /\ CloseBoth
  /\ UNCHANGED <<peers, streams, copier, err, results, completed, relayErr, ctxDone, owner, returned>>

Return ==
  /\ returned = "no" /\ completed = 2
  /\ returned' = CASE relayErr -> "error" [] canceled /\ ~relayErr -> "canceled" [] OTHER -> "nil"
  /\ UNCHANGED <<peers, streams, closed, copier, err, results, completed, relayErr, canceled, ctxDone, owner>>

-------------------------------------------------------------------------------

Environment ==
  \/ Cancel
  \/ \E c \in Conn : PeerSends(c) \/ PeerEnds(c) \/ PeerResets(c) \/ OwnerCloses(c)

\* What the goroutine that reads from c does without waiting for a peer.
CopierStep(c) ==
  Read(c) \/ ReadEOF(c) \/ ReadFails(c) \/ WriteFails(c) \/ HalfClose(c) \/ HalfCloseFails(c)

LoopStep == Receive \/ SeeCancel \/ Return

Next ==
  \/ Environment
  \/ LoopStep
  \/ \E c \in Conn : CopierStep(c) \/ Write(c)

Spec == Init /\ [][Next]_vars

\* The goroutines are scheduled.  Nothing is assumed of the peers: neither that
\* they send, end or reset, nor that they read what is written.  The select of
\* the loop picks among ready cases at random, so that a cancellation is not
\* passed over for ever.
FairSpec ==
  /\ Spec
  /\ \A c \in Conn : WF_vars(CopierStep(c))
  /\ WF_vars(LoopStep)

-------------------------------------------------------------------------------
(* Properties *)

\* The channel results has room for every send, so that no copier ever blocks
\* on it, not even after Bidirectional returned.
TypeOK ==
  /\ sent \in [Conn -> 0..MaxChunks]
  /\ peerEnded \in [Conn -> BOOLEAN]
  /\ peerReset \in [Conn -> BOOLEAN]
  /\ read \in [Conn -> 0..MaxChunks]
  /\ written \in [Conn -> 0..MaxChunks]
  /\ ended \in [Conn -> BOOLEAN]
  /\ closed \in [Conn -> BOOLEAN]
  /\ copier \in [Conn -> {"reading", "writing", "closing", "done"}]
  /\ err \in [Conn -> {"nil", "closed", "failed"}]
  /\ results \in Seq({"nil", "closed", "failed"}) /\ Len(results) + completed <= 2
  /\ completed \in 0..2
  /\ relayErr \in BOOLEAN
  /\ ctxDone \in BOOLEAN
  /\ canceled \in BOOLEAN
  /\ owner \in BOOLEAN
  /\ returned \in {"no", "nil", "error", "canceled"}

\* Bidirectional returns nil only if nothing was lost: unless the owner of the
\* connections closed them itself, both peers ended their streams, and every
\* chunk and the end of either stream was passed on to the other side.
NilMeansAllDelivered ==
  returned = "nil" /\ ~owner =>
    \A c \in Conn :
      peerEnded[c] /\ written[Other(c)] = sent[c] /\ ended[Other(c)]

\* Half-close (relay_test.go): that one stream ended never closes a connection,
\* so the other direction goes on.  Only an error, a cancellation or the owner
\* closes one.
EndOfStreamClosesNothing ==
  \A c \in Conn : closed[c] => relayErr \/ canceled \/ owner

\* A direction that failed for a reason other than our own Close is reported:
\* no later result hides it.
FailureIsReported ==
  /\ TypeOK
  /\ returned # "no" /\ (\E c \in Conn : err[c] = "failed") => returned = "error"

\* Whatever stops a relay ends it, with both peers silent or one of them not
\* reading: a canceled context, a direction that failed, or the owner of the
\* connections closing both of them, which is how the HTTP proxy ends its
\* tunnels (their context is not the server's).
StoppedRelayEnds ==
  \/ ctxDone
  \/ \E c \in Conn : err[c] = "failed"
  \/ closed = [c \in Conn |-> TRUE]
  ~> returned # "no"

===============================================================================
