----------------------------- MODULE UploadSync -----------------------------
(***************************************************************************)
(* The realtime upload as it runs: the upload threads of                   *)
(* echoclip_sync_client (upload_loop, sync_available, establish_session,   *)
(* send_message, close_session_async), the recorder they read from, the    *)
(* network, and the server of UploadServer.                                *)
(*                                                                         *)
(* Each element of Client is one activation of the upload switch: one      *)
(* UploadClient::start with its thread.  Activations overlap: a new        *)
(* configuration starts the new client before it stops the old one, and    *)
(* UploadClient::stop gives up waiting for its thread after 250 ms.  They  *)
(* share the recorder, whose sample positions name the samples.            *)
(*                                                                         *)
(* A message is sealed once and its envelope sent at most twice.  A copy   *)
(* stays in "requests" until the server processes it or it is lost, also   *)
(* long after the client has stopped waiting for it.                       *)
(***************************************************************************)
EXTENDS UploadServer

CONSTANTS
  MaxSample,    \* bound: how much the recorder records
  MaxChunk,     \* max_chunk_samples
  LocalWindow,  \* samples the recorder's retention window never gives up
  MayStop       \* whether the upload switch is ever turned off again

\* UploadSession: epoch, sequence, server_stream_id and next_sample.
Link == [epoch : Epoch, seq : Nat, stream : Nat, next : Nat]

ASSUME SyncConstants ==
  /\ MaxSample \in Nat /\ MaxChunk \in Nat \ {0} /\ LocalWindow \in Nat
  /\ MayStop \in BOOLEAN
  /\ Format # {} /\ None \notin Link

VARIABLES
  total,      \* total_samples_written of the local recorder
  retained,   \* its retained_start_sample
  pc,         \* where a client's upload thread is
  stopping,   \* the stop flag of UploadCancellation
  newest,     \* the activation started last, None before the first
  start,      \* activation.start_sample
  suffix,     \* logical_stream_suffix
  link,       \* the UploadSession, None when there is none
  want,       \* source_start_sample of the session being established
  seen,       \* total_samples_written as sync_available last read it
  requests    \* envelopes on their way to the server

clientVars == <<pc, stopping, newest, start, suffix, link, want, seen>>
recorderVars == <<total, retained>>
vars == <<serverVars, clientVars, recorderVars, requests>>

-----------------------------------------------------------------------------
(* send_message *)

Transmit(c, req) ==
  /\ waiting' = [waiting EXCEPT ![c] = req]
  /\ reply' = [reply EXCEPT ![c] = None]
  /\ requests' = requests \cup {req}
  /\ pc' = [pc EXCEPT ![c] = "sending"]

Send(c, l, body) ==
  /\ link' = [link EXCEPT ![c] = l]
  /\ Transmit(c, [epoch |-> l.epoch, seq |-> l.seq, try |-> 1, body |-> body])

\* Mutant of Hang: the exchange stays open.
HangLeavesOpen(c) == reply' = [reply EXCEPT ![c] = None] /\ UNCHANGED waiting

Hang(c) == /\ waiting' = [waiting EXCEPT ![c] = None]
           /\ reply' = [reply EXCEPT ![c] = None]

\* Mutant of Again: seals the message anew, with the next sequence number.
AgainResealed(req) == [req EXCEPT !.try = 2, !.seq = @ + 1]

\* The second attempt sends the identical envelope.
Again(req) == [req EXCEPT !.try = 2]

\* sync_available returns an error or gives the session up.
LoseLink(c) ==
  /\ link' = [link EXCEPT ![c] = None]
  /\ pc' = [pc EXCEPT ![c] = "idle"]

Sending(c) == pc[c] = "sending"
Sent(c)    == waiting[c].body
IsClose(c) == Sending(c) /\ Sent(c).kind = "close"

\* The best-effort MarkIncomplete is over, one way or the other: the next
\* logical stream starts at the upload floor.
NextLogicalStream(c) ==
  /\ suffix' = [suffix EXCEPT ![c] = @ + 1]
  /\ pc' = [pc EXCEPT ![c] = "challenge"]

\* send_message gives up.
MessageFails(c) ==
  /\ Hang(c)
  /\ CASE Sent(c).kind = "mark"  -> NextLogicalStream(c) /\ UNCHANGED link
       [] Sent(c).kind = "close" -> /\ pc' = [pc EXCEPT ![c] = "done"]
                                    /\ UNCHANGED <<link, suffix>>
       [] OTHER                  -> LoseLink(c) /\ UNCHANGED suffix
  /\ UNCHANGED requests

\* One attempt got no usable answer.  Only the Close of close_session_async
\* ignores the stop flag.
AttemptFails(c) ==
  /\ IF waiting[c].try = 1 /\ (~stopping[c] \/ IsClose(c))
     THEN /\ Transmit(c, Again(waiting[c]))
          /\ UNCHANGED <<link, suffix>>
     ELSE MessageFails(c)
  /\ UNCHANGED <<stopping, newest, start, want, seen, epochs, streamVars,
                 recorderVars>>

\* request_stop shuts the socket of a running exchange down, and an exchange the
\* server died with can only time out.
IsDoomed(c) ==
  /\ Sending(c)
  /\ \/ stopping[c] /\ ~IsClose(c)
     \/ waiting[c] \notin requests /\ reply[c] = None

\* A connect error, a timeout or a lost response; it is a fault of its own when
\* the exchange could have succeeded.
ExchangeFails(c) ==
  /\ Sending(c)
  /\ IF IsDoomed(c) THEN UNCHANGED faults ELSE Fault("network")
  /\ AttemptFails(c)

IsUsable(answer) ==
  \/ answer.code = 200
  \/ answer.code = 409 /\ answer.message # None /\ answer.message.status = "gap"

RefusedAttempt(c) ==
  /\ Sending(c) /\ reply[c] # None /\ ~IsUsable(reply[c])
  /\ AttemptFails(c)
  /\ UNCHANGED faults

-----------------------------------------------------------------------------
(* What the thread does with an answer *)

\* Mutant of Advanced: the client's sequence number stands still.
AdvancedNever(c) == link[c]

Advanced(c) == [link[c] EXCEPT !.seq = IF reply[c].code = 200 THEN @ + 1 ELSE @]

GotOpen(c, m) ==
  /\ IF m.status = "ok" /\ m.stream # 0
     THEN /\ link' = [link EXCEPT ![c] = [Advanced(c) EXCEPT !.stream = m.stream,
                                                             !.next = m.next]]
          \* After a gap the same call goes on, with the bounds it had read.
          /\ pc' = [pc EXCEPT ![c] = IF seen[c] = None \/ m.next = seen[c]
                                     THEN "idle" ELSE "read"]
     ELSE LoseLink(c)
  /\ UNCHANGED suffix

GotPcm(c, m) ==
  LET from == Sent(c).start
      to   == Sent(c).start + Sent(c).count IN
  /\ IF \/ m.status = "ok" /\ from < m.next /\ m.next <= to
        \/ m.status = "gap" /\ m.error # "sequence_gap"
     THEN /\ link' = [link EXCEPT ![c] = [Advanced(c) EXCEPT !.next = m.next]]
          /\ pc' = [pc EXCEPT ![c] = "idle"]
     ELSE LoseLink(c)
  /\ UNCHANGED suffix

Receive(c) ==
  /\ Sending(c) /\ reply[c] # None /\ IsUsable(reply[c])
  /\ Hang(c)
  /\ LET m == reply[c].message IN
     \/ Sent(c).kind = "open" /\ GotOpen(c, m)
     \/ Sent(c).kind = "pcm" /\ GotPcm(c, m)
     \/ Sent(c).kind = "mark" /\ NextLogicalStream(c) /\ UNCHANGED link
     \/ /\ Sent(c).kind = "close"
        /\ pc' = [pc EXCEPT ![c] = "done"]
        /\ UNCHANGED <<link, suffix>>
  /\ UNCHANGED <<stopping, newest, start, want, seen, requests, epochs,
                 streamVars, faults, recorderVars>>

-----------------------------------------------------------------------------
(* upload_loop and sync_available *)

IsOn(c) == pc[c] \notin {"off", "done"} /\ ~stopping[c]

\* Enabling or reconfiguring the upload.  nativeConfigureSync stops the client it
\* replaces right after this one has started, and before there is another.
Start(c) ==
  /\ pc[c] = "off"
  /\ \A older \in Client \ {newest} : ~IsOn(older)
  /\ pc' = [pc EXCEPT ![c] = "idle"]
  /\ newest' = c
  /\ start' = [start EXCEPT ![c] = total]
  /\ UNCHANGED <<serverVars, stopping, suffix, link, want, seen, recorderVars,
                 requests>>

\* The client that was replaced is stopped; the newest one is when the switch is
\* turned off.
Stop(c) ==
  /\ IsOn(c)
  /\ c = newest => MayStop /\ \A older \in Client \ {c} : ~IsOn(older)
  /\ stopping' = [stopping EXCEPT ![c] = TRUE]
  /\ UNCHANGED <<serverVars, pc, newest, start, suffix, link, want, seen,
                 recorderVars, requests>>

\* The loop ends: a session that is still there is closed in the background.
Exit(c) ==
  /\ pc[c] = "idle" /\ stopping[c]
  /\ IF link[c] = None
     THEN /\ pc' = [pc EXCEPT ![c] = "done"]
          /\ UNCHANGED <<link, waiting, reply, requests>>
     ELSE Send(c, link[c], [kind |-> "close", from |-> c, stream |-> link[c].stream,
                            final |-> link[c].next])
  /\ UNCHANGED <<stopping, newest, start, suffix, want, seen, epochs,
                 streamVars, faults, recorderVars>>

UploadFloor(c) == Larger(start[c], retained)

Reconnect(c) ==
  /\ pc[c] = "idle" /\ ~stopping[c] /\ link[c] = None
  /\ want' = [want EXCEPT ![c] = UploadFloor(c)]
  /\ seen' = [seen EXCEPT ![c] = None]
  /\ pc' = [pc EXCEPT ![c] = "challenge"]
  /\ UNCHANGED <<serverVars, stopping, newest, start, suffix, link,
                 recorderVars, requests>>

\* An epoch id that no message and no session carries stands for a new one.
FreeEpochs ==
  {e \in Epoch : /\ \A req \in requests : req.epoch # e
                 /\ \A c \in Client : link[c] = None \/ link[c].epoch # e}

\* establish_session: the challenge exchange, then OpenOrResume in its epoch.
Establish(c) ==
  /\ pc[c] = "challenge" /\ ~stopping[c] /\ FreeEpochs # {}
  /\ LET e == CHOOSE e \in FreeEpochs : TRUE IN
     /\ epochs' = [epochs EXCEPT ![e] = FreshEpoch]
     /\ Send(c, [epoch |-> e, seq |-> 0, stream |-> 0, next |-> want[c]],
                [kind |-> "open", from |-> c, key |-> <<c, suffix[c]>>,
                 format |-> CHOOSE f \in Format : TRUE, source |-> want[c]])
  /\ UNCHANGED <<stopping, newest, start, suffix, want, seen, streamVars,
                 faults, recorderVars>>

\* Mutant of ChallengeFails: the stop flag is not looked at.
ChallengeFailsUnstopped(c) ==
  /\ pc[c] = "challenge"
  /\ Fault("network")
  /\ LoseLink(c)
  /\ UNCHANGED <<stopping, newest, start, suffix, want, seen, epochs,
                 streamVars, waiting, reply, recorderVars, requests>>

ChallengeFails(c) ==
  /\ pc[c] = "challenge"
  /\ IF stopping[c] THEN UNCHANGED faults ELSE Fault("network")
  /\ LoseLink(c)
  /\ UNCHANGED <<stopping, newest, start, suffix, want, seen, epochs,
                 streamVars, waiting, reply, recorderVars, requests>>

\* sync_available with a session: the bounds are read again, and either the
\* next sample to send is gone, or there is something to send, or nothing.
\* Mutant of IsCaughtUp: only a position beyond the end counts.
IsBeyondEnd(c) == link[c].next > total

IsCaughtUp(c) == link[c].next = total

LeftRetention(c) == link[c].next < UploadFloor(c) \/ link[c].next > total

Look(c) ==
  /\ pc[c] = "idle" /\ ~stopping[c] /\ link[c] # None
  /\ seen' = [seen EXCEPT ![c] = total]
  /\ \/ /\ LeftRetention(c)
        /\ want' = [want EXCEPT ![c] = UploadFloor(c)]
        /\ Send(c, link[c], [kind |-> "mark", from |-> c, stream |-> link[c].stream])
     \/ /\ ~LeftRetention(c) /\ ~IsCaughtUp(c)
        /\ pc' = [pc EXCEPT ![c] = "read"]
        /\ UNCHANGED <<link, want, waiting, reply, requests>>
  /\ UNCHANGED <<stopping, newest, start, suffix, epochs, streamVars, faults,
                 recorderVars>>

\* read_range_i16 fails when retention has passed the range since Look.
SendChunk(c) ==
  /\ pc[c] = "read"
  /\ IF link[c].next >= retained /\ ~stopping[c]
     THEN Send(c, link[c],
               [kind |-> "pcm", from |-> c, stream |-> link[c].stream, start |-> link[c].next,
                count |-> Smaller(MaxChunk, seen[c] - link[c].next)])
     ELSE LoseLink(c) /\ UNCHANGED <<waiting, reply, requests>>
  /\ UNCHANGED <<stopping, newest, start, suffix, want, seen, epochs,
                 streamVars, faults, recorderVars>>

-----------------------------------------------------------------------------
(* The recorder, the network and the server *)

Record ==
  /\ total < MaxSample
  /\ total' = total + 1
  /\ retained' \in retained..(retained + SaturatingSub(total' - retained, LocalWindow))
  /\ UNCHANGED <<serverVars, clientVars, requests>>

Deliver(req) ==
  /\ requests' = requests \ {req}
  /\ ProcessEnvelope(req) \/ CrashInPush(req) \/ CrashInPersist(req)
  /\ UNCHANGED <<clientVars, recorderVars>>

\* A copy nobody waits for never arrives.
LoseRequest(req) ==
  /\ \A c \in Client : waiting[c] # req
  /\ requests' = requests \ {req}
  /\ UNCHANGED <<serverVars, clientVars, recorderVars>>

Restart ==
  /\ Crash
  /\ UNCHANGED <<clientVars, recorderVars, requests>>

Expire(e) ==
  /\ ExpireEpoch(e)
  /\ UNCHANGED <<clientVars, recorderVars, requests>>

SyncInit ==
  /\ Init
  /\ total = 0 /\ retained = 0
  /\ pc = [c \in Client |-> "off"]
  /\ newest = None
  /\ stopping = [c \in Client |-> FALSE]
  /\ start = [c \in Client |-> 0]
  /\ suffix = [c \in Client |-> 0]
  /\ link = [c \in Client |-> None]
  /\ want = [c \in Client |-> 0]
  /\ seen = [c \in Client |-> None]
  /\ requests = {}

ClientStep(c) ==
  Exit(c) \/ Reconnect(c) \/ Establish(c) \/ Look(c) \/ SendChunk(c)
  \/ Receive(c) \/ RefusedAttempt(c)

SyncNext ==
  \/ \E c \in Client : \/ Start(c) \/ Stop(c) \/ ClientStep(c)
                       \/ ChallengeFails(c) \/ ExchangeFails(c)
  \/ \E req \in requests : Deliver(req) \/ LoseRequest(req)
  \/ \E e \in Epoch : Expire(e)
  \/ Record
  \/ Restart

SyncSpec == SyncInit /\ [][SyncNext]_vars

\* The scheduler runs the threads, every request that is still awaited reaches
\* the server or fails, and a lost copy is lost for good.  Faults are bounded by
\* MaxFaults, so a fair behaviour is one in which the faults have stopped.
Fairness ==
  /\ \A c \in Client : /\ WF_vars(ClientStep(c))
                       /\ WF_vars(\E req \in requests : waiting[c] = req /\ Deliver(req))
                       /\ WF_vars(IsDoomed(c) /\ ExchangeFails(c))
                       /\ WF_vars(stopping[c] /\ ChallengeFails(c))
                       /\ WF_vars(c # newest /\ Stop(c))
  /\ WF_vars(\E req \in requests : LoseRequest(req))

FairSpec == SyncSpec /\ Fairness

-----------------------------------------------------------------------------
(* Safety *)

SyncTypeOK ==
  /\ TypeOK
  /\ total \in Nat /\ retained \in 0..total
  /\ pc \in [Client -> {"off", "idle", "challenge", "sending", "read", "done"}]
  /\ stopping \in [Client -> BOOLEAN]
  /\ newest \in Client \cup {None}
  /\ start \in [Client -> Nat] /\ suffix \in [Client -> Nat] /\ want \in [Client -> Nat]
  /\ link \in [Client -> Link \cup {None}]
  /\ seen \in [Client -> Nat \cup {None}]
  /\ requests \subseteq Request
  /\ \A c \in Client : Sending(c) <=> waiting[c] # None

\* docs/REALTIME_SERVER_SYNC_DESIGN 12.2 (requests that time out and are sent
\* again, reconnects, a server that crashes while it writes): no sample of a
\* recording is in the cache twice, and each uploader's samples are in order.
NoSampleTwice ==
  \A i, j \in 1..Len(cache) :
    i < j /\ cache[i][1] = cache[j][1] => cache[i][2] < cache[j][2]

\* What the server has acknowledged it has: a client never skips a sample the
\* server did not store, whichever copies of its messages were lost or late.
AckedIsStored ==
  \A c \in Client :
    link[c] # None /\ link[c].stream # 0 =>
      /\ link[c].stream \in DOMAIN sessions
      /\ sessions[link[c].stream].key[1] = c
      /\ link[c].next <= ResumeSample(sessions[link[c].stream])

\* Every sample that was acknowledged is stored, and none is stored twice.
StoredOnce == AckedIsStored /\ NoSampleTwice

\* docs/REALTIME_SERVER_SYNC_DESIGN 5.6, "persist the result, then return the
\* encrypted ACK": a stream a client was told about is in upload-sessions.json,
\* where a restarted server finds it.
AckedStreamsAreSaved ==
  \A c \in Client :
    link[c] # None /\ link[c].stream # 0 =>
      savedSessions # None /\ link[c].stream \in DOMAIN savedSessions

\* Client and server agree on the sequence number up to the one message that
\* may be under way, so no envelope of a correct client ever meets the
\* sequence-gap branch of process_envelope.
SequencesInStep ==
  /\ \A c \in Client :
       link[c] # None /\ epochs[link[c].epoch].live =>
         epochs[link[c].epoch].expected \in {link[c].seq, link[c].seq + 1}
  /\ \A req \in requests :
       epochs[req.epoch].live => req.seq <= epochs[req.epoch].expected

\* sync_available subtracts the position from the total it has read (end -
\* start): it never does so with a position beyond that total, also when it
\* goes on with old bounds after a gap.
ChunkIsNotEmpty ==
  \A c \in Client : pc[c] = "read" => link[c].next < seen[c]

\* docs 6.1: turning the upload on never reaches back to what was recorded
\* before, whatever the server asks to be sent again.
NoHistoryUploaded ==
  \A i \in 1..Len(cache) : cache[i][2] >= start[cache[i][1]]

\* What a client sends lies between where it was turned on and what it has read.
SendsWhatIsNew == ChunkIsNotEmpty /\ NoHistoryUploaded

\* The upload implements the log of UploadLog: the active stream is its writer.
Writer ==
  IF active = None THEN None
  ELSE [client |-> sessions[active].key[1], next |-> ExpectedSample(sessions[active])]

Log == INSTANCE UploadLog WITH log <- cache, writer <- Writer
ImplementsLog == Log!LogSpec

\* A stream closed as complete ends exactly where its last sample is: a late
\* Close of a stopped thread never takes in what a newer upload appended.
CompleteStreamsAreWhole ==
  \A i \in DOMAIN sessions :
    LET s == sessions[i] IN
    s.closed /\ ~s.incomplete =>
      \A n \in (s.start + 1)..s.end :
        cache[origin + n] = <<s.key[1], s.source + (n - s.start - 1)>>

\* The position a server offers for an open stream never moves back, restarts
\* included.
PositionsNeverRewind ==
  [][\A i \in DOMAIN sessions \cap DOMAIN sessions' :
       IsOpen(sessions[i]) =>
         ResumeSample(sessions[i])' >= ResumeSample(sessions[i])]_vars

\* A stream that was closed as complete is settled: nothing reopens it, marks
\* it or moves its end.
CompleteStreamsStay ==
  [][\A i \in DOMAIN sessions :
       sessions[i].closed /\ ~sessions[i].incomplete =>
         i \in DOMAIN sessions' /\ sessions'[i] = sessions[i]]_vars

(* Liveness, for FairSpec *)

InCache(c, n) == \E i \in 1..Len(cache) : cache[i] = <<c, n>>

\* docs 6.1: after a network failure the upload catches up with everything
\* recorded since it was turned on that the recorder still retains.
UploadCatchesUp ==
  \A c \in Client : \A n \in 0..(MaxSample - 1) :
    pc[c] # "off" /\ start[c] <= n /\ n < total
      ~> stopping[c] \/ retained > n \/ InCache(c, n)

\* Turning the upload off ends its thread, whatever it was waiting for.
StopEndsTheThread ==
  \A c \in Client : stopping[c] ~> pc[c] = "done"

=============================================================================
