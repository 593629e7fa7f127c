---------------------------- MODULE UploadServer ----------------------------
(***************************************************************************)
(* The upload side of echoclip_server: the epoch layer of                  *)
(* process_envelope and the StreamManager it calls.  One message is        *)
(* processed at a time: an epoch's mutex orders the envelopes of an epoch  *)
(* and open_lock orders the handlers, so an action is one whole request.   *)
(*                                                                         *)
(* The single global cache is the sequence of samples ever appended to     *)
(* it; a sample is the pair of the uploader it came from and its position  *)
(* in that uploader's recording.  Retention takes samples from the front   *)
(* of the cache files ("dropped") and a restart renumbers what is left     *)
(* from zero ("origin"), as SegmentedRecorder::recover_latest_or_start     *)
(* does.                                                                   *)
(*                                                                         *)
(* The recorder answers with what it has counted ("counted", the manifest's *)
(* total_samples_written).  As long as every write succeeds that is what   *)
(* the files hold.  A failed write or flush of PCM leaves counted samples  *)
(* in the BufWriter ("unflushed", at the end of the cache) or drops them   *)
(* with it, or leaves samples in a file that were never counted.           *)
(*                                                                         *)
(* The environment decides when requests arrive: Next lets any message of  *)
(* Body arrive at any time, and UploadSync composes this module with the   *)
(* real client and its network.                                            *)
(***************************************************************************)
EXTENDS Integers, Sequences

CONSTANTS
  Client,       \* uploaders: one activation of the upload switch each
  Epoch,        \* challenge-issued epoch ids
  Format,       \* audio formats an open request may validly name
  Body,         \* messages the free environment of this module may send
  MaxSequence,  \* bound: highest sequence number the free environment uses
  CacheWindow,  \* samples the server's retention window never gives up
  FaultKind,    \* fault classes that may happen (see FaultKinds)
  MaxFaults,    \* bound: number of faults in a behaviour
  None

(* "crash": the process dies between requests or while appending PCM;      *)
(* "torn": it dies inside persist_json_atomic, after remove_file and       *)
(* before rename; "persist": writing cache.json or upload-sessions.json    *)
(* fails; "storage": the recorder cannot create a segment file or write    *)
(* its manifest; "pcm": a write or flush of PCM fails, or something before *)
(* the flush; "expire": an epoch outlives its time; "network": an exchange *)
(* fails (used by UploadSync).                                             *)
FaultKinds == {"crash", "torn", "persist", "storage", "pcm", "expire", "network"}

ClientKey == Client \X Nat

Message ==
  [kind : {"probe"}, from : Client]
  \cup [kind : {"open"}, from : Client, key : ClientKey,
        format : Format \cup {"invalid"}, source : Nat]
  \cup [kind : {"pcm"}, from : Client, stream : Nat, start : Nat, count : Nat]
  \cup [kind : {"close"}, from : Client, stream : Nat, final : Nat]
  \cup [kind : {"mark"}, from : Client, stream : Nat]

Request == [epoch : Epoch, seq : Nat, try : {1, 2}, body : Message]

ASSUME ServerConstants ==
  /\ Body \subseteq Message
  /\ MaxSequence \in Nat /\ CacheWindow \in Nat /\ MaxFaults \in Nat
  /\ FaultKind \subseteq FaultKinds
  /\ "invalid" \notin Format /\ None \notin Format
  /\ None \notin Nat /\ None \notin Request

VARIABLES
  epochs,         \* EpochMap
  sessions,       \* upload_sessions, by server stream id
  issued,         \* server stream ids handed out: random ids never repeat
  active,         \* active_server_stream_id
  format,         \* audio of the cache metadata, None while there is no cache
  cache,          \* every sample in the PCM files and then in the BufWriter, oldest first
  dropped,        \* how many of them retention has deleted
  origin,         \* how many of them sample numbers no longer count
  counted,        \* total_samples_written of the recorder
  unflushed,      \* how many samples at the end of cache are in no file yet
  savedFormat,    \* cache.json
  savedSessions,  \* upload-sessions.json
  waiting,        \* per client: the request whose HTTP exchange is open
  reply,          \* per client: what came back on that exchange
  faults          \* faults so far

cacheVars  == <<format, cache, dropped, origin, counted, unflushed>>
streamVars == <<sessions, issued, active, cacheVars, savedFormat, savedSessions>>
serverVars == <<epochs, streamVars, waiting, reply, faults>>

NoSessions == [i \in {} |-> None]
IsOpen(s)  == ~s.closed /\ ~s.incomplete

Fault(kind) ==
  /\ kind \in FaultKind
  /\ faults < MaxFaults
  /\ faults' = faults + 1

-----------------------------------------------------------------------------
(* Positions *)

SaturatingSub(a, b) == IF a > b THEN a - b ELSE 0
Larger(a, b)  == IF a > b THEN a ELSE b
Smaller(a, b) == IF a < b THEN a ELSE b

\* The client position that follows the samples a session holds, if the
\* session ends at cache sample "end".
Position(s, end) == s.source + SaturatingSub(end, s.start)

ExpectedSample(s) == Position(s, counted)
ResumeSample(s)   == Position(s, IF s.end = None THEN counted ELSE s.end)

Samples(client, start, count) ==
  [i \in 1..count |-> <<client, start + i - 1>>]

\* Mutant of Retain: takes what is already dropped for retained.
RetainForgets == dropped' \in dropped..(dropped + SaturatingSub(Len(cache'), CacheWindow))

\* Retention deletes whole expired segments, by the counts of the manifest, and never
\* the one being written.  Where segment boundaries fall is left open: anything older
\* than the window may go.
Retain ==
  LET end == Larger(Len(cache'), origin' + counted') - CacheWindow IN
  dropped' \in
    dropped..(dropped + SaturatingSub(Smaller(end, Len(cache') - unflushed'), dropped))

-----------------------------------------------------------------------------
(* Responses *)

ErrorCode ==
  {"", "cache_format_changed", "core_flush_failed", "core_start_failed",
   "final_sample_mismatch", "invalid_pcm_alignment", "invalid_stream_config", "metadata_write_failed",
   "sample_gap", "sequence_gap", "storage_write_failed", "stream_closed",
   "stream_format_changed", "stream_incomplete", "stream_not_active",
   "stream_not_found", "stream_source_changed"}

Response ==
  [status : {"ok", "rejected", "gap"}, stream : Nat, next : Nat, error : ErrorCode]

Ok(stream, next)   == [status |-> "ok", stream |-> stream, next |-> next, error |-> ""]
Rejected(error)    == [status |-> "rejected", stream |-> 0, next |-> 0, error |-> error]
Gap(stream, next, error) ==
  [status |-> "gap", stream |-> stream, next |-> next, error |-> error]

\* An HTTP response reaches a client that still listens to this very exchange;
\* otherwise its connection is gone and the response is lost.
Answer(req, code, message) ==
  reply' = [c \in Client |-> IF waiting[c] = req
                             THEN [code |-> code, message |-> message]
                             ELSE reply[c]]

\* The end of process_envelope: the sequence number is consumed, and the
\* request and its sealed response are kept for an identical retry.
Respond(req, message) ==
  /\ Answer(req, 200, message)
  /\ epochs' = [epochs EXCEPT ![req.epoch] =
                  [live |-> TRUE, expected |-> @.expected + 1,
                   last |-> [seq |-> req.seq, body |-> req.body], answer |-> message]]

-----------------------------------------------------------------------------
(* StreamManager: one action per message *)

\* Mutant of SaveSessions: writes the map as it was before the change.
SaveSessionsEarly(req, message) ==
  /\ savedSessions' = sessions
  /\ Respond(req, message)
  /\ UNCHANGED faults

\* Mutant of SaveSessions: adds the new session but not what it did to the others.
SaveSessionsNewOnly(req, message) ==
  /\ savedSessions' = [i \in DOMAIN sessions' |->
                         IF i \in DOMAIN sessions THEN sessions[i] ELSE sessions'[i]]
  /\ Respond(req, message)
  /\ UNCHANGED faults

\* persist_upload_sessions, together with the response it leads to.  A rename that
\* fails does so after the old file was removed.
SaveSessions(req, message) ==
  \/ /\ savedSessions' = sessions'
     /\ Respond(req, message)
     /\ UNCHANGED faults
  \/ /\ Fault("persist")
     /\ savedSessions' \in {savedSessions, None}
     /\ Respond(req, Rejected("metadata_write_failed"))

KnownStreams(key) == {i \in DOMAIN sessions : sessions[i].key = key}

Resume(req, i) ==
  LET s == sessions[i] IN
  /\ Respond(req, CASE format # req.body.format     -> Rejected("stream_format_changed")
                    [] s.source # req.body.source   -> Rejected("stream_source_changed")
                    [] s.incomplete                 -> Rejected("stream_incomplete")
                    [] OTHER                        -> Ok(i, ResumeSample(s)))
  /\ UNCHANGED <<streamVars, faults>>

NewSession(body) ==
  [key |-> body.key, source |-> body.source, start |-> counted, end |-> None,
   closed |-> FALSE, incomplete |-> FALSE]

\* A session another logical stream has taken over from.
CutOff(s) == [s EXCEPT !.closed = TRUE, !.incomplete = TRUE, !.end = counted]

\* Mutants of WithNewSession: every older stream is cut off; the new stream
\* starts at the beginning of the cache.
CutsEveryone(body, id) ==
  [i \in DOMAIN sessions \cup {id} |->
     IF i = id THEN NewSession(body) ELSE CutOff(sessions[i])]
StartsAtZero(body, id) ==
  [i \in DOMAIN sessions \cup {id} |->
     CASE i = id     -> [NewSession(body) EXCEPT !.start = 0]
       [] i = active -> CutOff(sessions[i])
       [] OTHER      -> sessions[i]]

\* The session of the new logical stream; whoever was active is cut off here.
WithNewSession(body, id) ==
  [i \in DOMAIN sessions \cup {id} |->
     CASE i = id     -> NewSession(body)
       [] i = active -> CutOff(sessions[i])
       [] OTHER      -> sessions[i]]

CanCreate(body) == KnownStreams(body.key) = {} /\ format \in {None, body.format}

\* cache.json is written by create_cache, and again once the session is entered; when
\* that second write fails upload-sessions.json is not written at all.
CreateStream(req) ==
  LET id == issued + 1 IN
  /\ CanCreate(req.body)
  /\ sessions' = WithNewSession(req.body, id)
  /\ issued' = id
  /\ active' = id
  /\ format' = req.body.format
  /\ \/ /\ savedFormat' = req.body.format
        /\ SaveSessions(req, Ok(id, req.body.source))
     \/ /\ Fault("persist")
        /\ savedFormat' \in {IF format = None THEN req.body.format ELSE savedFormat, None}
        /\ Respond(req, Rejected("metadata_write_failed"))
        /\ UNCHANGED savedSessions
  /\ UNCHANGED <<cache, dropped, origin, counted, unflushed>>

\* create_cache cannot write cache.json, or has written it and cannot start the
\* recorder.
CreateCacheFails(req) ==
  /\ CanCreate(req.body) /\ format = None
  /\ Fault("persist")
  /\ savedFormat' \in {savedFormat, None, req.body.format}
  /\ Respond(req, Rejected("core_start_failed"))
  /\ UNCHANGED <<sessions, issued, active, cacheVars, savedSessions>>

OpenOrResume(req) ==
  LET body == req.body IN
  /\ body.kind = "open"
  /\ \/ /\ body.format \notin Format
        /\ Respond(req, Rejected("invalid_stream_config"))
        /\ UNCHANGED <<streamVars, faults>>
     \/ /\ body.format \in Format
        /\ \/ \E i \in KnownStreams(body.key) : Resume(req, i)
           \/ CreateStream(req)
           \/ CreateCacheFails(req)
           \/ /\ KnownStreams(body.key) = {} /\ format \notin {None, body.format}
              /\ Respond(req, Rejected("cache_format_changed"))
              /\ UNCHANGED <<streamVars, faults>>

\* Mutant of PcmError: any stream that exists may append.
PcmErrorUnowned(body) ==
  CASE body.stream \notin DOMAIN sessions -> "stream_not_found"
    [] body.count = 0                     -> "invalid_pcm_alignment"
    [] OTHER                              -> ""

PcmError(body) ==
  CASE active # body.stream                 -> "stream_not_active"
    [] body.stream \notin DOMAIN sessions   -> "stream_not_found"
    [] ~IsOpen(sessions[body.stream])       -> "stream_closed"
    [] body.count = 0                       -> "invalid_pcm_alignment"
    [] OTHER                                -> ""

\* Mutant of InPlace: a chunk is appended wherever it begins.
Anywhere(body) == TRUE

InPlace(body) == body.start = ExpectedSample(sessions[body.stream])

Chunk(body, count) == Samples(body.from, body.start, count)

\* push_samples and flush: the whole chunk is counted and in the files.
AppendChunk(body) ==
  /\ cache' = cache \o Chunk(body, body.count)
  /\ counted' = counted + body.count
  /\ unflushed' = 0
  /\ Retain

\* A segment file cannot be created, or the manifest not be written after the PCM was
\* flushed: the chunk is stored up to a segment boundary, and what is counted is stored.
AppendPart(body) ==
  \E count \in 0..body.count :
    /\ count = 0 => unflushed = 0
    /\ cache' = cache \o Chunk(body, count)
    /\ counted' = counted + count
    /\ unflushed' = 0
    /\ IF count = body.count THEN Retain ELSE UNCHANGED dropped

\* The chunk is counted; then retention or the manifest that is due fails before the
\* flush, or the flush itself does: its end is only in the BufWriter.
LeaveUnflushed(body) ==
  /\ cache' = cache \o Chunk(body, body.count)
  /\ counted' = counted + body.count
  /\ unflushed' \in 0..(unflushed + body.count)
  /\ Retain

\* "count" samples are counted when a write fails, but the files end elsewhere: a
\* write_all that failed midway has left samples nobody counts, and a segment whose
\* last flush failed was dropped with counted samples in its BufWriter.
Miscount(body) ==
  \E count \in 0..body.count :
  \E length \in (Len(cache) - unflushed)..(Len(cache) + body.count) :
    /\ count = 0 => length >= Len(cache)
    /\ count < body.count => length < Len(cache) + body.count
    /\ cache' = SubSeq(cache \o Chunk(body, body.count), 1, length)
    /\ counted' = counted + count
    /\ unflushed' = 0
    /\ UNCHANGED dropped

\* What an earlier failure has left in the BufWriter cannot be written now either.
StayUnflushed ==
  /\ unflushed' \in 1..unflushed
  /\ UNCHANGED <<cache, counted, dropped>>

PushPcm(req) ==
  LET body == req.body IN
  /\ body.kind = "pcm"
  /\ \/ /\ PcmError(body) # ""
        /\ Respond(req, Rejected(PcmError(body)))
        /\ UNCHANGED <<streamVars, faults>>
     \/ /\ PcmError(body) = ""
        /\ ~InPlace(body)
        /\ Respond(req, Gap(body.stream, ExpectedSample(sessions[body.stream]), "sample_gap"))
        /\ UNCHANGED <<streamVars, faults>>
     \/ /\ PcmError(body) = "" /\ InPlace(body)
        /\ UNCHANGED <<sessions, issued, active, format, origin, savedFormat, savedSessions>>
        /\ \/ /\ AppendChunk(body)
              /\ Respond(req, Ok(body.stream, body.start + body.count))
              /\ UNCHANGED faults
           \/ /\ \/ Fault("storage") /\ AppendPart(body)
                 \/ Fault("pcm") /\ (LeaveUnflushed(body) \/ Miscount(body) \/ StayUnflushed)
              /\ Respond(req, Rejected("storage_write_failed"))

\* What close_stream and mark_incomplete write on a session that ends now.
EndSession(stream, isIncomplete) ==
  /\ sessions' = [sessions EXCEPT ![stream].closed = TRUE,
                                  ![stream].incomplete = @ \/ isIncomplete,
                                  ![stream].end = counted]
  /\ active' = IF active = stream THEN None ELSE active
  /\ UNCHANGED <<issued, format, cache, dropped, origin, counted, savedFormat>>

\* recorder.flush() fails, with the PCM or with the manifest.
FlushFails ==
  /\ \/ Fault("storage") /\ unflushed' = 0
     \/ Fault("pcm") /\ unflushed' \in 1..unflushed
  /\ UNCHANGED <<sessions, issued, active, format, cache, dropped, origin, counted,
                 savedFormat, savedSessions>>

CloseStream(req) ==
  LET body == req.body IN
  /\ body.kind = "close"
  /\ \/ /\ body.stream \notin DOMAIN sessions
        /\ Respond(req, Rejected("stream_not_found"))
        /\ UNCHANGED <<streamVars, faults>>
     \/ /\ body.stream \in DOMAIN sessions
        /\ body.final # ExpectedSample(sessions[body.stream])
        /\ Respond(req, Gap(body.stream, ExpectedSample(sessions[body.stream]),
                            "final_sample_mismatch"))
        /\ UNCHANGED <<streamVars, faults>>
     \/ /\ body.stream \in DOMAIN sessions
        /\ body.final = ExpectedSample(sessions[body.stream])
        /\ \/ /\ FlushFails
              /\ Respond(req, Rejected("core_flush_failed"))
           \/ /\ unflushed' = 0
              /\ EndSession(body.stream, FALSE)
              /\ SaveSessions(req, Ok(body.stream, body.final))

MarkIncomplete(req) ==
  LET body == req.body IN
  /\ body.kind = "mark"
  /\ \/ /\ body.stream \notin DOMAIN sessions
        /\ Respond(req, Rejected("stream_not_found"))
        /\ UNCHANGED <<streamVars, faults>>
     \/ /\ body.stream \in DOMAIN sessions
        /\ EndSession(body.stream, TRUE)
        /\ UNCHANGED unflushed
        /\ SaveSessions(req, Ok(body.stream, ExpectedSample(sessions[body.stream])))

Probe(req) ==
  /\ req.body.kind = "probe"
  /\ Respond(req, Ok(0, 0))
  /\ UNCHANGED <<streamVars, faults>>

-----------------------------------------------------------------------------
(* The epoch layer *)

IdleEpoch  == [live |-> FALSE, expected |-> 0, last |-> None, answer |-> None]
FreshEpoch == [IdleEpoch EXCEPT !.live = TRUE]

\* Epoch ids are random and never issued twice.  An id of this module stands for
\* a new one each time it is issued.
Challenge(e) ==
  /\ epochs' = [epochs EXCEPT ![e] = FreshEpoch]
  /\ UNCHANGED <<streamVars, waiting, reply, faults>>

\* challenge_ttl_seconds or epoch_idle_seconds have passed: from here on the
\* epoch only gets 401s, until a later challenge sweeps it from the map.
ExpireEpoch(e) ==
  /\ epochs[e].live
  /\ Fault("expire")
  /\ epochs' = [epochs EXCEPT ![e].live = FALSE]
  /\ UNCHANGED <<streamVars, waiting, reply>>

IsRetry(req) ==
  /\ req.seq < epochs[req.epoch].expected
  /\ epochs[req.epoch].last = [seq |-> req.seq, body |-> req.body]

\* next_sample_for: where the stream a message names stands.
SequenceGap(body) ==
  IF body.kind \in {"pcm", "close", "mark"} /\ body.stream \in DOMAIN sessions
  THEN Gap(body.stream, ResumeSample(sessions[body.stream]), "sequence_gap")
  ELSE Gap(0, 0, "sequence_gap")

IsNext(req) == epochs[req.epoch].live /\ req.seq = epochs[req.epoch].expected

Handle(req) ==
  OpenOrResume(req) \/ PushPcm(req) \/ CloseStream(req) \/ MarkIncomplete(req) \/ Probe(req)

\* Everything process_envelope can do with an envelope.
ProcessEnvelope(req) ==
  LET e == epochs[req.epoch] IN
  /\ \/ /\ ~e.live
        /\ Answer(req, 401, None)
        /\ UNCHANGED <<epochs, streamVars, faults>>
     \/ /\ e.live /\ IsRetry(req)
        /\ Answer(req, 200, e.answer)
        /\ UNCHANGED <<epochs, streamVars, faults>>
     \/ /\ e.live /\ ~IsRetry(req) /\ req.seq < e.expected
        /\ Answer(req, 409, None)
        /\ UNCHANGED <<epochs, streamVars, faults>>
     \/ /\ e.live /\ req.seq > e.expected
        /\ Answer(req, 409, SequenceGap(req.body))
        /\ UNCHANGED <<epochs, streamVars, faults>>
     \/ IsNext(req) /\ Handle(req)
  /\ UNCHANGED waiting

-----------------------------------------------------------------------------
(* Crash and restart *)

\* StreamManager::open on what the files hold.  Epochs live in memory only.
Reload(files, log) ==
  /\ savedSessions' = files.sessions
  /\ savedFormat' = files.format
  /\ format' = files.format
  /\ sessions' = IF files.format = None \/ files.sessions = None
                 THEN NoSessions ELSE files.sessions
  /\ active' = LET open == {i \in DOMAIN sessions' : IsOpen(sessions'[i])} IN
               IF open = {} THEN None
               ELSE CHOOSE i \in open : \A j \in open : j <= i
  /\ cache' = log
  /\ origin' = dropped
  /\ counted' = Len(log) - dropped
  /\ unflushed' = 0
  /\ Retain
  /\ epochs' = [e \in Epoch |-> IdleEpoch]
  /\ UNCHANGED <<issued, waiting, reply>>

\* Mutant of Files: upload-sessions.json is written but not read again.
FilesWithoutSessions == [sessions |-> None, format |-> savedFormat]

Files == [sessions |-> savedSessions, format |-> savedFormat]

\* Mutant of Crash: recovery gives up the last sample of the cache.
CrashLosesTail ==
  /\ Fault("crash")
  /\ Reload(Files, SubSeq(cache, 1, SaturatingSub(Len(cache), 1)))

\* What is left of the cache when the last samples never reached a file.
Without(lost) == SubSeq(cache, 1, Len(cache) - lost)

\* The process dies.  What is in the BufWriter is lost unless the process could still
\* drop it, or an export has flushed it in the meantime.
Crash ==
  /\ Fault("crash")
  /\ \E lost \in 0..unflushed : Reload(Files, Without(lost))

\* The process dies while it appends PCM: some of the chunk is on disk.
CrashInPush(req) ==
  LET body == req.body IN
  /\ IsNext(req) /\ body.kind = "pcm"
  /\ PcmError(body) = "" /\ InPlace(body)
  /\ Fault("crash")
  /\ \E length \in (Len(cache) - unflushed)..(Len(cache) + body.count) :
       Reload(Files, SubSeq(cache \o Chunk(body, body.count), 1, length))

WritesSessions(body) ==
  CASE body.kind = "open"  -> body.format \in Format /\ CanCreate(body)
    [] body.kind = "close" -> /\ body.stream \in DOMAIN sessions
                              /\ body.final = ExpectedSample(sessions[body.stream])
    [] body.kind = "mark"  -> body.stream \in DOMAIN sessions
    [] OTHER               -> FALSE

\* The process dies inside persist_json_atomic, where the old file is gone and
\* the new one not yet in its place.  Only close_stream has flushed before.
CrashInPersist(req) ==
  /\ IsNext(req) /\ WritesSessions(req.body)
  /\ Fault("torn")
  /\ \E lost \in 0..(IF req.body.kind = "close" THEN 0 ELSE unflushed) :
       \/ Reload([Files EXCEPT !.sessions = None,
                               !.format = IF req.body.kind = "open"
                                          THEN req.body.format ELSE @], Without(lost))
       \/ /\ req.body.kind = "open"
          /\ Reload([Files EXCEPT !.format = None], Without(lost))

-----------------------------------------------------------------------------
(* The server with an environment that may send anything *)

Init ==
  /\ epochs = [e \in Epoch |-> IdleEpoch]
  /\ sessions = NoSessions /\ savedSessions = None
  /\ issued = 0
  /\ active = None
  /\ format = None /\ savedFormat = None
  /\ cache = <<>> /\ dropped = 0 /\ origin = 0 /\ counted = 0 /\ unflushed = 0
  /\ waiting = [c \in Client |-> None]
  /\ reply = [c \in Client |-> None]
  /\ faults = 0

Arrivals == [epoch : Epoch, seq : 0..MaxSequence, try : {1}, body : Body]

Next ==
  \/ \E e \in Epoch : Challenge(e) \/ ExpireEpoch(e)
  \/ \E req \in Arrivals : ProcessEnvelope(req) \/ CrashInPush(req) \/ CrashInPersist(req)
  \/ Crash

Spec == Init /\ [][Next]_serverVars

-----------------------------------------------------------------------------
(* Properties *)

Session == [key : ClientKey, source : Nat, start : Nat, end : Nat \cup {None},
            closed : BOOLEAN, incomplete : BOOLEAN]

IsSessionMap(m) == DOMAIN m \subseteq 1..issued /\ \A i \in DOMAIN m : m[i] \in Session

EpochState ==
  [live : BOOLEAN, expected : Nat, last : [seq : Nat, body : Message] \cup {None},
   answer : Response \cup {None}]

ExchangesTypeOK ==
  /\ epochs \in [Epoch -> EpochState]
  /\ waiting \in [Client -> Request \cup {None}]
  /\ reply \in [Client -> [code : Nat, message : Response \cup {None}] \cup {None}]
  /\ faults \in Nat

SessionsTypeOK ==
  /\ issued \in Nat
  /\ IsSessionMap(sessions)
  /\ savedSessions = None \/ IsSessionMap(savedSessions)
  /\ active = None \/ active \in DOMAIN sessions
  /\ format \in Format \cup {None} /\ savedFormat \in Format \cup {None}

CacheTypeOK ==
  /\ cache \in Seq(Client \X Nat)
  /\ origin \in Nat /\ dropped \in Nat /\ counted \in Nat /\ unflushed \in Nat
  /\ origin <= dropped /\ dropped <= Len(cache) - unflushed

\* Every variable has its type, and the numbers that relate prefixes of the
\* cache are ordered.
TypeOK == ExchangesTypeOK /\ SessionsTypeOK /\ CacheTypeOK

\* The single-writer rule of the global cache (docs/REALTIME_SERVER_SYNC_DESIGN
\* 6.2, StreamManager::open_or_resume): whatever is sent, retried, lost in a
\* crash or not persisted, the active stream is the one open session.
OneOpenSession ==
  /\ \A i \in DOMAIN sessions : IsOpen(sessions[i]) => active = i
  /\ active # None => IsOpen(sessions[active])

\* load_cache must not have to choose: the persisted map never holds two open
\* sessions, whichever write was the last to reach the disk.
OneOpenSessionOnDisk ==
  savedSessions # None =>
    \A i, j \in DOMAIN savedSessions :
      IsOpen(savedSessions[i]) /\ IsOpen(savedSessions[j]) => i = j

\* One writer, whether one asks the running server or the one that would be started
\* on its files.
SingleWriters == OneOpenSession /\ OneOpenSessionOnDisk

\* The cache samples a stream was given: from where it began to where the next
\* stream begins, or to the end.
NextStart(i) ==
  LET later == {j \in DOMAIN sessions : j > i} IN
  IF later = {} THEN counted
  ELSE sessions[CHOOSE j \in later : \A k \in later : j <= k].start

\* The part of the cache a stream was given is that stream's recording from its
\* source position on, with no sample missing, doubled or out of order, whatever
\* was retried, delayed, stored up to a segment boundary or interrupted by a crash
\* (push_pcm's position check against what recovery found on disk).
StreamsAreContiguous ==
  \A i \in DOMAIN sessions :
    LET s == sessions[i] IN
    \A n \in (s.start + 1)..NextStart(i) :
      cache[origin + n][2] = s.source + (n - s.start - 1)

=============================================================================
