------------------------ MODULE UploadServer_proofs -------------------------
(***************************************************************************)
(* The single-writer rule of the server's global cache, for any number of  *)
(* clients, epochs, formats, faults and sequence numbers.                  *)
(***************************************************************************)
EXTENDS UploadServer, SequenceTheorems, WellFoundedInduction, TLAPS

USE DEF cacheVars, streamVars, serverVars

(* The inductive invariant.  OneOpenSession alone is not inductive: what a  *)
(* restart makes of the files needs OneOpenSessionOnDisk, and the new       *)
(* stream's id is only new because every known id is at most "issued".      *)
Inv == TypeOK /\ OneOpenSession /\ OneOpenSessionOnDisk

-----------------------------------------------------------------------------
(* Positions and sequences *)

\* saturating_sub on positions stays in Nat, and adding the result back gives the
\* larger of the two.
LEMMA SaturatingSubType ==
  ASSUME NEW a \in Int, NEW b \in Nat
  PROVE  /\ a \in Nat => SaturatingSub(a, b) \in Nat
         /\ SaturatingSub(a, b) >= 0 /\ SaturatingSub(a, b) \in Int
         /\ a >= b => b + SaturatingSub(a, b) = a
         /\ a < b => b + SaturatingSub(a, b) = b
BY DEF SaturatingSub

\* The samples of a PcmChunk are a sequence of as many samples as it declares.
LEMMA SamplesType ==
  ASSUME NEW c \in Client, NEW from \in Nat, NEW count \in Nat
  PROVE  /\ Samples(c, from, count) \in Seq(Client \X Nat)
         /\ Len(Samples(c, from, count)) = count
<1> DEFINE f == [i \in 1..count |-> <<c, from + i - 1>>]
<1>1. f \in [1..count -> Client \X Nat]
  OBVIOUS
<1>2. f \in Seq(Client \X Nat)
  BY <1>1, SeqDef
<1>3. Len(f) = count
  BY <1>2, LenProperties, <1>1
<1> QED
  BY <1>2, <1>3 DEF Samples

\* Appending a chunk to the global cache makes it longer by exactly the chunk.
LEMMA AppendedType ==
  ASSUME CacheTypeOK, NEW c \in Client, NEW from \in Nat, NEW count \in Nat
  PROVE  /\ cache \o Samples(c, from, count) \in Seq(Client \X Nat)
         /\ Len(cache \o Samples(c, from, count)) = Len(cache) + count
<1>1. cache \in Seq(Client \X Nat)
  BY DEF CacheTypeOK
<1>2. /\ Samples(c, from, count) \in Seq(Client \X Nat)
      /\ Len(Samples(c, from, count)) = count
  BY SamplesType
<1> QED
  BY <1>1, <1>2, ConcatProperties

\* A prefix of the cache, or of the cache with a chunk behind it, is a log again.
LEMMA PrefixType ==
  ASSUME NEW log \in Seq(Client \X Nat), NEW length \in Nat, length <= Len(log)
  PROVE  SubSeq(log, 1, length) \in Seq(Client \X Nat) /\ Len(SubSeq(log, 1, length)) = length
<1>1. Len(log) \in Nat
  BY LenProperties
<1>2. CASE length = 0
  BY <1>1, <1>2, SubSeqProperties, EmptySeq
<1>3. CASE length # 0
  BY <1>1, <1>3, SubSeqProperties
<1> QED
  BY <1>2, <1>3

\* Retention never reaches what is not in a file yet and never goes back.
LEMMA RetainType ==
  ASSUME ServerConstants, CacheTypeOK, cache' \in Seq(Client \X Nat),
         origin' \in Nat, counted' \in Nat, unflushed' \in Nat,
         dropped <= Len(cache') - unflushed', Retain
  PROVE  dropped' \in Nat /\ dropped <= dropped' /\ dropped' <= Len(cache') - unflushed'
<1>1. Len(cache') \in Nat /\ dropped \in Nat
  BY LenProperties DEF CacheTypeOK
<1> DEFINE end == Larger(Len(cache'), origin' + counted') - CacheWindow
           most == Smaller(end, Len(cache') - unflushed')
<1>2. end \in Int
  BY <1>1 DEF ServerConstants, Larger
<1>3. most \in Int /\ most <= Len(cache') - unflushed'
  BY <1>1, <1>2 DEF Smaller
<1>4. dropped' \in dropped..(dropped + SaturatingSub(most, dropped))
  BY DEF Retain
<1> HIDE DEF end, most
<1> QED
  BY <1>1, <1>3, <1>4 DEF SaturatingSub

\* The positions the server computes for a session (next_sample_for) are naturals.
LEMMA PositionTypes ==
  ASSUME CacheTypeOK, NEW s \in Session
  PROVE  counted \in Nat /\ ExpectedSample(s) \in Nat /\ ResumeSample(s) \in Nat
<1>1. counted \in Nat
  BY DEF CacheTypeOK
<1>2. \A end \in Nat : Position(s, end) \in Nat
  BY DEF Session, Position, SaturatingSub
<1>3. (IF s.end = None THEN counted ELSE s.end) \in Nat
  BY <1>1 DEF Session
<1> QED
  BY <1>1, <1>2, <1>3 DEF ExpectedSample, ResumeSample

-----------------------------------------------------------------------------
(* Responses *)

\* The three shapes of answer the handlers build are responses.
LEMMA ResponseTypes ==
  ASSUME NEW stream \in Nat, NEW next \in Nat, NEW error \in ErrorCode
  PROVE  /\ Ok(stream, next) \in Response
         /\ Rejected(error) \in Response
         /\ Gap(stream, next, error) \in Response
<1>1. Ok(stream, next) \in Response
  BY DEF Ok, Response, ErrorCode
<1>2. Rejected(error) \in Response
  BY DEF Rejected, Response
<1>3. Gap(stream, next, error) \in Response
  BY DEF Gap, Response
<1> QED
  BY <1>1, <1>2, <1>3

\* Answering, or not reaching, the client that waits keeps the table of replies well typed.
LEMMA AnswerType ==
  ASSUME ExchangesTypeOK, NEW code \in Nat, NEW m \in Response \cup {None},
         NEW req, Answer(req, code, m)
  PROVE  reply' \in [Client -> [code : Nat, message : Response \cup {None}] \cup {None}]
<1>1. [code |-> code, message |-> m] \in [code : Nat, message : Response \cup {None}]
  OBVIOUS
<1> QED
  BY <1>1 DEF Answer, ExchangesTypeOK

\* A request of any kind has a body, an epoch and a sequence number.
LEMMA RequestParts ==
  ASSUME NEW req \in Request
  PROVE  req.epoch \in Epoch /\ req.seq \in Nat /\ req.body \in Message
BY DEF Request

\* process_envelope's last part: counting the message and caching its answer keeps
\* the epochs well typed.
LEMMA RespondType ==
  ASSUME ExchangesTypeOK, NEW req \in Request, NEW m \in Response, Respond(req, m),
         UNCHANGED waiting, faults' \in Nat
  PROVE  ExchangesTypeOK'
<1>1. req.epoch \in Epoch /\ req.seq \in Nat /\ req.body \in Message
  BY RequestParts
<1>2. reply' \in [Client -> [code : Nat, message : Response \cup {None}] \cup {None}]
  BY AnswerType DEF Respond
<1>3. epochs \in [Epoch -> EpochState]
  BY DEF ExchangesTypeOK
<1>4. [live |-> TRUE, expected |-> epochs[req.epoch].expected + 1,
       last |-> [seq |-> req.seq, body |-> req.body], answer |-> m] \in EpochState
  <2>1. epochs[req.epoch].expected + 1 \in Nat
    BY <1>1, <1>3 DEF EpochState
  <2>2. [seq |-> req.seq, body |-> req.body] \in [seq : Nat, body : Message]
    BY <1>1
  <2> QED
    BY <2>1, <2>2 DEF EpochState
<1>5. epochs' \in [Epoch -> EpochState]
  BY <1>1, <1>3, <1>4 DEF Respond
<1> QED
  BY <1>2, <1>5 DEF ExchangesTypeOK

\* The count of faults stays a natural.
LEMMA FaultType ==
  ASSUME ExchangesTypeOK, NEW kind, Fault(kind)
  PROVE  faults' \in Nat
BY DEF Fault, ExchangesTypeOK

-----------------------------------------------------------------------------
(* What a step that ends or begins a session leaves behind *)

\* The part of the invariant that speaks of sessions.
SessionsInv == SessionsTypeOK /\ OneOpenSession /\ OneOpenSessionOnDisk

\* The invariant splits into exchanges, cache and sessions, which the handlers
\* disturb separately.
LEMMA InvParts == Inv <=> ExchangesTypeOK /\ CacheTypeOK /\ SessionsInv
BY DEF Inv, TypeOK, SessionsInv

\* A handler that leaves the streams alone keeps the invariant whatever it
\* answers.
LEMMA AnswerOnly ==
  ASSUME Inv, UNCHANGED streamVars, ExchangesTypeOK'
  PROVE  Inv'
BY DEF Inv, TypeOK, SessionsTypeOK, CacheTypeOK, OneOpenSession, OneOpenSessionOnDisk,
       IsOpen, IsSessionMap

\* Saving a good map, or failing to, keeps the files good.
LEMMA SaveKeepsFiles ==
  ASSUME Inv, NEW req \in Request, NEW m \in Response, SaveSessions(req, m),
         UNCHANGED waiting, issued' \in Nat, issued <= issued',
         IsSessionMap(sessions)', OneOpenSession'
  PROVE  /\ ExchangesTypeOK'
         /\ savedSessions' = None \/ IsSessionMap(savedSessions)'
         /\ OneOpenSessionOnDisk'
<1>1. CASE savedSessions' = sessions' /\ Respond(req, m) /\ UNCHANGED faults
  <2>1. ExchangesTypeOK'
    BY <1>1, RespondType DEF Inv, TypeOK, ExchangesTypeOK
  <2>2. OneOpenSessionOnDisk'
    BY <1>1 DEF OneOpenSession, OneOpenSessionOnDisk
  <2> QED
    BY <1>1, <2>1, <2>2 DEF IsSessionMap
<1>2. CASE /\ Fault("persist")
           /\ savedSessions' \in {savedSessions, None}
           /\ Respond(req, Rejected("metadata_write_failed"))
  <2>1. Rejected("metadata_write_failed") \in Response
    BY DEF Rejected, Response, ErrorCode
  <2>2. ExchangesTypeOK'
    BY <1>2, <2>1, FaultType, RespondType DEF Inv, TypeOK
  <2>3. savedSessions' = None \/ IsSessionMap(savedSessions)'
    BY <1>2 DEF Inv, TypeOK, SessionsTypeOK, IsSessionMap
  <2>4. OneOpenSessionOnDisk'
    BY <1>2 DEF Inv, OneOpenSessionOnDisk
  <2> QED
    BY <2>2, <2>3, <2>4
<1> QED
  BY <1>1, <1>2 DEF SaveSessions

-----------------------------------------------------------------------------
(* One lemma per handler *)

\* The fields of each kind of message have their types.
LEMMA MessageParts ==
  ASSUME NEW body \in Message
  PROVE  /\ body.from \in Client
         /\ body.kind = "open" =>
              body.key \in ClientKey /\ body.source \in Nat
         /\ body.kind = "pcm" =>
              body.stream \in Nat /\ body.start \in Nat /\ body.count \in Nat
         /\ body.kind = "close" => body.stream \in Nat /\ body.final \in Nat
         /\ body.kind = "mark" => body.stream \in Nat
BY DEF Message

\* open_or_resume of a stream that is known changes no stream, whatever it answers.
LEMMA ResumeStep ==
  ASSUME Inv, NEW req \in Request, req.body.kind = "open",
         NEW i \in DOMAIN sessions, Resume(req, i), UNCHANGED waiting
  PROVE  Inv'
<1>1. sessions[i] \in Session /\ i \in Nat
  BY DEF Inv, TypeOK, SessionsTypeOK, IsSessionMap
<1>2. ResumeSample(sessions[i]) \in Nat
  BY <1>1, PositionTypes DEF Inv, TypeOK
<1>3. PICK m \in Response : Respond(req, m)
  <2>1. /\ Ok(i, ResumeSample(sessions[i])) \in Response
        /\ Rejected("stream_format_changed") \in Response
        /\ Rejected("stream_source_changed") \in Response
        /\ Rejected("stream_incomplete") \in Response
    BY <1>1, <1>2, ResponseTypes DEF ErrorCode
  <2> QED
    BY <2>1 DEF Resume
<1>4. ExchangesTypeOK'
  BY <1>3, RespondType DEF Inv, TypeOK, ExchangesTypeOK, Resume
<1> QED
  BY <1>4, AnswerOnly DEF Resume

\* Of the map with a new session only the new one is open.
LEMMA NewSessionOpens ==
  ASSUME Inv, NEW body \in Message, body.kind = "open", NEW id, id = issued + 1,
         sessions' = WithNewSession(body, id), issued' = id, active' = id
  PROVE  IsSessionMap(sessions)' /\ OneOpenSession' /\ active' \in DOMAIN sessions'
<1>1. issued \in Nat /\ DOMAIN sessions \subseteq 1..issued
      /\ \A i \in DOMAIN sessions : sessions[i] \in Session
  BY DEF Inv, TypeOK, SessionsTypeOK, IsSessionMap
<1>2. DOMAIN sessions' = DOMAIN sessions \cup {id} /\ id \notin DOMAIN sessions
  BY <1>1 DEF WithNewSession
<1>3. counted \in Nat
  BY DEF Inv, TypeOK, CacheTypeOK
<1>4. sessions'[id] = NewSession(body)
  <2>1. active # id
    BY <1>1, <1>2, ServerConstants DEF Inv, TypeOK, SessionsTypeOK
  <2> QED
    BY <1>2, <2>1 DEF WithNewSession
<1>5. NewSession(body) \in Session
  BY <1>3, MessageParts DEF NewSession, Session
<1>6. ASSUME NEW i \in DOMAIN sessions
      PROVE  sessions'[i] \in Session /\ ~IsOpen(sessions'[i])
  <2>1. sessions[i] \in Session /\ i # id
    BY <1>1, <1>2
  <2>2. CASE i = active
    <3>1. sessions'[i] = CutOff(sessions[i])
      BY <2>1, <2>2, <1>2 DEF WithNewSession
    <3> QED
      BY <3>1, <2>1, <1>3 DEF CutOff, Session, IsOpen
  <2>3. CASE i # active
    <3>1. sessions'[i] = sessions[i]
      BY <2>1, <2>3, <1>2 DEF WithNewSession
    <3>2. ~IsOpen(sessions[i])
      BY <2>3 DEF Inv, OneOpenSession
    <3> QED
      BY <3>1, <3>2, <2>1
  <2> QED
    BY <2>2, <2>3
<1>7. IsSessionMap(sessions)'
  BY <1>1, <1>2, <1>4, <1>5, <1>6 DEF IsSessionMap
<1>8. IsOpen(sessions'[id])
  BY <1>4 DEF NewSession, IsOpen
<1> QED
  BY <1>2, <1>6, <1>7, <1>8 DEF OneOpenSession

\* open_or_resume keeps the invariant, whether it resumes, refuses, creates the cache
\* or supersedes the active stream, and whether the write succeeds or not.
LEMMA OpenStep ==
  ASSUME Inv, NEW req \in Request, OpenOrResume(req), UNCHANGED waiting
  PROVE  Inv'
<1> DEFINE body == req.body
<1>1. body \in Message /\ body.kind = "open" /\ body.source \in Nat
  BY RequestParts, MessageParts DEF OpenOrResume
<1>2. /\ Rejected("invalid_stream_config") \in Response
      /\ Rejected("cache_format_changed") \in Response
      /\ Rejected("core_start_failed") \in Response
  BY ResponseTypes DEF ErrorCode, Rejected, Response
<1>3. CASE /\ \/ Respond(req, Rejected("invalid_stream_config"))
              \/ Respond(req, Rejected("cache_format_changed"))
           /\ UNCHANGED <<streamVars, faults>>
  <2>1. ExchangesTypeOK'
    BY <1>2, <1>3, RespondType DEF Inv, TypeOK, ExchangesTypeOK
  <2> QED
    BY <2>1, <1>3, AnswerOnly
<1>4. CASE \E i \in KnownStreams(body.key) : Resume(req, i)
  BY <1>1, <1>4, ResumeStep DEF KnownStreams
<1>5. CASE body.format \in Format /\ CreateStream(req)
  <2> DEFINE id == issued + 1
  <2>1. id \in Nat /\ issued <= id
    BY DEF Inv, TypeOK, SessionsTypeOK
  <2>2. IsSessionMap(sessions)' /\ OneOpenSession' /\ active' \in DOMAIN sessions'
    BY <1>1, <1>5, NewSessionOpens DEF CreateStream
  <2>3. Ok(id, body.source) \in Response
    BY <1>1, <2>1 DEF Ok, Response, ErrorCode
  <2>4. /\ ExchangesTypeOK'
        /\ savedSessions' = None \/ IsSessionMap(savedSessions)'
        /\ OneOpenSessionOnDisk'
    <3>1. CASE SaveSessions(req, Ok(id, body.source))
      BY <1>5, <2>1, <2>2, <2>3, <3>1, SaveKeepsFiles DEF CreateStream
    <3>2. CASE /\ Fault("persist")
               /\ Respond(req, Rejected("metadata_write_failed"))
               /\ UNCHANGED savedSessions
      <4>1. Rejected("metadata_write_failed") \in Response
        BY DEF Rejected, Response, ErrorCode
      <4>2. ExchangesTypeOK'
        BY <3>2, <4>1, FaultType, RespondType DEF Inv, TypeOK
      <4>3. issued' \in Nat /\ issued <= issued'
        BY <1>5, <2>1 DEF CreateStream
      <4> QED
        BY <3>2, <4>2, <4>3 DEF Inv, TypeOK, SessionsTypeOK, IsSessionMap, OneOpenSessionOnDisk
    <3> QED
      BY <1>5, <3>1, <3>2 DEF CreateStream
  <2>5. SessionsTypeOK'
    <3>1. savedFormat' \in Format \cup {None}
      BY <1>5 DEF CreateStream, Inv, TypeOK, SessionsTypeOK
    <3> QED
      BY <1>5, <2>1, <2>2, <2>4, <3>1 DEF CreateStream, SessionsTypeOK
  <2>6. CacheTypeOK'
    BY <1>5 DEF CreateStream, Inv, TypeOK, CacheTypeOK
  <2> QED
    BY <2>2, <2>4, <2>5, <2>6 DEF Inv, TypeOK
<1>6. CASE body.format \in Format /\ CreateCacheFails(req)
  <2>1. ExchangesTypeOK'
    BY <1>2, <1>6, RespondType, FaultType DEF Inv, TypeOK, CreateCacheFails
  <2>2. SessionsTypeOK' /\ OneOpenSession' /\ OneOpenSessionOnDisk'
    BY <1>6 DEF CreateCacheFails, Inv, TypeOK, SessionsTypeOK, IsSessionMap,
                OneOpenSession, OneOpenSessionOnDisk, IsOpen
  <2>3. CacheTypeOK'
    BY <1>6 DEF CreateCacheFails, Inv, TypeOK, CacheTypeOK
  <2> QED
    BY <2>1, <2>2, <2>3 DEF Inv, TypeOK
<1> QED
  BY <1>3, <1>4, <1>5, <1>6 DEF OpenOrResume

\* However push_samples and flush end, the retained part is in the files and what is
\* in the BufWriter lies behind it.
LEMMA AppendTypes ==
  ASSUME CacheTypeOK, NEW body, body.from \in Client, body.start \in Nat, body.count \in Nat,
         \/ AppendChunk(body) \/ AppendPart(body) \/ LeaveUnflushed(body)
         \/ Miscount(body) \/ StayUnflushed,
         UNCHANGED origin
  PROVE  CacheTypeOK'
<1>1. /\ cache \in Seq(Client \X Nat) /\ Len(cache) \in Nat /\ counted \in Nat
      /\ unflushed \in Nat /\ dropped \in Nat /\ origin \in Nat
      /\ origin <= dropped /\ dropped <= Len(cache) - unflushed
  BY LenProperties DEF CacheTypeOK
<1>2. ASSUME NEW count \in 0..body.count
      PROVE  /\ cache \o Chunk(body, count) \in Seq(Client \X Nat)
             /\ Len(cache \o Chunk(body, count)) = Len(cache) + count
  <2> DEFINE from == body.from
             first == body.start
  <2>1. from \in Client /\ first \in Nat /\ count \in Nat
    OBVIOUS
  <2> HIDE DEF from, first
  <2>2. /\ cache \o Samples(from, first, count) \in Seq(Client \X Nat)
        /\ Len(cache \o Samples(from, first, count)) = Len(cache) + count
    BY <2>1, AppendedType
  <2> QED
    BY <2>2 DEF Chunk, from, first
<1>3. ASSUME cache' \in Seq(Client \X Nat), counted' \in Nat, unflushed' \in Nat,
             dropped <= Len(cache') - unflushed', Retain \/ UNCHANGED dropped
      PROVE  CacheTypeOK'
  <2>1. CASE Retain
    <3>1. dropped' \in Nat /\ dropped <= dropped' /\ dropped' <= Len(cache') - unflushed'
      BY <1>1, <1>3, <2>1, RetainType, ServerConstants
    <3> QED
      BY <1>1, <1>3, <3>1 DEF CacheTypeOK
  <2>2. CASE UNCHANGED dropped
    BY <1>1, <1>3, <2>2 DEF CacheTypeOK
  <2> QED
    BY <1>3, <2>1, <2>2
<1>4. CASE AppendChunk(body) \/ LeaveUnflushed(body)
  <2>1. /\ cache' = cache \o Chunk(body, body.count) /\ counted' = counted + body.count
        /\ unflushed' \in 0..(unflushed + body.count) /\ Retain
    BY <1>1, <1>4 DEF AppendChunk, LeaveUnflushed
  <2>2. cache' \in Seq(Client \X Nat) /\ Len(cache') = Len(cache) + body.count
    <3>1. body.count \in 0..body.count
      OBVIOUS
    <3> QED
      BY <1>2, <2>1, <3>1
  <2> QED
    BY <1>1, <1>3, <2>1, <2>2
<1>5. CASE AppendPart(body)
  <2>1. PICK count \in 0..body.count :
          /\ cache' = cache \o Chunk(body, count) /\ counted' = counted + count
          /\ unflushed' = 0 /\ (Retain \/ UNCHANGED dropped)
    BY <1>5 DEF AppendPart
  <2>2. cache' \in Seq(Client \X Nat) /\ Len(cache') = Len(cache) + count
    BY <1>2, <2>1
  <2> QED
    BY <1>1, <1>3, <2>1, <2>2
<1>6. CASE Miscount(body)
  <2>1. PICK count \in 0..body.count,
             length \in (Len(cache) - unflushed)..(Len(cache) + body.count) :
          /\ cache' = SubSeq(cache \o Chunk(body, body.count), 1, length)
          /\ counted' = counted + count /\ unflushed' = 0 /\ UNCHANGED dropped
    BY <1>6 DEF Miscount
  <2> DEFINE log == cache \o Chunk(body, body.count)
  <2>2. log \in Seq(Client \X Nat) /\ Len(log) = Len(cache) + body.count
    <3>1. body.count \in 0..body.count
      OBVIOUS
    <3> QED
      BY <1>2, <3>1
  <2>3. length \in Nat /\ length <= Len(log) /\ dropped <= length
    BY <1>1, <2>2
  <2> HIDE DEF log
  <2>4. SubSeq(log, 1, length) \in Seq(Client \X Nat) /\ Len(SubSeq(log, 1, length)) = length
    BY <2>2, <2>3, PrefixType
  <2>5. cache' \in Seq(Client \X Nat) /\ Len(cache') = length
    BY <2>1, <2>4 DEF log
  <2>6. counted' \in Nat /\ unflushed' \in Nat /\ dropped <= Len(cache') - unflushed'
    BY <1>1, <2>1, <2>3, <2>5
  <2> QED
    BY <1>3, <2>1, <2>5, <2>6
<1>7. CASE StayUnflushed
  BY <1>1, <1>7 DEF StayUnflushed, CacheTypeOK
<1> QED
  BY <1>4, <1>5, <1>6, <1>7

\* push_pcm keeps the invariant: it appends to the cache or refuses, and touches no
\* session.
LEMMA PushStep ==
  ASSUME Inv, NEW req \in Request, PushPcm(req), UNCHANGED waiting
  PROVE  Inv'
<1> DEFINE body == req.body
           stream == body.stream
<1>1. /\ body \in Message /\ body.kind = "pcm" /\ body.from \in Client
      /\ stream \in Nat /\ body.start \in Nat /\ body.count \in Nat
  BY RequestParts, MessageParts DEF PushPcm
<1>2. PcmError(body) # "" => Rejected(PcmError(body)) \in Response
  BY ResponseTypes DEF PcmError, ErrorCode
<1>3. PcmError(body) = "" => Gap(stream, ExpectedSample(sessions[stream]), "sample_gap") \in Response
  <2>1. SUFFICES ASSUME PcmError(body) = ""
                 PROVE  Gap(stream, ExpectedSample(sessions[stream]), "sample_gap") \in Response
    OBVIOUS
  <2>2. stream \in DOMAIN sessions
    BY <2>1 DEF PcmError
  <2>3. ExpectedSample(sessions[stream]) \in Nat
    BY <2>2, PositionTypes DEF Inv, TypeOK, SessionsTypeOK, IsSessionMap
  <2> QED
    BY <1>1, <2>3 DEF Gap, Response, ErrorCode
<1>4. CASE \E m \in Response : Respond(req, m) /\ UNCHANGED <<streamVars, faults>>
  <2>1. ExchangesTypeOK'
    BY <1>4, RespondType DEF Inv, TypeOK, ExchangesTypeOK
  <2> QED
    BY <1>4, <2>1, AnswerOnly
<1>5. ASSUME NEW m \in Response, Respond(req, m), faults' \in Nat, CacheTypeOK',
             UNCHANGED <<sessions, issued, active, format, origin, savedFormat, savedSessions>>
      PROVE  Inv'
  <2>1. ExchangesTypeOK'
    BY <1>5, RespondType DEF Inv, TypeOK
  <2>2. SessionsTypeOK' /\ OneOpenSession' /\ OneOpenSessionOnDisk'
    BY <1>5 DEF Inv, TypeOK, SessionsTypeOK, IsSessionMap, OneOpenSession,
                OneOpenSessionOnDisk, IsOpen
  <2> QED
    BY <1>5, <2>1, <2>2 DEF Inv, TypeOK
<1>6. CASE /\ AppendChunk(body)
           /\ Respond(req, Ok(stream, body.start + body.count))
           /\ UNCHANGED faults
           /\ UNCHANGED <<sessions, issued, active, format, origin, savedFormat, savedSessions>>
  <2>1. Ok(stream, body.start + body.count) \in Response
    BY <1>1 DEF Ok, Response, ErrorCode
  <2>2. faults' \in Nat /\ CacheTypeOK'
    BY <1>1, <1>6, AppendTypes DEF Inv, TypeOK, ExchangesTypeOK
  <2> QED
    BY <1>5, <1>6, <2>1, <2>2
<1>7. CASE /\ \/ Fault("storage") /\ AppendPart(body)
              \/ Fault("pcm") /\ (LeaveUnflushed(body) \/ Miscount(body) \/ StayUnflushed)
           /\ Respond(req, Rejected("storage_write_failed"))
           /\ UNCHANGED <<sessions, issued, active, format, origin, savedFormat, savedSessions>>
  <2>1. Rejected("storage_write_failed") \in Response
    BY DEF Rejected, Response, ErrorCode
  <2>2. faults' \in Nat /\ CacheTypeOK'
    BY <1>1, <1>7, FaultType, AppendTypes DEF Inv, TypeOK
  <2> QED
    BY <1>5, <1>7, <2>1, <2>2
<1> QED
  BY <1>2, <1>3, <1>4, <1>6, <1>7 DEF PushPcm

\* Ending a session never leaves two open ones, nor an active one that is closed.
LEMMA EndSessionStep ==
  ASSUME Inv, NEW req \in Request, NEW m \in Response, NEW stream \in DOMAIN sessions,
         NEW isIncomplete \in BOOLEAN, EndSession(stream, isIncomplete),
         unflushed' \in {0, unflushed}, SaveSessions(req, m), UNCHANGED waiting
  PROVE  Inv'
<1>1. issued \in Nat /\ IsSessionMap(sessions)
  BY DEF Inv, TypeOK, SessionsTypeOK
<1>2. counted \in Nat
  BY DEF Inv, TypeOK, CacheTypeOK
<1>3. /\ DOMAIN sessions' = DOMAIN sessions
      /\ \A i \in DOMAIN sessions : i # stream => sessions'[i] = sessions[i]
      /\ sessions'[stream] \in Session /\ ~IsOpen(sessions'[stream])
  <2>1. /\ DOMAIN sessions' = DOMAIN sessions
        /\ \A i \in DOMAIN sessions : i # stream => sessions'[i] = sessions[i]
        /\ sessions'[stream] = [sessions[stream] EXCEPT !.closed = TRUE,
                                  !.incomplete = sessions[stream].incomplete \/ isIncomplete,
                                  !.end = counted]
    BY DEF EndSession
  <2>2. sessions[stream] \in Session
    BY <1>1 DEF IsSessionMap
  <2> QED
    BY <1>2, <2>1, <2>2 DEF Session, IsOpen
<1>4. IsSessionMap(sessions)' /\ issued' = issued
  BY <1>1, <1>3 DEF IsSessionMap, EndSession
<1>5. OneOpenSession'
  BY <1>3, ServerConstants DEF EndSession, OneOpenSession, Inv, TypeOK, SessionsTypeOK
<1>6. /\ ExchangesTypeOK'
      /\ savedSessions' = None \/ IsSessionMap(savedSessions)'
      /\ OneOpenSessionOnDisk'
  BY <1>1, <1>4, <1>5, SaveKeepsFiles
<1>7. SessionsTypeOK'
  BY <1>3, <1>4, <1>6, <1>1 DEF EndSession, Inv, TypeOK, SessionsTypeOK
<1>8. CacheTypeOK'
  <2>1. Len(cache) \in Nat
    BY LenProperties DEF Inv, TypeOK, CacheTypeOK
  <2> QED
    BY <2>1 DEF EndSession, Inv, TypeOK, CacheTypeOK
<1> QED
  BY <1>5, <1>6, <1>7, <1>8 DEF Inv, TypeOK

\* close_stream keeps the invariant, also for a stream that is already superseded.
LEMMA CloseStep ==
  ASSUME Inv, NEW req \in Request, CloseStream(req), UNCHANGED waiting
  PROVE  Inv'
<1> DEFINE body == req.body
           expected == ExpectedSample(sessions[body.stream])
<1>1. body.kind = "close" /\ body.stream \in Nat /\ body.final \in Nat
  BY RequestParts, MessageParts DEF CloseStream
<1>2. Rejected("stream_not_found") \in Response /\ Ok(body.stream, body.final) \in Response
  BY <1>1 DEF Rejected, Ok, Response, ErrorCode
<1>3. body.stream \in DOMAIN sessions =>
        Gap(body.stream, expected, "final_sample_mismatch") \in Response
  <2>1. body.stream \in DOMAIN sessions => expected \in Nat
    BY PositionTypes DEF Inv, TypeOK, SessionsTypeOK, IsSessionMap
  <2> QED
    BY <1>1, <2>1 DEF Gap, Response, ErrorCode
<1>4. CASE \E m \in Response : Respond(req, m) /\ UNCHANGED <<streamVars, faults>>
  <2>1. ExchangesTypeOK'
    BY <1>4, RespondType DEF Inv, TypeOK, ExchangesTypeOK
  <2> QED
    BY <1>4, <2>1, AnswerOnly
<1>5. CASE /\ body.stream \in DOMAIN sessions
           /\ unflushed' = 0
           /\ EndSession(body.stream, FALSE)
           /\ SaveSessions(req, Ok(body.stream, body.final))
  BY <1>2, <1>5, EndSessionStep
<1>6. CASE FlushFails /\ Respond(req, Rejected("core_flush_failed"))
  <2>1. Rejected("core_flush_failed") \in Response
    BY DEF Rejected, Response, ErrorCode
  <2>2. faults' \in Nat
    BY <1>6, FaultType DEF FlushFails, Inv, TypeOK
  <2>3. ExchangesTypeOK'
    BY <1>6, <2>1, <2>2, RespondType DEF Inv, TypeOK
  <2>4. CacheTypeOK'
    <3>1. Len(cache) \in Nat /\ unflushed \in Nat
      BY LenProperties DEF Inv, TypeOK, CacheTypeOK
    <3>2. unflushed' \in 0..unflushed
      BY <1>6, <3>1 DEF FlushFails
    <3> QED
      BY <1>6, <3>1, <3>2 DEF FlushFails, Inv, TypeOK, CacheTypeOK
  <2>5. SessionsTypeOK' /\ OneOpenSession' /\ OneOpenSessionOnDisk'
    BY <1>6 DEF FlushFails, Inv, TypeOK, SessionsTypeOK, IsSessionMap, OneOpenSession,
                OneOpenSessionOnDisk, IsOpen
  <2> QED
    BY <2>3, <2>4, <2>5 DEF Inv, TypeOK
<1> QED
  BY <1>2, <1>3, <1>4, <1>5, <1>6 DEF CloseStream

\* mark_incomplete keeps the invariant, also for a stream that is already closed.
LEMMA MarkStep ==
  ASSUME Inv, NEW req \in Request, MarkIncomplete(req), UNCHANGED waiting
  PROVE  Inv'
<1> DEFINE body == req.body
           expected == ExpectedSample(sessions[body.stream])
<1>1. body.kind = "mark" /\ body.stream \in Nat
  BY RequestParts, MessageParts DEF MarkIncomplete
<1>2. Rejected("stream_not_found") \in Response
  BY DEF Rejected, Response, ErrorCode
<1>3. body.stream \in DOMAIN sessions => Ok(body.stream, expected) \in Response
  <2>1. body.stream \in DOMAIN sessions => expected \in Nat
    BY PositionTypes DEF Inv, TypeOK, SessionsTypeOK, IsSessionMap
  <2> QED
    BY <1>1, <2>1 DEF Ok, Response, ErrorCode
<1>4. CASE Respond(req, Rejected("stream_not_found")) /\ UNCHANGED <<streamVars, faults>>
  <2>1. ExchangesTypeOK'
    BY <1>2, <1>4, RespondType DEF Inv, TypeOK, ExchangesTypeOK
  <2> QED
    BY <1>4, <2>1, AnswerOnly
<1>5. CASE /\ body.stream \in DOMAIN sessions
           /\ EndSession(body.stream, TRUE)
           /\ UNCHANGED unflushed
           /\ SaveSessions(req, Ok(body.stream, expected))
  BY <1>3, <1>5, EndSessionStep
<1> QED
  BY <1>4, <1>5 DEF MarkIncomplete

\* test_connection's probe changes nothing but the sequence of its epoch.
LEMMA ProbeStep ==
  ASSUME Inv, NEW req \in Request, Probe(req), UNCHANGED waiting
  PROVE  Inv'
<1>1. Ok(0, 0) \in Response
  BY DEF Ok, Response, ErrorCode
<1>2. ExchangesTypeOK'
  BY <1>1, RespondType DEF Probe, Inv, TypeOK, ExchangesTypeOK
<1> QED
  BY <1>2, AnswerOnly DEF Probe

-----------------------------------------------------------------------------
(* The epoch layer *)

\* The answer of the sequence-gap branch is a response for any message.
LEMMA SequenceGapType ==
  ASSUME Inv, NEW body \in Message
  PROVE  SequenceGap(body) \in Response
<1>1. Gap(0, 0, "sequence_gap") \in Response
  BY DEF Gap, Response, ErrorCode
<1>2. CASE body.kind \in {"pcm", "close", "mark"} /\ body.stream \in DOMAIN sessions
  <2>1. body.stream \in Nat
    BY <1>2, MessageParts
  <2>2. ResumeSample(sessions[body.stream]) \in Nat
    BY <1>2, PositionTypes DEF Inv, TypeOK, SessionsTypeOK, IsSessionMap
  <2>3. Gap(body.stream, ResumeSample(sessions[body.stream]), "sequence_gap") \in Response
    BY <2>1, <2>2 DEF Gap, Response, ErrorCode
  <2> QED
    BY <1>2, <2>3 DEF SequenceGap
<1> QED
  BY <1>1, <1>2 DEF SequenceGap

\* Whatever envelope arrives, process_envelope keeps the invariant: handled, answered
\* from last_response, or refused.
LEMMA EnvelopeStep ==
  ASSUME Inv, NEW req \in Request, ProcessEnvelope(req)
  PROVE  Inv'
<1> DEFINE e == epochs[req.epoch]
<1>1. req.body \in Message /\ e.answer \in Response \cup {None} /\ UNCHANGED waiting
  BY RequestParts DEF EpochState, Inv, TypeOK, ExchangesTypeOK, ProcessEnvelope
<1>2. CASE IsNext(req) /\ Handle(req)
  BY <1>1, <1>2, OpenStep, PushStep, CloseStep, MarkStep, ProbeStep DEF Handle
<1>3. CASE /\ \E code \in {200, 401, 409} : \E m \in Response \cup {None} : Answer(req, code, m)
           /\ UNCHANGED <<epochs, streamVars, faults>>
  <2>1. reply' \in [Client -> [code : Nat, message : Response \cup {None}] \cup {None}]
    BY <1>3, AnswerType DEF Inv, TypeOK
  <2>2. ExchangesTypeOK'
    BY <1>1, <1>3, <2>1 DEF Inv, TypeOK, ExchangesTypeOK
  <2> QED
    BY <1>3, <2>2, AnswerOnly
<1>4. SequenceGap(req.body) \in Response
  BY <1>1, SequenceGapType
<1> QED
  BY <1>1, <1>2, <1>3, <1>4 DEF ProcessEnvelope

\* An idle and a fresh epoch are well typed.
LEMMA EpochTypes == IdleEpoch \in EpochState /\ FreshEpoch \in EpochState
BY DEF IdleEpoch, FreshEpoch, EpochState

\* A challenge and the expiry of an epoch keep the invariant.
LEMMA ChallengeStep ==
  ASSUME Inv, NEW e \in Epoch, Challenge(e) \/ ExpireEpoch(e)
  PROVE  Inv'
<1>1. epochs \in [Epoch -> EpochState]
  BY DEF Inv, TypeOK, ExchangesTypeOK, EpochState
<1>2. epochs' \in [Epoch -> EpochState]
  <2>1. [epochs[e] EXCEPT !.live = FALSE] \in EpochState
    BY <1>1 DEF EpochState
  <2>2. epochs' = [epochs EXCEPT ![e] = FreshEpoch]
        \/ epochs' = [epochs EXCEPT ![e] = [epochs[e] EXCEPT !.live = FALSE]]
    BY DEF Challenge, ExpireEpoch
  <2> QED
    BY <1>1, <2>1, <2>2, EpochTypes
<1>3. faults' \in Nat /\ UNCHANGED <<waiting, reply, streamVars>>
  BY FaultType DEF Challenge, ExpireEpoch, Inv, TypeOK, ExchangesTypeOK
<1>4. ExchangesTypeOK'
  BY <1>2, <1>3 DEF Inv, TypeOK, ExchangesTypeOK, EpochState
<1> QED
  BY <1>3, <1>4, AnswerOnly

-----------------------------------------------------------------------------
(* Crash and restart *)

\* Whatever the crash left, the restarted server has at most one open session
\* and makes it the active one.
LEMMA ReloadStep ==
  ASSUME Inv, NEW files, NEW log \in Seq(Client \X Nat), dropped <= Len(log),
         files.sessions \in {savedSessions, None}, files.format \in Format \cup {None},
         Reload(files, log), faults' \in Nat
  PROVE  Inv'
<1>1. ExchangesTypeOK'
  <2>1. epochs' \in [Epoch -> EpochState]
    BY EpochTypes DEF Reload
  <2> QED
    BY <2>1 DEF Reload, Inv, TypeOK, ExchangesTypeOK, EpochState
<1>2. CacheTypeOK'
  <2>1. /\ dropped \in Nat /\ Len(log) \in Nat /\ cache' = log /\ origin' = dropped
        /\ counted' = Len(log) - dropped /\ unflushed' = 0 /\ Retain
    BY LenProperties DEF Reload, Inv, TypeOK, CacheTypeOK
  <2>2. dropped' \in Nat /\ dropped <= dropped' /\ dropped' <= Len(cache') - unflushed'
    BY <2>1, RetainType, ServerConstants DEF Inv, TypeOK
  <2> QED
    BY <2>1, <2>2 DEF CacheTypeOK
<1>3. /\ issued' = issued /\ issued \in Nat
      /\ savedSessions' \in {savedSessions, None}
      /\ format' \in Format \cup {None} /\ savedFormat' \in Format \cup {None}
  BY DEF Reload, Inv, TypeOK, SessionsTypeOK
<1>4. savedSessions' = None \/ IsSessionMap(savedSessions)'
  BY <1>3 DEF Inv, TypeOK, SessionsTypeOK, IsSessionMap
<1>5. OneOpenSessionOnDisk'
  BY <1>3 DEF Inv, OneOpenSessionOnDisk
<1>6. /\ IsSessionMap(sessions)'
      /\ \A i, j \in DOMAIN sessions' : IsOpen(sessions'[i]) /\ IsOpen(sessions'[j]) => i = j
  <2>1. CASE sessions' = NoSessions
    <3>1. DOMAIN sessions' = {}
      BY <2>1 DEF NoSessions
    <3> QED
      BY <3>1 DEF IsSessionMap
  <2>2. CASE savedSessions' # None /\ sessions' = savedSessions'
    BY <2>2, <1>4, <1>5 DEF IsSessionMap, OneOpenSessionOnDisk
  <2> QED
    BY <2>1, <2>2 DEF Reload
<1> DEFINE open == {i \in DOMAIN sessions' : IsOpen(sessions'[i])}
<1>7. /\ active' = None \/ active' \in open
      /\ \A i \in open : active' = i
  <2>1. CASE open = {}
    BY <2>1 DEF Reload
  <2>2. CASE open # {}
    <3>1. PICK i \in open : open = {i}
      BY <2>2, <1>6
    <3>2. i \in Nat
      BY <3>1, <1>3, <1>6 DEF IsSessionMap
    <3>3. \E k \in open : \A j \in open : j <= k
      BY <3>1, <3>2
    <3>4. active' = CHOOSE k \in open : \A j \in open : j <= k
      BY <2>2 DEF Reload
    <3>5. active' \in open
      BY <3>3, <3>4
    <3> QED
      BY <3>1, <3>5
  <2> QED
    BY <2>1, <2>2
<1>8. OneOpenSession'
  BY <1>7 DEF OneOpenSession
<1>9. SessionsTypeOK'
  BY <1>3, <1>4, <1>6, <1>7 DEF SessionsTypeOK
<1> QED
  BY <1>1, <1>2, <1>5, <1>8, <1>9 DEF Inv, TypeOK

\* What a restart reads is what was written last.
LEMMA FilesType ==
  ASSUME Inv
  PROVE  Files.sessions = savedSessions /\ Files.format \in Format \cup {None}
BY DEF Files, Inv, TypeOK, SessionsTypeOK

\* What reached the files is a log that still holds everything retained.
LEMMA WithoutType ==
  ASSUME CacheTypeOK, NEW lost \in 0..unflushed
  PROVE  Without(lost) \in Seq(Client \X Nat) /\ dropped <= Len(Without(lost))
<1>1. /\ cache \in Seq(Client \X Nat) /\ Len(cache) \in Nat /\ unflushed \in Nat
      /\ dropped \in Nat /\ dropped <= Len(cache) - unflushed
  BY LenProperties DEF CacheTypeOK
<1> DEFINE length == Len(cache) - lost
<1>2. length \in Nat /\ length <= Len(cache) /\ dropped <= length
  BY <1>1
<1> HIDE DEF length
<1>3. SubSeq(cache, 1, length) \in Seq(Client \X Nat) /\ Len(SubSeq(cache, 1, length)) = length
  BY <1>1, <1>2, PrefixType
<1> QED
  BY <1>2, <1>3 DEF Without, length

\* A crash between two requests keeps the invariant.
LEMMA CrashStep ==
  ASSUME Inv, Crash
  PROVE  Inv'
<1>1. PICK lost \in 0..unflushed : Reload(Files, Without(lost))
  BY DEF Crash
<1>2. Without(lost) \in Seq(Client \X Nat) /\ dropped <= Len(Without(lost))
  BY WithoutType DEF Inv, TypeOK
<1>3. faults' \in Nat
  BY FaultType DEF Crash, Inv, TypeOK
<1> QED
  BY <1>1, <1>2, <1>3, FilesType, ReloadStep

\* A crash that leaves part of a chunk on disk keeps the invariant.
LEMMA CrashInPushStep ==
  ASSUME Inv, NEW req \in Request, CrashInPush(req)
  PROVE  Inv'
<1> DEFINE body == req.body
           from == body.from
           first == body.start
           all == cache \o Samples(from, first, body.count)
<1>1. from \in Client /\ first \in Nat /\ body.count \in Nat
  BY RequestParts, MessageParts DEF CrashInPush
<1>2. PICK length \in (Len(cache) - unflushed)..(Len(cache) + body.count) :
        Reload(Files, SubSeq(all, 1, length))
  BY DEF CrashInPush, Chunk
<1>3. /\ CacheTypeOK /\ Len(cache) \in Nat /\ unflushed \in Nat
      /\ dropped \in Nat /\ dropped <= Len(cache) - unflushed
  BY LenProperties DEF Inv, TypeOK, CacheTypeOK
<1> HIDE DEF from, first
<1>4. all \in Seq(Client \X Nat) /\ Len(all) = Len(cache) + body.count
  BY <1>1, <1>3, AppendedType
<1> HIDE DEF all
<1>5. length \in Nat /\ length <= Len(all) /\ dropped <= length
  BY <1>1, <1>3, <1>4
<1>6. SubSeq(all, 1, length) \in Seq(Client \X Nat) /\ Len(SubSeq(all, 1, length)) = length
  BY <1>4, <1>5, PrefixType
<1>7. faults' \in Nat
  BY FaultType DEF CrashInPush, Inv, TypeOK
<1> QED
  BY <1>2, <1>5, <1>6, <1>7, FilesType, ReloadStep

\* A crash between remove_file and rename of persist_json_atomic keeps the invariant:
\* without upload-sessions.json no session is open.
LEMMA CrashInPersistStep ==
  ASSUME Inv, NEW req \in Request, CrashInPersist(req)
  PROVE  Inv'
<1> DEFINE torn1 == [Files EXCEPT !.sessions = None,
                                  !.format = IF req.body.kind = "open"
                                             THEN req.body.format ELSE Files.format]
           torn2 == [Files EXCEPT !.format = None]
<1>1. PICK lost \in 0..unflushed :
        Reload(torn1, Without(lost)) \/ Reload(torn2, Without(lost))
  BY DEF CrashInPersist, Inv, TypeOK, CacheTypeOK
<1>2. faults' \in Nat
  BY FaultType DEF CrashInPersist, Inv, TypeOK
<1>3. /\ torn1.sessions = None
      /\ torn1.format = IF req.body.kind = "open" THEN req.body.format ELSE savedFormat
      /\ torn2.sessions = savedSessions /\ torn2.format = None
  BY DEF Files
<1>4. torn1.format \in Format \cup {None}
  BY <1>3 DEF CrashInPersist, WritesSessions, Inv, TypeOK, SessionsTypeOK
<1>5. Without(lost) \in Seq(Client \X Nat) /\ dropped <= Len(Without(lost))
  BY WithoutType DEF Inv, TypeOK
<1> HIDE DEF torn1, torn2
<1> QED
  BY <1>1, <1>2, <1>3, <1>4, <1>5, ReloadStep

-----------------------------------------------------------------------------
(* The theorems *)

\* A server with an empty data directory satisfies the invariant.
LEMMA InitInv == Init => Inv
<1> SUFFICES ASSUME Init PROVE Inv
  OBVIOUS
<1>1. ExchangesTypeOK
  BY EpochTypes DEF Init, ExchangesTypeOK, EpochState
<1>2. DOMAIN sessions = {}
  BY DEF Init, NoSessions
<1>3. SessionsTypeOK
  BY <1>2 DEF Init, SessionsTypeOK, IsSessionMap
<1>4. CacheTypeOK
  BY EmptySeq DEF Init, CacheTypeOK
<1> QED
  BY <1>1, <1>2, <1>3, <1>4 DEF Init, Inv, TypeOK, OneOpenSession, OneOpenSessionOnDisk

\* The invariant is inductive: every request, expiry, fault and restart keeps it.
LEMMA NextInv == Inv /\ [Next]_serverVars => Inv'
<1> SUFFICES ASSUME Inv, [Next]_serverVars PROVE Inv'
  OBVIOUS
<1>1. ASSUME NEW e \in Epoch, Challenge(e) \/ ExpireEpoch(e)
      PROVE  Inv'
  BY <1>1, ChallengeStep
<1>2. ASSUME NEW req \in Arrivals,
             ProcessEnvelope(req) \/ CrashInPush(req) \/ CrashInPersist(req)
      PROVE  Inv'
  <2>1. req \in Request
    BY ServerConstants DEF Arrivals, Request
  <2> QED
    BY <1>2, <2>1, EnvelopeStep, CrashInPushStep, CrashInPersistStep
<1>3. CASE Crash
  BY <1>3, CrashStep
<1>4. CASE UNCHANGED serverVars
  <2>1. ExchangesTypeOK'
    BY <1>4 DEF Inv, TypeOK, ExchangesTypeOK
  <2> QED
    BY <1>4, <2>1, AnswerOnly
<1> QED
  BY <1>1, <1>2, <1>3, <1>4 DEF Next

\* The inductive invariant holds in every state of the server.
THEOREM Invariance == Spec => []Inv
BY InitInv, NextInv, PTL DEF Spec

\* Every variable of the server keeps its type, and the retained, the numbered
\* and the written part of the cache stay nested (the state StreamManager keeps
\* behind open_lock and the epoch map of enter_upload_request).
THEOREM TypeCorrect == Spec => []TypeOK
<1>1. Inv => TypeOK
  BY DEF Inv
<1> QED
  BY <1>1, Invariance, PTL

\* The single-writer rule of open_or_resume, close_stream and mark_incomplete:
\* at any time the active stream is the one open session, whatever arrives, is
\* retried, fails to be written or is cut short by a crash.
THEOREM SingleWriter == Spec => []OneOpenSession
<1>1. Inv => OneOpenSession
  BY DEF Inv
<1> QED
  BY <1>1, Invariance, PTL

\* load_cache never has to choose among open sessions: upload-sessions.json holds
\* at most one, after any sequence of writes, failed writes and crashes.
THEOREM SingleWriterOnDisk == Spec => []OneOpenSessionOnDisk
<1>1. Inv => OneOpenSessionOnDisk
  BY DEF Inv
<1> QED
  BY <1>1, Invariance, PTL

\* Both at once: the server in memory and the one that a restart would make of its
\* files have a single writer.
THEOREM SingleWriterThroughout == Spec => []SingleWriters
<1>1. Inv => SingleWriters
  BY DEF Inv, SingleWriters
<1> QED
  BY <1>1, Invariance, PTL

-----------------------------------------------------------------------------
(* What a stream was given *)

(* From here on every write of the two JSON files and of PCM succeeds.  A      *)
(* server whose JSON files are out of date reopens a stream that a later one   *)
(* has written behind, and the part of the former then holds samples of the    *)
(* latter.  A write or flush of PCM that fails leaves counts and files in      *)
(* disagreement, and a restart goes by the files (README, section 6).          *)
(* Crashes, also in the middle of a chunk, and a segment file or manifest that *)
(* cannot be written stay.                                                     *)

FilesAreWritten == FaultKind \cap {"persist", "torn", "pcm"} = {}

\* The absence of upload-sessions.json is no content of it.
NoneIsNoMap == \A ids \in SUBSET Nat : None \notin [ids -> Session]

\* What the recorder counts is in its files.
CountsAgree == counted = Len(cache) - origin /\ unflushed = 0

\* The files hold what the memory holds.
Saved ==
  /\ sessions \in [DOMAIN sessions -> Session]
  /\ savedFormat = format
  /\ format = None => DOMAIN sessions = {}
  /\ savedSessions = sessions \/ (savedSessions = None /\ DOMAIN sessions = {})
  /\ CountsAgree

\* Sample n of the log lies between the start of stream i and that of the next.
InPart(m, log, i, n) ==
  /\ m[i].start < n /\ n <= Len(log)
  /\ \A j \in DOMAIN m : j > i => n <= m[j].start

\* Streams begin in the order of their ids, and only the last one can be open.
InOrder(m, log) ==
  \A i \in DOMAIN m :
    /\ m[i].start <= Len(log)
    /\ \A j \in DOMAIN m : i < j => m[i].start <= m[j].start /\ ~IsOpen(m[i])

Contiguous(m, log) ==
  \A i \in DOMAIN m : \A n \in Nat :
    InPart(m, log, i, n) => log[n][2] = m[i].source + (n - m[i].start - 1)

\* Samples are appended to the last stream only, and where it stands.
Ledger(m, log) == InOrder(m, log) /\ Contiguous(m, log)

\* What a server with good files does to its streams.
Creates(body) ==
  /\ CanCreate(body)
  /\ sessions' = WithNewSession(body, issued + 1)
  /\ issued' = issued + 1 /\ active' = issued + 1
  /\ format' = body.format /\ savedFormat' = body.format
  /\ savedSessions' = sessions'
  /\ UNCHANGED <<cache, dropped, origin, counted, unflushed>>

Appends(body, count, log) ==
  /\ body.kind = "pcm" /\ PcmError(body) = "" /\ InPlace(body)
  /\ count \in 0..body.count
  /\ log = cache \o Samples(body.from, body.start, count)

Ends(body) ==
  /\ body.kind \in {"close", "mark"} /\ body.stream \in DOMAIN sessions
  /\ body.kind = "close" => body.final = ExpectedSample(sessions[body.stream])
  /\ EndSession(body.stream, body.kind = "mark")
  /\ UNCHANGED unflushed
  /\ savedSessions' = sessions'

\* Every message leaves the streams alone, opens one, appends to one or ends one, and
\* what it did is in the files (the handlers of StreamManager).
LEMMA StreamEffect ==
  ASSUME FilesAreWritten, Saved, NEW req \in Request, ProcessEnvelope(req)
  PROVE  \/ UNCHANGED streamVars
         \/ req.body.kind = "open" /\ req.body.format \in Format /\ Creates(req.body)
         \/ /\ \E count \in Nat : /\ Appends(req.body, count, cache')
                                  /\ counted' = counted + count
            /\ unflushed' = 0
            /\ UNCHANGED <<sessions, issued, active, format, origin, savedFormat, savedSessions>>
         \/ Ends(req.body)
<1> DEFINE body == req.body
<1>1. ~Fault("persist") /\ ~Fault("pcm") /\ unflushed = 0
  BY DEF Fault, FilesAreWritten, Saved, CountsAgree
<1>2. CASE OpenOrResume(req)
  <2>1. CASE body.format \in Format /\ CreateStream(req)
    BY <1>1, <1>2, <2>1 DEF CreateStream, SaveSessions, Creates, OpenOrResume
  <2> QED
    BY <1>1, <1>2, <2>1 DEF OpenOrResume, Resume, CreateCacheFails
<1>3. CASE PushPcm(req)
  <2>1. body.count \in Nat /\ body.kind = "pcm"
    BY <1>3, RequestParts, MessageParts DEF PushPcm
  <2>2. CASE UNCHANGED <<streamVars, faults>>
    BY <2>2
  <2>3. ASSUME PcmError(body) = "", InPlace(body),
               NEW count \in 0..body.count,
               cache' = cache \o Chunk(body, count), counted' = counted + count
        PROVE  \E n \in Nat : Appends(body, n, cache') /\ counted' = counted + n
    <3>1. count \in Nat
      BY <2>1
    <3>2. Appends(body, count, cache')
      BY <2>1, <2>3 DEF Appends, Chunk
    <3> QED
      BY <2>3, <3>1, <3>2
  <2>4. CASE PcmError(body) = "" /\ InPlace(body) /\ AppendChunk(body)
    <3>1. body.count \in 0..body.count
      BY <2>1
    <3> QED
      BY <1>3, <2>3, <2>4, <3>1 DEF AppendChunk, PushPcm
  <2>5. CASE PcmError(body) = "" /\ InPlace(body) /\ AppendPart(body)
    BY <1>3, <2>3, <2>5 DEF AppendPart, PushPcm
  <2> QED
    BY <1>1, <1>3, <2>2, <2>4, <2>5 DEF PushPcm
<1>4. CASE CloseStream(req)
  <2>1. CASE FlushFails
    BY <1>1, <2>1 DEF FlushFails
  <2> QED
    BY <1>1, <1>4, <2>1 DEF CloseStream, SaveSessions, Ends
<1>5. CASE MarkIncomplete(req)
  BY <1>1, <1>5 DEF MarkIncomplete, SaveSessions, Ends
<1>6. CASE Probe(req)
  BY <1>6 DEF Probe
<1> QED
  BY <1>2, <1>3, <1>4, <1>5, <1>6 DEF ProcessEnvelope, Handle

\* A restart finds the sessions as they were: there is nothing else in the files.
LEMMA ReloadFinds ==
  ASSUME Saved, NoneIsNoMap, Inv, NEW log, Reload(Files, log)
  PROVE  /\ sessions' = sessions \/ (DOMAIN sessions = {} /\ DOMAIN sessions' = {})
         /\ UNCHANGED <<issued, savedFormat, savedSessions>> /\ cache' = log
         /\ Saved'
<1>1. savedSessions' = savedSessions /\ savedFormat' = savedFormat
      /\ format' = savedFormat /\ issued' = issued /\ cache' = log /\ CountsAgree'
      /\ sessions' = IF savedFormat = None \/ savedSessions = None
                     THEN NoSessions ELSE savedSessions
  BY DEF Reload, Files, CountsAgree
<1>2. savedSessions = None => DOMAIN sessions = {}
  <2>1. sessions \in [DOMAIN sessions -> Session] /\ DOMAIN sessions \in SUBSET Nat
    BY DEF Saved, Inv, TypeOK, SessionsTypeOK, IsSessionMap
  <2>2. sessions # None
    BY <2>1 DEF NoneIsNoMap
  <2> QED
    BY <2>2 DEF Saved
<1>3. DOMAIN NoSessions = {} /\ NoSessions \in [DOMAIN NoSessions -> Session]
  BY DEF NoSessions
<1>4. CASE savedFormat = None \/ savedSessions = None
  BY <1>1, <1>2, <1>3, <1>4 DEF Saved
<1>5. CASE savedFormat # None /\ savedSessions # None
  BY <1>1, <1>5 DEF Saved
<1> QED
  BY <1>1, <1>4, <1>5

\* What is appended makes the log longer by as much.
LEMMA AppendsLength ==
  ASSUME CacheTypeOK, NEW body \in Message, NEW count \in Nat, NEW log,
         Appends(body, count, log)
  PROVE  Len(log) = Len(cache) + count
<1> DEFINE from == body.from
           first == body.start
<1>1. log = cache \o Samples(from, first, count)
  BY DEF Appends
<1>2. from \in Client /\ first \in Nat
  BY MessageParts DEF Appends
<1> HIDE DEF from, first
<1> QED
  BY <1>1, <1>2, AppendedType

\* Opening and ending a stream keeps the files up to date.
LEMMA SavedEffect ==
  ASSUME FilesAreWritten, Inv, Saved, NEW req \in Request, ProcessEnvelope(req)
  PROVE  Saved'
<1> DEFINE body == req.body
<1>1. body \in Message
  BY RequestParts
<1>2. CASE UNCHANGED streamVars
  BY <1>2 DEF Saved, CountsAgree
<1>3. CASE body.kind = "open" /\ body.format \in Format /\ Creates(body)
  <2>1. IsSessionMap(sessions)'
    BY <1>1, <1>3, NewSessionOpens DEF Creates
  <2>2. sessions' \in [DOMAIN sessions' -> Session]
    BY <1>3, <2>1 DEF Creates, WithNewSession, IsSessionMap
  <2>3. body.format # None
    BY <1>3, ServerConstants
  <2> QED
    BY <1>3, <2>2, <2>3 DEF Creates, Saved, CountsAgree
<1>4. ASSUME NEW count \in Nat, Appends(body, count, cache'), counted' = counted + count,
             unflushed' = 0,
             UNCHANGED <<sessions, issued, active, format, origin, savedFormat, savedSessions>>
      PROVE  Saved'
  <2>1. Len(cache') = Len(cache) + count
    BY <1>1, <1>4, AppendsLength DEF Inv, TypeOK
  <2>2. Len(cache) \in Nat /\ origin \in Nat
    BY LenProperties DEF Inv, TypeOK, CacheTypeOK
  <2> QED
    BY <1>4, <2>1, <2>2 DEF Saved, CountsAgree
<1>5. CASE Ends(body)
  <2>1. counted \in Nat
    BY DEF Inv, TypeOK, CacheTypeOK
  <2>2. body.stream \in DOMAIN sessions /\ sessions[body.stream] \in Session
    BY <1>5 DEF Ends, Saved
  <2>3. [sessions[body.stream] EXCEPT !.closed = TRUE,
           !.incomplete = sessions[body.stream].incomplete \/ body.kind = "mark",
           !.end = counted] \in Session
    BY <2>1, <2>2 DEF Session
  <2>4. DOMAIN sessions' = DOMAIN sessions /\ sessions' \in [DOMAIN sessions -> Session]
    BY <1>5, <2>3 DEF Ends, EndSession, Saved
  <2> QED
    BY <1>5, <2>2, <2>4 DEF Ends, EndSession, Saved, CountsAgree
<1> QED
  BY <1>2, <1>3, <1>4, <1>5, StreamEffect

\* A new stream begins at the end of the log, where the part of the one it cuts off
\* ends.
LEMMA LedgerCreate ==
  ASSUME Inv, Saved, origin = 0, Ledger(sessions, cache),
         NEW body \in Message, body.kind = "open", Creates(body)
  PROVE  Ledger(sessions', cache)
<1> DEFINE id == issued + 1
<1>1. Len(cache) \in Nat /\ counted = Len(cache)
  BY LenProperties DEF Inv, TypeOK, CacheTypeOK, Saved, CountsAgree
<1>2. issued \in Nat /\ DOMAIN sessions \subseteq 1..issued
      /\ \A i \in DOMAIN sessions : sessions[i] \in Session
  BY DEF Inv, TypeOK, SessionsTypeOK, IsSessionMap
<1>3. /\ DOMAIN sessions' = DOMAIN sessions \cup {id}
      /\ \A i \in DOMAIN sessions : i \in Nat /\ i < id /\ ~(id < i)
      /\ id \in Nat /\ id \notin DOMAIN sessions
  BY <1>2 DEF Creates, WithNewSession
<1>4. sessions'[id].start = Len(cache)
  <2>1. sessions'[id] = NewSession(body)
    BY <1>3, ServerConstants DEF Inv, TypeOK, SessionsTypeOK, Creates, WithNewSession
  <2> QED
    BY <1>1, <2>1 DEF NewSession
<1>5. OneOpenSession' /\ active' = id
  BY NewSessionOpens DEF Creates
<1>6. ASSUME NEW i \in DOMAIN sessions
      PROVE  /\ sessions'[i].start = sessions[i].start /\ sessions'[i].source = sessions[i].source
             /\ ~IsOpen(sessions'[i])
  <2>1. sessions'[i] = IF i = active THEN CutOff(sessions[i]) ELSE sessions[i]
    BY <1>3 DEF Creates, WithNewSession
  <2>2. sessions'[i].start = sessions[i].start /\ sessions'[i].source = sessions[i].source
    BY <1>2, <2>1 DEF CutOff, Session
  <2> QED
    BY <1>3, <1>5, <2>2 DEF OneOpenSession
<1>7. InOrder(sessions', cache)
  <2>1. ASSUME NEW i \in DOMAIN sessions
        PROVE  /\ sessions'[i].start <= Len(cache)
               /\ \A j \in DOMAIN sessions' : i < j =>
                     sessions'[i].start <= sessions'[j].start /\ ~IsOpen(sessions'[i])
    BY <1>3, <1>4, <1>6 DEF Ledger, InOrder
  <2>2. sessions'[id].start <= Len(cache) /\ \A j \in DOMAIN sessions' : ~(id < j)
    BY <1>1, <1>3, <1>4
  <2> QED
    BY <1>3, <2>1, <2>2 DEF InOrder
<1>8. Contiguous(sessions', cache)
  <2>1. ASSUME NEW i \in DOMAIN sessions, NEW n \in Nat, InPart(sessions', cache, i, n)
        PROVE  cache[n][2] = sessions'[i].source + (n - sessions'[i].start - 1)
    <3>1. InPart(sessions, cache, i, n)
      BY <1>3, <1>6, <2>1 DEF InPart
    <3> QED
      BY <1>6, <3>1 DEF Ledger, Contiguous
  <2>2. \A n \in Nat : ~InPart(sessions', cache, id, n)
    BY <1>1, <1>4 DEF InPart
  <2> QED
    BY <1>3, <2>1, <2>2 DEF Contiguous
<1> QED
  BY <1>7, <1>8 DEF Ledger

\* Ending a stream moves no start and opens nothing.
LEMMA LedgerEnd ==
  ASSUME Inv, Ledger(sessions, cache), NEW body, Ends(body)
  PROVE  Ledger(sessions', cache)
<1> DEFINE stream == body.stream
<1>1. /\ DOMAIN sessions' = DOMAIN sessions
      /\ \A i \in DOMAIN sessions : i # stream => sessions'[i] = sessions[i]
      /\ sessions'[stream] = [sessions[stream] EXCEPT !.closed = TRUE,
                                !.incomplete = sessions[stream].incomplete \/ body.kind = "mark",
                                !.end = counted]
  BY DEF Ends, EndSession
<1>2. stream \in DOMAIN sessions /\ sessions[stream] \in Session
  BY DEF Ends, Inv, TypeOK, SessionsTypeOK, IsSessionMap
<1>3. \A i \in DOMAIN sessions :
        /\ sessions'[i].start = sessions[i].start /\ sessions'[i].source = sessions[i].source
        /\ IsOpen(sessions'[i]) => IsOpen(sessions[i])
  BY <1>1, <1>2 DEF Session, IsOpen
<1>4. InOrder(sessions', cache)
  BY <1>1, <1>3 DEF Ledger, InOrder
<1>5. \A i \in DOMAIN sessions : \A n \in Nat :
        InPart(sessions', cache, i, n) => InPart(sessions, cache, i, n)
  BY <1>1, <1>3 DEF InPart
<1> QED
  BY <1>1, <1>3, <1>4, <1>5 DEF Ledger, Contiguous

\* The appended samples follow the old ones and count on from the chunk's start.
LEMMA AppendedSamples ==
  ASSUME CacheTypeOK, NEW c \in Client, NEW from \in Nat, NEW count \in Nat
  PROVE  LET log == cache \o Samples(c, from, count) IN
         /\ log \in Seq(Client \X Nat) /\ Len(log) = Len(cache) + count
         /\ \A n \in 1..Len(cache) : log[n] = cache[n]
         /\ \A n \in 1..Len(log) : n > Len(cache) => log[n] = <<c, from + (n - Len(cache)) - 1>>
<1> DEFINE log == cache \o Samples(c, from, count)
<1>1. /\ Samples(c, from, count) \in Seq(Client \X Nat)
      /\ Len(Samples(c, from, count)) = count
  BY SamplesType
<1>2. cache \in Seq(Client \X Nat) /\ Len(cache) \in Nat
  BY LenProperties DEF CacheTypeOK
<1>3. \A n \in 1..count : Samples(c, from, count)[n] = <<c, from + n - 1>>
  BY DEF Samples
<1>4. /\ log \in Seq(Client \X Nat) /\ Len(log) = Len(cache) + count
      /\ \A n \in 1..Len(log) :
           log[n] = IF n <= Len(cache) THEN cache[n] ELSE Samples(c, from, count)[n - Len(cache)]
  BY <1>1, <1>2, ConcatProperties
<1> HIDE DEF log
<1>5. ASSUME NEW n \in 1..Len(log), n > Len(cache)
      PROVE  log[n] = <<c, from + (n - Len(cache)) - 1>>
  <2>0. n - Len(cache) \in 1..count
    BY <1>2, <1>4, <1>5
  <2>1. PICK k \in 1..count : k = n - Len(cache)
    BY <2>0
  <2>2. ~(n <= Len(cache))
    BY <1>2, <1>4, <1>5
  <2>3. log[n] = Samples(c, from, count)[k]
    BY <1>4, <2>1, <2>2
  <2>4. log[n] = <<c, from + k - 1>>
    BY <1>3, <2>3
  <2> QED
    BY <2>1, <2>4
<1>6. \A n \in 1..Len(cache) : log[n] = cache[n]
  BY <1>2, <1>4
<1> QED
  BY <1>4, <1>5, <1>6 DEF log

\* A chunk, or as much of it as was written, carries the last stream on where it
\* stands and belongs to no other.
LEMMA LedgerAppend ==
  ASSUME Inv, Saved, origin = 0, Ledger(sessions, cache), NEW body \in Message,
         NEW count \in Nat, NEW log, Appends(body, count, log)
  PROVE  Ledger(sessions, log)
<1> DEFINE stream == body.stream
           s == sessions[stream]
<1>1. body.from \in Client /\ body.start \in Nat /\ body.count \in Nat
  BY MessageParts DEF Appends
<1>2. stream \in DOMAIN sessions /\ IsOpen(s)
  BY DEF Appends, PcmError
<1>3. CacheTypeOK /\ Len(cache) \in Nat /\ counted = Len(cache)
  BY LenProperties DEF Inv, TypeOK, CacheTypeOK, Saved, CountsAgree
<1>4. DOMAIN sessions \subseteq Nat /\ \A i \in DOMAIN sessions : sessions[i] \in Session
  BY DEF Inv, TypeOK, SessionsTypeOK, IsSessionMap
<1>5. \A i \in DOMAIN sessions : i # stream => i < stream
  BY <1>2, <1>4 DEF Ledger, InOrder
<1>6. s.start <= Len(cache)
  BY <1>2 DEF Ledger, InOrder
<1>7. body.start = s.source + (Len(cache) - s.start)
  <2>1. body.start = s.source + SaturatingSub(Len(cache), s.start)
    BY <1>3 DEF Appends, InPlace, ExpectedSample, Position
  <2>2. s.source \in Nat /\ s.start \in Nat
    BY <1>2, <1>4 DEF Session
  <2> QED
    BY <1>3, <1>6, <2>1, <2>2 DEF SaturatingSub
<1>8. /\ log \in Seq(Client \X Nat) /\ Len(log) = Len(cache) + count
      /\ \A n \in 1..Len(cache) : log[n] = cache[n]
      /\ \A n \in 1..Len(log) :
           n > Len(cache) => log[n] = <<body.from, body.start + (n - Len(cache)) - 1>>
  <2> DEFINE from == body.from
             first == body.start
  <2>1. log = cache \o Samples(from, first, count)
    BY DEF Appends
  <2>2. from \in Client /\ first \in Nat /\ CacheTypeOK
    BY <1>1, <1>3
  <2> HIDE DEF from, first
  <2>3. /\ log \in Seq(Client \X Nat) /\ Len(log) = Len(cache) + count
        /\ \A n \in 1..Len(cache) : log[n] = cache[n]
        /\ \A n \in 1..Len(log) : n > Len(cache) => log[n] = <<from, first + (n - Len(cache)) - 1>>
    BY <2>1, <2>2, AppendedSamples
  <2> QED
    BY <2>3 DEF from, first
<1>9. InOrder(sessions, log)
  <2>1. \A i \in DOMAIN sessions : sessions[i].start \in Nat
    BY <1>4 DEF Session
  <2> QED
    BY <1>3, <1>8, <2>1 DEF Ledger, InOrder
<1>10. ASSUME NEW i \in DOMAIN sessions, NEW n \in Nat, InPart(sessions, log, i, n)
       PROVE  log[n][2] = sessions[i].source + (n - sessions[i].start - 1)
  <2>1. sessions[i].start \in Nat /\ sessions[i].source \in Nat /\ s.start \in Nat /\ s.source \in Nat
    BY <1>2, <1>4 DEF Session
  <2>2. sessions[i].start < n /\ n \in 1..Len(log)
    BY <1>3, <1>8, <1>10, <2>1 DEF InPart
  <2>3. CASE n <= Len(cache)
    <3>1. InPart(sessions, cache, i, n)
      BY <1>10, <2>3 DEF InPart
    <3>2. log[n] = cache[n]
      BY <1>3, <1>8, <2>2, <2>3
    <3>3. Contiguous(sessions, cache)
      BY DEF Ledger
    <3>4. cache[n][2] = sessions[i].source + (n - sessions[i].start - 1)
      BY <3>1, <3>3 DEF Contiguous
    <3> QED
      BY <3>2, <3>4
  <2>4. CASE n > Len(cache)
    <3>1. i = stream
      <4>1. CASE i < stream
        BY <1>2, <1>3, <1>6, <1>10, <2>1, <2>4, <4>1 DEF InPart
      <4> QED
        BY <1>5, <4>1
    <3>2. log[n][2] = body.start + (n - Len(cache)) - 1
      BY <1>8, <2>2, <2>4
    <3>3. body.start = sessions[i].source + (Len(cache) - sessions[i].start)
      BY <1>7, <3>1
    <3>4. body.start + (n - Len(cache)) - 1 = sessions[i].source + (n - sessions[i].start - 1)
      BY <1>3, <2>1, <3>3
    <3> QED
      BY <3>2, <3>4
  <2> QED
    BY <1>3, <2>3, <2>4
<1> QED
  BY <1>9, <1>10 DEF Ledger, Contiguous

\* The invariant of a server that has the files it wrote and counts all samples it
\* has: StreamsAreContiguous alone does not say who may append.
StreamsInv == Inv /\ Saved /\ Ledger(sessions, cache)

\* A restart takes the ledger over as it is on disk.
LEMMA LedgerReload ==
  ASSUME Inv, Saved, NoneIsNoMap, NEW log, Ledger(sessions, log), Reload(Files, log)
  PROVE  Saved' /\ Ledger(sessions', cache')
<1>1. /\ sessions' = sessions \/ (DOMAIN sessions = {} /\ DOMAIN sessions' = {})
      /\ cache' = log /\ Saved'
  BY ReloadFinds
<1> QED
  BY <1>1 DEF Ledger, InOrder, Contiguous, InPart

\* Every envelope keeps the ledger.
LEMMA LedgerEnvelope ==
  ASSUME FilesAreWritten, StreamsInv, origin = 0, NEW req \in Request, ProcessEnvelope(req)
  PROVE  StreamsInv'
<1> DEFINE body == req.body
<1> USE DEF StreamsInv
<1>1. body \in Message /\ Inv' /\ Saved'
  BY RequestParts, EnvelopeStep, SavedEffect
<1>2. CASE UNCHANGED streamVars
  BY <1>1, <1>2
<1>3. CASE body.kind = "open" /\ Creates(body)
  BY <1>1, <1>3, LedgerCreate DEF Creates
<1>4. ASSUME NEW count \in Nat, Appends(body, count, cache'), UNCHANGED sessions
      PROVE  StreamsInv'
  BY <1>1, <1>4, LedgerAppend
<1>5. CASE Ends(body)
  BY <1>1, <1>5, LedgerEnd DEF Ends, EndSession
<1> QED
  BY <1>2, <1>3, <1>4, <1>5, StreamEffect

\* With nothing in the BufWriter a crash loses nothing.
LEMMA NothingLost ==
  ASSUME CacheTypeOK, unflushed = 0, NEW lost \in 0..unflushed
  PROVE  Without(lost) = cache
<1>1. cache \in Seq(Client \X Nat) /\ Len(cache) \in Nat /\ lost = 0
  BY LenProperties DEF CacheTypeOK
<1>2. SubSeq(cache, 1, Len(cache)) = cache
  BY <1>1, SubSeqFull
<1> QED
  BY <1>1, <1>2 DEF Without

\* A crash between two requests keeps it.
LEMMA LedgerCrash ==
  ASSUME NoneIsNoMap, StreamsInv, Crash
  PROVE  StreamsInv'
<1>1. PICK lost \in 0..unflushed : Reload(Files, Without(lost))
  BY DEF Crash
<1>2. Without(lost) = cache
  BY NothingLost DEF StreamsInv, Saved, CountsAgree, Inv, TypeOK
<1> QED
  BY <1>1, <1>2, CrashStep, LedgerReload DEF StreamsInv

\* What a crash in the middle of a chunk leaves behind are the first samples of the
\* chunk behind all that was there.
LEMMA PartOfChunk ==
  ASSUME CacheTypeOK, unflushed = 0, NEW req \in Request, CrashInPush(req)
  PROVE  \E count \in Nat : \E log : Appends(req.body, count, log) /\ Reload(Files, log)
<1> DEFINE body == req.body
           from == body.from
           first == body.start
           most == body.count
           all == cache \o Samples(from, first, most)
<1>1. from \in Client /\ first \in Nat /\ most \in Nat
  BY RequestParts, MessageParts DEF CrashInPush
<1>2. cache \in Seq(Client \X Nat) /\ Len(cache) \in Nat
  BY LenProperties DEF CacheTypeOK
<1>3. PICK length \in (Len(cache) - unflushed)..(Len(cache) + most) :
        Reload(Files, SubSeq(all, 1, length))
  BY DEF CrashInPush, Chunk
<1> DEFINE count == length - Len(cache)
           log == cache \o Samples(from, first, count)
<1>4. count \in 0..most /\ count \in Nat /\ length = Len(cache) + count
  BY <1>1, <1>2, <1>3
<1>5. SubSeq(all, 1, length) = log
  <2> HIDE DEF from, first, most, count
  <2>1. /\ all \in Seq(Client \X Nat) /\ Len(all) = Len(cache) + most
        /\ \A n \in 1..Len(cache) : all[n] = cache[n]
        /\ \A n \in 1..Len(all) :
             n > Len(cache) => all[n] = <<from, first + (n - Len(cache)) - 1>>
    BY <1>1, AppendedSamples
  <2>2. /\ log \in Seq(Client \X Nat) /\ Len(log) = Len(cache) + count
        /\ \A n \in 1..Len(cache) : log[n] = cache[n]
        /\ \A n \in 1..Len(log) :
             n > Len(cache) => log[n] = <<from, first + (n - Len(cache)) - 1>>
    BY <1>1, <1>4, AppendedSamples
  <2> HIDE DEF all, log
  <2>3. length \in Nat /\ length <= Len(all)
    BY <1>2, <1>4, <2>1
  <2>4. SubSeq(all, 1, length) \in Seq(Client \X Nat) /\ Len(SubSeq(all, 1, length)) = length
    BY <2>1, <2>3, PrefixType
  <2>5. ASSUME NEW n \in 1..length
        PROVE  SubSeq(all, 1, length)[n] = log[n]
    <3>1. SubSeq(all, 1, length)[n] = all[n]
      BY <2>1, <2>3, <2>5, SubSeqProperties
    <3>2. n \in 1..Len(all) /\ n \in 1..Len(log) /\ (n \in 1..Len(cache) \/ n > Len(cache))
      BY <1>2, <1>4, <2>1, <2>2, <2>3
    <3>3. all[n] = log[n]
      BY <2>1, <2>2, <3>2
    <3> QED
      BY <3>1, <3>3
  <2> QED
    BY <1>2, <1>4, <2>2, <2>4, <2>5, SeqEqual
<1>6. Appends(body, count, log)
  BY <1>4 DEF CrashInPush, Appends
<1> QED
  BY <1>3, <1>4, <1>5, <1>6

\* So does a crash that leaves part of a chunk behind.
LEMMA LedgerCrashInPush ==
  ASSUME NoneIsNoMap, StreamsInv, origin = 0, NEW req \in Request, CrashInPush(req)
  PROVE  StreamsInv'
<1> DEFINE body == req.body
<1>1. Inv /\ Saved /\ Ledger(sessions, cache) /\ Inv'
  BY CrashInPushStep DEF StreamsInv
<1>2. body \in Message
  BY RequestParts
<1>3. PICK count \in Nat : \E log : Appends(body, count, log) /\ Reload(Files, log)
  BY <1>1, PartOfChunk DEF Inv, TypeOK, Saved, CountsAgree
<1>4. PICK log : Appends(body, count, log) /\ Reload(Files, log)
  BY <1>3
<1>5. Ledger(sessions, log)
  BY <1>1, <1>2, <1>4, LedgerAppend
<1> QED
  BY <1>1, <1>4, <1>5, LedgerReload DEF StreamsInv

\* What makes the ledger's parts those of StreamsAreContiguous: a set of naturals has
\* a least element.
LEMMA LeastOf ==
  ASSUME NEW S, S \subseteq Nat, S # {}
  PROVE  \E k \in S : \A j \in S : k <= j
<1> DEFINE R == {p \in Nat \X Nat : p[1] < p[2]}
<1>1. IsWellFoundedOn(R, Nat)
  BY NatLessThanWellFounded DEF OpToRel
<1>2. PICK k \in S : \A j \in S : <<j, k>> \notin R
  <2> HIDE DEF R
  <2> QED
    BY <1>1, WFMin
<1>3. \A j \in S : ~(j < k)
  BY <1>2
<1> QED
  BY <1>3

\* NextStart is where the part of a stream ends.
LEMMA LedgerIsContiguous ==
  ASSUME Inv, Saved, origin = 0, Ledger(sessions, cache)
  PROVE  StreamsAreContiguous
<1>1. DOMAIN sessions \subseteq Nat /\ \A i \in DOMAIN sessions : sessions[i] \in Session
  BY DEF Inv, TypeOK, SessionsTypeOK, IsSessionMap
<1>2. Len(cache) \in Nat /\ counted = Len(cache)
  BY LenProperties DEF Inv, TypeOK, CacheTypeOK, Saved, CountsAgree
<1> SUFFICES ASSUME NEW i \in DOMAIN sessions,
                    NEW n \in (sessions[i].start + 1)..NextStart(i)
             PROVE  cache[origin + n][2] = sessions[i].source + (n - sessions[i].start - 1)
  BY DEF StreamsAreContiguous
<1> DEFINE later == {j \in DOMAIN sessions : j > i}
<1>3. \A j \in DOMAIN sessions : sessions[j].start \in Nat /\ sessions[j].start <= Len(cache)
  BY <1>1 DEF Session, Ledger, InOrder
<1>4. CASE later = {}
  <2>1. NextStart(i) = Len(cache)
    BY <1>2, <1>4 DEF NextStart
  <2>2. n \in Nat /\ InPart(sessions, cache, i, n)
    BY <1>2, <1>3, <1>4, <2>1 DEF InPart
  <2> QED
    BY <2>2 DEF Ledger, Contiguous
<1>5. CASE later # {}
  <2> DEFINE next == CHOOSE j \in later : \A k \in later : j <= k
  <2>1. \E j \in later : \A k \in later : j <= k
    BY <1>1, <1>5, LeastOf
  <2>2. next \in later /\ \A k \in later : next <= k
    BY <2>1
  <2>3. NextStart(i) = sessions[next].start
    BY <1>5 DEF NextStart
  <2>4. \A k \in later : sessions[next].start <= sessions[k].start
    <3> HIDE DEF next
    <3>1. \A k \in later : k = next \/ next < k
      BY <1>1, <2>2
    <3> QED
      BY <1>3, <2>2, <3>1 DEF Ledger, InOrder
  <2>5. n \in Nat /\ InPart(sessions, cache, i, n)
    <3> HIDE DEF next
    <3>1. next \in DOMAIN sessions
      BY <2>2
    <3>2. n \in Nat /\ sessions[i].start < n /\ n <= sessions[next].start
      BY <1>3, <2>3, <3>1
    <3> QED
      BY <1>2, <1>3, <2>4, <3>1, <3>2 DEF InPart
  <2> QED
    BY <2>5 DEF Ledger, Contiguous
<1> QED
  BY <1>4, <1>5

\* The positions of push_pcm and of StreamManager::open: as long as the two JSON files
\* and the PCM are written and no restart renumbers the cache after retention has
\* deleted from it, the part of the cache a stream was given is its recording without a
\* gap, a repeat or a swap, for any chunks, retries, late copies, segments or manifests
\* that cannot be created, and crashes, also in the middle of a chunk.
THEOREM StreamsStayContiguous ==
  ASSUME FilesAreWritten, NoneIsNoMap
  PROVE  Spec /\ [](origin = 0) => []StreamsAreContiguous
<1>1. Init => StreamsInv
  <2> SUFFICES ASSUME Init PROVE StreamsInv
    OBVIOUS
  <2>1. DOMAIN sessions = {} /\ sessions \in [DOMAIN sessions -> Session]
    BY DEF Init, NoSessions
  <2> QED
    BY <2>1, InitInv DEF Init, StreamsInv, Saved, CountsAgree, Ledger, InOrder, Contiguous
<1>2. StreamsInv /\ origin = 0 /\ [Next]_serverVars => StreamsInv'
  <2> SUFFICES ASSUME StreamsInv, origin = 0, [Next]_serverVars PROVE StreamsInv'
    OBVIOUS
  <2>1. Inv'
    BY NextInv DEF StreamsInv
  <2>2. CASE UNCHANGED streamVars
    BY <2>1, <2>2 DEF StreamsInv, Saved, CountsAgree
  <2>3. ASSUME NEW req \in Arrivals,
               ProcessEnvelope(req) \/ CrashInPush(req) \/ CrashInPersist(req)
        PROVE  StreamsInv'
    <3>1. req \in Request
      BY ServerConstants DEF Arrivals, Request
    <3>2. ~CrashInPersist(req)
      BY DEF CrashInPersist, Fault, FilesAreWritten
    <3> QED
      BY <2>3, <3>1, <3>2, LedgerEnvelope, LedgerCrashInPush
  <2>4. CASE Crash
    BY <2>4, LedgerCrash
  <2> QED
    BY <2>2, <2>3, <2>4 DEF Next, Challenge, ExpireEpoch
<1>3. StreamsInv /\ origin = 0 => StreamsAreContiguous
  BY LedgerIsContiguous DEF StreamsInv
<1> QED
  BY <1>1, <1>2, <1>3, PTL DEF Spec

=============================================================================
