-------------------------- MODULE UploadSync_proofs --------------------------
(***************************************************************************)
(* The upload as it runs, clients and server together, for any number of   *)
(* clients, epochs, samples and faults.                                    *)
(***************************************************************************)
EXTENDS UploadSync, UploadServer_proofs

USE DEF clientVars, recorderVars, cacheVars, streamVars, serverVars

-----------------------------------------------------------------------------
(* The invariant *)

(* It says who owns what.  An epoch that a session uses is its client's: the  *)
(* requests in it are that client's and no younger than the session.  A       *)
(* stream that a client was told about is that client's, as long as the       *)
(* server or its file knows it.  And the key of a new logical stream is new.  *)

HasLink(c) == link[c] \in Link

\* Client and recorder have their types; a thread that exchanges a message has a
\* session, and one that has not started has nothing.
ClientTypes ==
  /\ total \in Nat /\ retained \in 0..total
  /\ pc \in [Client -> {"off", "idle", "challenge", "sending", "read", "done"}]
  /\ stopping \in [Client -> BOOLEAN]
  /\ newest \in Client \cup {None}
  /\ start \in [Client -> Nat] /\ suffix \in [Client -> Nat] /\ want \in [Client -> Nat]
  /\ link \in [Client -> Link \cup {None}]
  /\ seen \in [Client -> Nat \cup {None}]
  /\ requests \subseteq Request
  /\ \A c \in Client :
       /\ Sending(c) <=> waiting[c] # None
       /\ start[c] <= total
       /\ Sending(c) => HasLink(c)
       /\ pc[c] = "challenge" \/ HasLink(c) => want[c] >= start[c]
       /\ pc[c] = "read" => HasLink(c) /\ seen[c] \in Nat /\ link[c].next < seen[c]
       /\ pc[c] = "off" => ~HasLink(c)

\* The message under way is the one the session is at.
Exchange(c) ==
  Sending(c) =>
    /\ waiting[c].epoch = link[c].epoch /\ waiting[c].seq = link[c].seq
    /\ Sent(c).from = c
    /\ Sent(c).kind = "open" => Sent(c).key = <<c, suffix[c]>> /\ Sent(c).source = want[c]
    /\ Sent(c).kind \in {"pcm", "close", "mark"} => Sent(c).stream = link[c].stream

\* What has come back is the answer of this exchange: a 200 means that the server has
\* counted the message, and nothing else brings a message.
Answered(c) ==
  Sending(c) /\ reply[c] # None =>
    IF reply[c].code = 200
    THEN /\ reply[c].message \in Response
         /\ epochs[link[c].epoch].live => epochs[link[c].epoch].expected = link[c].seq + 1
    ELSE reply[c].message = None

\* No request of the epoch is ahead of the session that uses it, and only the message
\* under way is level with it.
Level(c, req) ==
  req.epoch = link[c].epoch =>
    /\ req.body.from = c /\ req.seq <= link[c].seq
    /\ req.seq = link[c].seq /\ pc[c] \in {"idle", "read", "sending"} =>
         Sending(c) /\ req.body = Sent(c)

\* Every epoch in use has one user, whose requests are all there is in it.
EpochsInUse ==
  /\ \A c, d \in Client :
       HasLink(c) /\ HasLink(d) /\ link[c].epoch = link[d].epoch => c = d
  /\ \A c \in Client : HasLink(c) =>
       /\ epochs[link[c].epoch].live =>
            epochs[link[c].epoch].expected \in {link[c].seq, link[c].seq + 1}
       /\ \A req \in requests : Level(c, req)
  /\ \A req \in requests :
       epochs[req.epoch].live => req.seq <= epochs[req.epoch].expected
  /\ \A e \in Epoch : epochs[e].expected > 0 => epochs[e].answer \in Response

Exchanges == (\A c \in Client : Exchange(c) /\ Answered(c)) /\ EpochsInUse

\* A logical stream of client c, by its key and where it begins.
IsKeyOf(c, key, source) ==
  /\ key[1] = c /\ pc[c] # "off"
  /\ source >= start[c] /\ key[2] <= suffix[c]

KeysOK(m) == \A i \in DOMAIN m : IsKeyOf(m[i].key[1], m[i].key, m[i].source)

\* Server stream i is of client c wherever it is known.
IsStreamOf(i, c) ==
  /\ i <= issued
  /\ i \in DOMAIN sessions => sessions[i].key[1] = c
  /\ savedSessions # None /\ i \in DOMAIN savedSessions => savedSessions[i].key[1] = c

OwnedRequest(body) ==
  /\ pc[body.from] # "off"
  /\ body.kind = "open" => IsKeyOf(body.from, body.key, body.source)
  /\ body.kind \in {"pcm", "close", "mark"} => IsStreamOf(body.stream, body.from)

\* The file and the memory agree on whose a stream is.
SameKeys ==
  savedSessions # None =>
    \A i \in DOMAIN sessions \cap DOMAIN savedSessions : savedSessions[i].key = sessions[i].key

Owners ==
  /\ KeysOK(sessions) /\ (savedSessions # None => KeysOK(savedSessions)) /\ SameKeys
  /\ \A req \in requests : OwnedRequest(req.body)
  /\ \A c \in Client :
       /\ HasLink(c) => IsStreamOf(link[c].stream, c)
       /\ Sending(c) /\ Sent(c).kind = "open" /\ reply[c] # None /\ reply[c].code = 200 =>
            IsStreamOf(reply[c].message.stream, c)
  /\ \A e \in Epoch :
       epochs[e].expected > 0 /\ epochs[e].last.body.kind = "open" =>
         IsStreamOf(epochs[e].answer.stream, epochs[e].last.body.from)

\* No sample lies before its upload was turned on.
SamplesAreNew ==
  \A i \in 1..Len(cache) :
    pc[cache[i][1]] # "off" /\ cache[i][2] >= start[cache[i][1]]

HasKey(m, key) == \E i \in DOMAIN m : m[i].key = key

\* The answer to the open of a new logical stream, if it is one, offers its beginning.
OffersStart(m, position) == m.status = "ok" /\ m.stream # 0 => m.next = position

\* After a gap the call goes on with the bounds it had read: its new logical stream
\* begins within them, and is new to the server.
Fresh(c) ==
  LET key == <<c, suffix[c]>> IN
  seen[c] # None =>
    /\ pc[c] = "challenge" =>
         /\ want[c] <= seen[c]
         /\ ~HasKey(sessions, key) /\ (savedSessions # None => ~HasKey(savedSessions, key))
         /\ \A req \in requests : req.body.kind = "open" => req.body.key # key
    /\ Sending(c) /\ Sent(c).kind = "mark" => want[c] <= seen[c]
    /\ Sending(c) /\ Sent(c).kind = "open" =>
         LET e == epochs[link[c].epoch] IN
         /\ want[c] <= seen[c] /\ link[c].seq = 0
         /\ \A req \in requests : req.body.kind = "open" /\ req.body.key = key =>
              req.epoch = link[c].epoch
         /\ e.live /\ e.expected = 0 => ~HasKey(sessions, key)
         /\ e.live /\ e.expected > 0 => OffersStart(e.answer, want[c])
         /\ reply[c] # None /\ reply[c].code = 200 => OffersStart(reply[c].message, want[c])

AllFresh == \A c \in Client : Fresh(c)

SyncInv == Inv /\ ClientTypes /\ Exchanges /\ Owners /\ SamplesAreNew /\ AllFresh

-----------------------------------------------------------------------------
(* The steps of a thread *)

(* All a thread does is one of four things: it goes on without the server, it *)
(* is done with an exchange, it sends a message, or it is told to stop.       *)

Others(c) ==
  \A d \in Client \ {c} :
    /\ pc'[d] = pc[d] /\ start'[d] = start[d] /\ suffix'[d] = suffix[d]
    /\ link'[d] = link[d] /\ want'[d] = want[d] /\ seen'[d] = seen[d]
    /\ waiting'[d] = waiting[d] /\ reply'[d] = reply[d]

GoesOn(c) ==
  /\ Others(c) /\ pc[c] \notin {"sending", "done"}
  /\ pc'[c] \in {"idle", "challenge", "read", "done"}
  /\ UNCHANGED <<streamVars, epochs, waiting, reply, requests>>
  /\ link'[c] \in {link[c], None}
  /\ pc'[c] \in {"idle", "read"} => link'[c] = None \/ pc[c] \in {"idle", "read"}
  /\ pc'[c] = "challenge" => seen'[c] = None
  /\ pc[c] # "off" => start'[c] = start[c]
  /\ suffix'[c] = suffix[c]

HangsUp(c) ==
  /\ Others(c) /\ Sending(c)
  /\ pc'[c] \in {"idle", "challenge", "read", "done"}
  /\ UNCHANGED <<streamVars, epochs, requests>>
  /\ waiting'[c] = None /\ reply'[c] = None
  /\ start'[c] = start[c] /\ want'[c] = want[c] /\ seen'[c] = seen[c]
  /\ \/ link'[c] = None
     \/ link'[c] = link[c] /\ pc'[c] \in {"challenge", "done"}
     \/ /\ reply[c] # None /\ reply[c].code = 200
        /\ link'[c] \in Link /\ link'[c].epoch = link[c].epoch /\ link'[c].seq = link[c].seq + 1
        /\ link'[c].next = reply[c].message.next
        /\ \/ Sent(c).kind = "pcm" /\ link'[c].stream = link[c].stream
           \/ /\ Sent(c).kind = "open" /\ reply[c].message.status = "ok"
              /\ link'[c].stream = reply[c].message.stream
  /\ IF Sent(c).kind = "mark" THEN pc'[c] = "challenge" /\ suffix'[c] = suffix[c] + 1
     ELSE pc'[c] # "challenge" /\ suffix'[c] = suffix[c]
  /\ Sent(c).kind = "close" => pc'[c] = "done"

\* The same envelope again.
Resends(c) ==
  /\ Sending(c) /\ link'[c] = link[c] /\ waiting'[c].body = Sent(c)
  /\ want'[c] = want[c] /\ seen'[c] = seen[c] /\ UNCHANGED epochs

\* The next message of a session.
SendsOn(c) ==
  /\ pc[c] \in {"idle", "read"} /\ HasLink(c) /\ link'[c] = link[c] /\ UNCHANGED epochs
  /\ waiting'[c].body.kind \in {"pcm", "close", "mark"}
  /\ waiting'[c].body.stream = link[c].stream
  /\ waiting'[c].body.kind = "mark" /\ seen'[c] # None => want'[c] <= seen'[c]
  /\ waiting'[c].body.kind = "close" => waiting'[c].body.final = link[c].next

\* The first message of one.
Opens(c) ==
  /\ pc[c] = "challenge"
  /\ link'[c].epoch \in FreeEpochs /\ link'[c].seq = 0 /\ link'[c].stream = 0
  /\ epochs' = [epochs EXCEPT ![link'[c].epoch] = FreshEpoch]
  /\ waiting'[c].body.kind = "open" /\ waiting'[c].body.key = <<c, suffix[c]>>
  /\ waiting'[c].body.source = want[c]
  /\ want'[c] = want[c] /\ seen'[c] = seen[c]

Sends(c) ==
  /\ Others(c) /\ pc[c] # "off" /\ pc'[c] = "sending"
  /\ UNCHANGED streamVars
  /\ start'[c] = start[c] /\ suffix'[c] = suffix[c]
  /\ link'[c] \in Link /\ waiting'[c] \in Request /\ reply'[c] = None
  /\ requests' = requests \cup {waiting'[c]}
  /\ waiting'[c].epoch = link'[c].epoch /\ waiting'[c].seq = link'[c].seq
  /\ waiting'[c].body.from = c
  /\ Resends(c) \/ SendsOn(c) \/ Opens(c)

\* The part of the types that is about one client.
ClientOK(c) ==
  /\ Sending(c) <=> waiting[c] # None
  /\ start[c] <= total
  /\ Sending(c) => HasLink(c)
  /\ pc[c] = "challenge" \/ HasLink(c) => want[c] >= start[c]
  /\ pc[c] = "read" => HasLink(c) /\ seen[c] \in Nat /\ link[c].next < seen[c]
  /\ pc[c] = "off" => ~HasLink(c)

Functions ==
  /\ pc \in [Client -> {"off", "idle", "challenge", "sending", "read", "done"}]
  /\ stopping \in [Client -> BOOLEAN]
  /\ newest \in Client \cup {None}
  /\ start \in [Client -> Nat] /\ suffix \in [Client -> Nat] /\ want \in [Client -> Nat]
  /\ link \in [Client -> Link \cup {None}]
  /\ seen \in [Client -> Nat \cup {None}]

LEMMA ClientTypesParts ==
  ClientTypes <=> /\ total \in Nat /\ retained \in 0..total /\ requests \subseteq Request
                  /\ Functions /\ \A c \in Client : ClientOK(c)
BY DEF ClientTypes, Functions, ClientOK

\* A thread's step leaves the other clients as they are.
LEMMA OthersOK ==
  ASSUME ClientTypes, NEW c \in Client, Others(c), UNCHANGED recorderVars,
         Functions', requests' \subseteq Request, ClientOK(c)'
  PROVE  ClientTypes'
<1>1. ASSUME NEW d \in Client \ {c}
      PROVE  ClientOK(d)'
  <2>1. ClientOK(d)
    BY ClientTypesParts
  <2> QED
    BY <1>1, <2>1 DEF ClientOK, Others, Sending, HasLink
<1>2. total' \in Nat /\ retained' \in 0..total'
  BY DEF ClientTypes
<1>3. \A d \in Client : ClientOK(d)'
  BY <1>1
<1> QED
  BY <1>2, <1>3 DEF ClientTypes, Functions, ClientOK

\* Where the thread starts afresh, begins at the present.
LEMMA StartStep ==
  ASSUME SyncInv, NEW c \in Client, Start(c)
  PROVE  ClientTypes' /\ GoesOn(c)
<1>1. ClientTypes /\ Functions /\ ClientOK(c) /\ total \in Nat
  BY ClientTypesParts DEF SyncInv
<1>2. Others(c)
  BY <1>1 DEF Start, Others, Functions
<1>3. Functions'
  BY <1>1 DEF Start, Functions
<1>4. pc'[c] = "idle" /\ start'[c] = total /\ link'[c] = link[c] /\ waiting'[c] = waiting[c]
  BY <1>1 DEF Start, Functions
<1>5. ClientOK(c)'
  BY <1>1, <1>4 DEF Start, ClientOK, Sending, HasLink
<1>6. ClientTypes'
  BY <1>1, <1>2, <1>3, <1>5, OthersOK DEF Start, ClientTypes
<1>7. link'[c] = None
  BY <1>1, <1>4 DEF Start, ClientOK, HasLink, Functions
<1> QED
  BY <1>1, <1>2, <1>4, <1>6, <1>7 DEF Start, GoesOn, Sending, Functions

\* The stop flag changes nothing else.
LEMMA StopTypes ==
  ASSUME SyncInv, NEW c \in Client, Stop(c)
  PROVE  ClientTypes'
<1>1. ClientTypes
  BY DEF SyncInv
<1>2. stopping' \in [Client -> BOOLEAN]
  BY <1>1 DEF Stop, ClientTypes
<1> QED
  BY <1>1, <1>2 DEF Stop, ClientTypes, Sending, HasLink

\* A session's next message is sealed with its sequence number and sent.
LEMMA SendStep ==
  ASSUME SyncInv, NEW c \in Client, pc[c] \in {"idle", "read"}, HasLink(c),
         NEW body \in Message, body.from = c, body.kind \in {"pcm", "close", "mark"},
         body.stream = link[c].stream, Send(c, link[c], body),
         body.kind = "close" => body.final = link[c].next,
         UNCHANGED <<stopping, newest, start, suffix, epochs, streamVars, recorderVars>>,
         want' \in [Client -> Nat], seen' \in [Client -> Nat \cup {None}],
         \A d \in Client \ {c} : want'[d] = want[d] /\ seen'[d] = seen[d],
         want'[c] >= start[c],
         body.kind = "mark" /\ seen'[c] # None => want'[c] <= seen'[c]
  PROVE  ClientTypes' /\ Sends(c)
<1> DEFINE req == [epoch |-> link[c].epoch, seq |-> link[c].seq, try |-> 1, body |-> body]
<1>1. ClientTypes /\ Functions /\ ClientOK(c) /\ ~Sending(c) /\ requests \subseteq Request
  BY ClientTypesParts DEF SyncInv, Sending
<1>2. waiting \in [Client -> Request \cup {None}]
      /\ reply \in [Client -> [code : Nat, message : Response \cup {None}] \cup {None}]
  BY DEF SyncInv, Inv, TypeOK, ExchangesTypeOK
<1>3. req \in Request
  BY DEF Request, HasLink, Link
<1>4. /\ waiting' = [waiting EXCEPT ![c] = req] /\ reply' = [reply EXCEPT ![c] = None]
      /\ requests' = requests \cup {req} /\ pc' = [pc EXCEPT ![c] = "sending"]
      /\ link' = [link EXCEPT ![c] = link[c]]
  BY DEF Send, Transmit
<1>5. req.epoch = link[c].epoch /\ req.seq = link[c].seq /\ req.body = body
  OBVIOUS
<1> HIDE DEF req
<1>6. /\ waiting'[c] = req /\ reply'[c] = None /\ pc'[c] = "sending" /\ link'[c] = link[c]
      /\ Others(c) /\ Functions'
  BY <1>1, <1>2, <1>4 DEF Others, Functions
<1>7. req # None
  BY <1>3, ServerConstants
<1>8. ClientOK(c)'
  BY <1>1, <1>6, <1>7 DEF ClientOK, Sending, HasLink
<1>9. ClientTypes'
  BY <1>1, <1>3, <1>4, <1>6, <1>8, OthersOK
<1>10. SendsOn(c)
  BY <1>5, <1>6 DEF SendsOn
<1> QED
  BY <1>3, <1>4, <1>5, <1>6, <1>9, <1>10 DEF Sends, HasLink

\* Without a message, a thread that keeps its session keeps its epoch.
LEMMA GoStep ==
  ASSUME SyncInv, NEW c \in Client, Others(c), pc[c] \in {"idle", "challenge", "read"},
         Functions', ClientOK(c)', pc'[c] \in {"idle", "challenge", "read", "done"},
         UNCHANGED <<streamVars, epochs, waiting, reply, requests, recorderVars>>,
         link'[c] \in {link[c], None},
         pc'[c] \in {"idle", "read"} => link'[c] = None \/ pc[c] \in {"idle", "read"},
         pc'[c] = "challenge" => seen'[c] = None,
         start'[c] = start[c], suffix'[c] = suffix[c]
  PROVE  ClientTypes' /\ GoesOn(c)
<1>1. ClientTypes'
  BY OthersOK DEF SyncInv, ClientTypes
<1> QED
  BY <1>1 DEF GoesOn, Sending

\* A stopped thread ends, or sends its Close first.
LEMMA ExitStep ==
  ASSUME SyncInv, NEW c \in Client, Exit(c)
  PROVE  ClientTypes' /\ (GoesOn(c) \/ Sends(c))
<1>1. Functions /\ ClientOK(c) /\ ~Sending(c)
  BY ClientTypesParts DEF SyncInv, Exit, Sending
<1>2. CASE link[c] = None
  <2>1. pc' = [pc EXCEPT ![c] = "done"] /\ UNCHANGED <<link, waiting, reply, requests>>
    BY <1>2 DEF Exit
  <2>2. Others(c) /\ Functions' /\ pc'[c] = "done"
    BY <1>1, <2>1 DEF Exit, Others, Functions
  <2>3. ClientOK(c)'
    BY <1>1, <2>1, <2>2 DEF Exit, ClientOK, Sending, HasLink
  <2> QED
    BY <2>1, <2>2, <2>3, GoStep DEF Exit
<1>3. CASE link[c] # None
  <2> DEFINE body == [kind |-> "close", from |-> c, stream |-> link[c].stream, final |-> link[c].next]
  <2>1. HasLink(c)
    BY <1>1, <1>3 DEF Functions, HasLink
  <2>2. body \in Message
    BY <2>1 DEF Message, HasLink, Link
  <2>3. body.from = c /\ body.kind = "close" /\ body.stream = link[c].stream
        /\ body.final = link[c].next
    OBVIOUS
  <2>4. Send(c, link[c], body)
    BY <1>3 DEF Exit
  <2> HIDE DEF body
  <2>5. want[c] >= start[c] /\ want \in [Client -> Nat] /\ seen \in [Client -> Nat \cup {None}]
    BY <1>1, <2>1 DEF ClientOK, Functions
  <2> QED
    BY <2>1, <2>2, <2>3, <2>4, <2>5, SendStep DEF Exit
<1> QED
  BY <1>2, <1>3

\* The floor of an upload lies between its start and the end of the recording.
LEMMA FloorType ==
  ASSUME ClientTypes, NEW c \in Client
  PROVE  UploadFloor(c) \in Nat /\ UploadFloor(c) >= start[c] /\ UploadFloor(c) <= total
BY DEF ClientTypes, UploadFloor, Larger

\* A thread without a session asks for a challenge.
LEMMA ReconnectStep ==
  ASSUME SyncInv, NEW c \in Client, Reconnect(c)
  PROVE  ClientTypes' /\ GoesOn(c)
<1>1. Functions /\ ClientOK(c) /\ ~Sending(c)
  BY ClientTypesParts DEF SyncInv, Reconnect, Sending
<1>2. UploadFloor(c) \in Nat /\ UploadFloor(c) >= start[c]
  BY FloorType DEF SyncInv
<1>3. Others(c) /\ Functions' /\ pc'[c] = "challenge" /\ want'[c] = UploadFloor(c) /\ seen'[c] = None
  BY <1>1, <1>2 DEF Reconnect, Others, Functions
<1>4. ClientOK(c)'
  BY <1>1, <1>2, <1>3 DEF Reconnect, ClientOK, Sending, HasLink
<1> QED
  BY <1>3, <1>4, GoStep DEF Reconnect

\* A challenge that brings no epoch loses the session.
LEMMA ChallengeFailsStep ==
  ASSUME SyncInv, NEW c \in Client, ChallengeFails(c)
  PROVE  ClientTypes' /\ GoesOn(c)
<1>1. Functions /\ ClientOK(c) /\ ~Sending(c)
  BY ClientTypesParts DEF SyncInv, ChallengeFails, Sending
<1>2. Others(c) /\ Functions' /\ pc'[c] = "idle" /\ link'[c] = None
  BY <1>1 DEF ChallengeFails, LoseLink, Others, Functions
<1>3. ~HasLink(c)'
  BY <1>2, SyncConstants DEF HasLink
<1>4. ClientOK(c)'
  BY <1>1, <1>2, <1>3 DEF ChallengeFails, ClientOK, Sending
<1> QED
  BY <1>2, <1>4, GoStep DEF ChallengeFails

\* The bounds are read again; what the upload cannot send any more it gives up.
LEMMA LookStep ==
  ASSUME SyncInv, NEW c \in Client, Look(c)
  PROVE  ClientTypes' /\ (GoesOn(c) \/ Sends(c))
<1>1. Functions /\ ClientOK(c) /\ ~Sending(c) /\ total \in Nat
  BY ClientTypesParts DEF SyncInv, Look, Sending
<1>2. HasLink(c) /\ seen' = [seen EXCEPT ![c] = total]
  BY <1>1 DEF Look, Functions, HasLink
<1>3. CASE LeftRetention(c)
  <2> DEFINE body == [kind |-> "mark", from |-> c, stream |-> link[c].stream]
  <2>1. want' = [want EXCEPT ![c] = UploadFloor(c)] /\ Send(c, link[c], body)
    BY <1>3 DEF Look
  <2>2. UploadFloor(c) \in Nat /\ UploadFloor(c) >= start[c] /\ UploadFloor(c) <= total
    BY FloorType DEF SyncInv
  <2>3. body \in Message
    BY <1>2 DEF Message, HasLink, Link
  <2>4. body.from = c /\ body.kind = "mark" /\ body.stream = link[c].stream
    OBVIOUS
  <2> HIDE DEF body
  <2>5. /\ want' \in [Client -> Nat] /\ seen' \in [Client -> Nat \cup {None}]
        /\ want'[c] = UploadFloor(c) /\ seen'[c] = total
        /\ \A d \in Client \ {c} : want'[d] = want[d] /\ seen'[d] = seen[d]
    BY <1>1, <1>2, <2>1, <2>2 DEF Functions
  <2> QED
    BY <1>2, <2>1, <2>2, <2>3, <2>4, <2>5, SendStep DEF Look
<1>4. CASE ~LeftRetention(c) /\ ~IsCaughtUp(c)
  <2>1. pc' = [pc EXCEPT ![c] = "read"] /\ UNCHANGED <<link, want, waiting, reply, requests>>
    BY <1>4 DEF Look
  <2>2. Others(c) /\ Functions' /\ pc'[c] = "read" /\ seen'[c] = total
    BY <1>1, <1>2, <2>1 DEF Look, Others, Functions
  <2>3. link[c].next < total
    BY <1>1, <1>2, <1>4 DEF LeftRetention, IsCaughtUp, HasLink, Link
  <2>4. ClientOK(c)'
    BY <1>1, <1>2, <2>1, <2>2, <2>3 DEF Look, ClientOK, Sending, HasLink
  <2> QED
    BY <2>1, <2>2, <2>4, GoStep DEF Look
<1> QED
  BY <1>3, <1>4 DEF Look

\* The next chunk is sent, or given up with the session.
LEMMA SendChunkStep ==
  ASSUME SyncInv, NEW c \in Client, SendChunk(c)
  PROVE  ClientTypes' /\ (GoesOn(c) \/ Sends(c))
<1>1. Functions /\ ClientOK(c) /\ ~Sending(c)
  BY ClientTypesParts DEF SyncInv, SendChunk, Sending
<1>2. HasLink(c) /\ seen[c] \in Nat /\ link[c].next < seen[c] /\ link[c].next \in Nat
  BY <1>1 DEF SendChunk, ClientOK, HasLink, Link
<1>3. CASE link[c].next >= retained /\ ~stopping[c]
  <2> DEFINE count == Smaller(MaxChunk, seen[c] - link[c].next)
             body == [kind |-> "pcm", from |-> c, stream |-> link[c].stream,
                      start |-> link[c].next, count |-> count]
  <2>1. Send(c, link[c], body)
    BY <1>3 DEF SendChunk
  <2>2. count \in Nat
    BY <1>2, SyncConstants DEF Smaller
  <2>3. body \in Message
    BY <1>2, <2>2 DEF Message, HasLink, Link
  <2>4. body.from = c /\ body.kind = "pcm" /\ body.stream = link[c].stream
    OBVIOUS
  <2> HIDE DEF body
  <2>5. want[c] >= start[c] /\ want \in [Client -> Nat] /\ seen \in [Client -> Nat \cup {None}]
    BY <1>1, <1>2 DEF ClientOK, Functions
  <2> QED
    BY <1>2, <2>1, <2>3, <2>4, <2>5, SendStep DEF SendChunk
<1>4. CASE ~(link[c].next >= retained /\ ~stopping[c])
  <2>1. LoseLink(c) /\ UNCHANGED <<waiting, reply, requests>>
    BY <1>4 DEF SendChunk
  <2>2. Others(c) /\ Functions' /\ pc'[c] = "idle" /\ link'[c] = None
    BY <1>1, <2>1 DEF SendChunk, LoseLink, Others, Functions
  <2>3. ~HasLink(c)'
    BY <2>2, SyncConstants DEF HasLink
  <2>4. ClientOK(c)'
    BY <1>1, <2>1, <2>2, <2>3 DEF SendChunk, ClientOK, Sending
  <2> QED
    BY <2>1, <2>2, <2>4, GoStep DEF SendChunk
<1> QED
  BY <1>3, <1>4

\* A challenge brings a new epoch, and the open of the logical stream is sent in it.
LEMMA EstablishStep ==
  ASSUME SyncInv, NEW c \in Client, Establish(c)
  PROVE  ClientTypes' /\ Sends(c)
<1> DEFINE e == CHOOSE e \in FreeEpochs : TRUE
           l == [epoch |-> e, seq |-> 0, stream |-> 0, next |-> want[c]]
           body == [kind |-> "open", from |-> c, key |-> <<c, suffix[c]>>,
                    format |-> CHOOSE f \in Format : TRUE, source |-> want[c]]
           req == [epoch |-> e, seq |-> 0, try |-> 1, body |-> body]
<1>1. ClientTypes /\ Functions /\ ClientOK(c) /\ requests \subseteq Request
  BY ClientTypesParts DEF SyncInv
<1>2. /\ waiting \in [Client -> Request \cup {None}]
      /\ reply \in [Client -> [code : Nat, message : Response \cup {None}] \cup {None}]
      /\ epochs \in [Epoch -> EpochState]
  BY DEF SyncInv, Inv, TypeOK, ExchangesTypeOK
<1>3. e \in FreeEpochs /\ e \in Epoch
  BY DEF Establish, FreeEpochs
<1>4. l \in Link
  BY <1>1, <1>3 DEF Link, Functions
<1>5. (CHOOSE f \in Format : TRUE) \in Format
  BY SyncConstants
<1>6. body \in Message
  <2>1. <<c, suffix[c]>> \in ClientKey /\ want[c] \in Nat
    BY <1>1 DEF ClientKey, Functions
  <2> QED
    BY <1>5, <2>1 DEF Message
<1>7. req \in Request
  BY <1>3, <1>6 DEF Request
<1>8. /\ waiting' = [waiting EXCEPT ![c] = req] /\ reply' = [reply EXCEPT ![c] = None]
      /\ requests' = requests \cup {req} /\ pc' = [pc EXCEPT ![c] = "sending"]
      /\ link' = [link EXCEPT ![c] = l]
      /\ epochs' = [epochs EXCEPT ![e] = FreshEpoch]
  BY DEF Establish, Send, Transmit
<1>9. /\ req.epoch = e /\ req.seq = 0 /\ req.body = body
      /\ l.epoch = e /\ l.seq = 0 /\ l.stream = 0
      /\ body.from = c /\ body.kind = "open" /\ body.key = <<c, suffix[c]>>
      /\ body.source = want[c]
  OBVIOUS
<1> HIDE DEF e, l, body, req
<1>10. /\ waiting'[c] = req /\ reply'[c] = None /\ pc'[c] = "sending" /\ link'[c] = l
       /\ Others(c) /\ Functions'
  BY <1>1, <1>2, <1>4, <1>8 DEF Establish, Others, Functions
<1>11. req # None
  BY <1>7, ServerConstants
<1>12. ClientOK(c)'
  BY <1>1, <1>4, <1>10, <1>11 DEF Establish, ClientOK, Sending, HasLink
<1>13. ClientTypes'
  BY <1>1, <1>7, <1>8, <1>10, <1>12, OthersOK DEF Establish
<1>14. Opens(c)
  BY <1>3, <1>8, <1>9, <1>10 DEF Opens, Establish
<1> QED
  BY <1>4, <1>7, <1>8, <1>9, <1>10, <1>13, <1>14 DEF Sends, Establish

\* An exchange is over: what is left to show of the types is the client's own part.
LEMMA HangStep ==
  ASSUME SyncInv, NEW c \in Client, Sending(c), Hang(c),
         UNCHANGED <<stopping, newest, start, want, seen, epochs, streamVars, requests, recorderVars>>,
         pc' \in [Client -> {"off", "idle", "challenge", "sending", "read", "done"}],
         link' \in [Client -> Link \cup {None}], suffix' \in [Client -> Nat],
         \A d \in Client \ {c} : pc'[d] = pc[d] /\ link'[d] = link[d] /\ suffix'[d] = suffix[d],
         pc'[c] \in {"idle", "challenge", "read", "done"},
         pc'[c] = "read" => HasLink(c)' /\ seen[c] \in Nat /\ link'[c].next < seen[c]
  PROVE  /\ ClientTypes' /\ Others(c)
         /\ waiting'[c] = None /\ reply'[c] = None
<1>1. ClientTypes /\ Functions /\ ClientOK(c)
  BY ClientTypesParts DEF SyncInv
<1>2. waiting \in [Client -> Request \cup {None}]
      /\ reply \in [Client -> [code : Nat, message : Response \cup {None}] \cup {None}]
  BY DEF SyncInv, Inv, TypeOK, ExchangesTypeOK
<1>3. Others(c) /\ waiting'[c] = None /\ reply'[c] = None /\ Functions'
  BY <1>1, <1>2 DEF Others, Hang, Functions
<1>4. ClientOK(c)'
  BY <1>1, <1>3 DEF ClientOK, Sending, HasLink
<1> QED
  BY <1>1, <1>3, <1>4, OthersOK DEF ClientTypes

\* send_message gives up: the session is lost, or the best-effort message was its last.
LEMMA MessageFailsStep ==
  ASSUME SyncInv, NEW c \in Client, Sending(c), MessageFails(c),
         UNCHANGED <<stopping, newest, start, want, seen, epochs, streamVars, recorderVars>>
  PROVE  ClientTypes' /\ HangsUp(c)
<1>1. Functions
  BY ClientTypesParts DEF SyncInv
<1>2. CASE Sent(c).kind = "mark"
  <2>1. /\ pc' = [pc EXCEPT ![c] = "challenge"] /\ suffix' = [suffix EXCEPT ![c] = @ + 1]
        /\ UNCHANGED <<link, requests>> /\ Hang(c)
    BY <1>2 DEF MessageFails, NextLogicalStream
  <2>2. /\ pc'[c] = "challenge" /\ suffix'[c] = suffix[c] + 1
        /\ pc' \in [Client -> {"off", "idle", "challenge", "sending", "read", "done"}]
        /\ suffix' \in [Client -> Nat]
        /\ \A d \in Client \ {c} : pc'[d] = pc[d] /\ link'[d] = link[d] /\ suffix'[d] = suffix[d]
    BY <1>1, <2>1 DEF Functions
  <2>3. ClientTypes' /\ Others(c) /\ waiting'[c] = None /\ reply'[c] = None
    BY <1>1, <2>1, <2>2, HangStep DEF Functions
  <2> QED
    BY <1>2, <2>1, <2>2, <2>3 DEF HangsUp
<1>3. CASE Sent(c).kind = "close"
  <2>1. /\ pc' = [pc EXCEPT ![c] = "done"] /\ UNCHANGED <<link, suffix, requests>> /\ Hang(c)
    BY <1>3 DEF MessageFails
  <2>2. /\ pc'[c] = "done"
        /\ pc' \in [Client -> {"off", "idle", "challenge", "sending", "read", "done"}]
        /\ \A d \in Client \ {c} : pc'[d] = pc[d] /\ link'[d] = link[d] /\ suffix'[d] = suffix[d]
    BY <1>1, <2>1 DEF Functions
  <2>3. ClientTypes' /\ Others(c) /\ waiting'[c] = None /\ reply'[c] = None
    BY <1>1, <2>1, <2>2, HangStep DEF Functions
  <2> QED
    BY <1>3, <2>1, <2>2, <2>3 DEF HangsUp
<1>4. CASE Sent(c).kind \notin {"mark", "close"}
  <2>1. LoseLink(c) /\ UNCHANGED <<suffix, requests>> /\ Hang(c)
    BY <1>4 DEF MessageFails
  <2>2. /\ pc'[c] = "idle" /\ link'[c] = None
        /\ pc' \in [Client -> {"off", "idle", "challenge", "sending", "read", "done"}]
        /\ link' \in [Client -> Link \cup {None}]
        /\ \A d \in Client \ {c} : pc'[d] = pc[d] /\ link'[d] = link[d] /\ suffix'[d] = suffix[d]
    BY <1>1, <2>1 DEF Functions, LoseLink
  <2>3. ClientTypes' /\ Others(c) /\ waiting'[c] = None /\ reply'[c] = None
    BY <1>1, <2>1, <2>2, HangStep DEF Functions
  <2> QED
    BY <1>4, <2>1, <2>2, <2>3 DEF HangsUp
<1> QED
  BY <1>2, <1>3, <1>4

\* An attempt without a usable answer is repeated once, with the same envelope.
LEMMA AttemptFailsStep ==
  ASSUME SyncInv, NEW c \in Client, Sending(c), AttemptFails(c)
  PROVE  ClientTypes' /\ (HangsUp(c) \/ Sends(c))
<1>1. ClientTypes /\ Functions /\ ClientOK(c) /\ requests \subseteq Request
  BY ClientTypesParts DEF SyncInv
<1>2. waiting \in [Client -> Request \cup {None}]
      /\ reply \in [Client -> [code : Nat, message : Response \cup {None}] \cup {None}]
  BY DEF SyncInv, Inv, TypeOK, ExchangesTypeOK
<1>3. CASE MessageFails(c)
  BY <1>3, MessageFailsStep DEF AttemptFails
<1>4. CASE Transmit(c, Again(waiting[c])) /\ UNCHANGED <<link, suffix>>
  <2> DEFINE req == Again(waiting[c])
  <2>1. waiting[c] \in Request
    BY <1>1, <1>2 DEF ClientOK
  <2>2. /\ req \in Request /\ req.epoch = waiting[c].epoch /\ req.seq = waiting[c].seq
        /\ req.body = Sent(c)
    BY <2>1 DEF Again, Request, Sent
  <2>3. /\ waiting' = [waiting EXCEPT ![c] = req] /\ reply' = [reply EXCEPT ![c] = None]
        /\ requests' = requests \cup {req} /\ pc' = [pc EXCEPT ![c] = "sending"]
    BY <1>4 DEF Transmit
  <2> HIDE DEF req
  <2>4. /\ waiting'[c] = req /\ reply'[c] = None /\ pc'[c] = "sending"
        /\ Others(c) /\ Functions'
    BY <1>1, <1>2, <1>4, <2>3 DEF Others, Functions, AttemptFails
  <2>5. req # None
    BY <2>2, ServerConstants
  <2>6. ClientOK(c)'
    BY <1>1, <1>4, <2>4, <2>5 DEF AttemptFails, ClientOK, Sending, HasLink
  <2>7. ClientTypes'
    BY <1>1, <2>2, <2>3, <2>4, <2>6, OthersOK DEF AttemptFails
  <2>8. Resends(c) /\ link[c] \in Link
    BY <1>1, <1>4, <2>2, <2>4 DEF Resends, AttemptFails, ClientOK, HasLink
  <2>9. Exchange(c)
    BY DEF SyncInv, Exchanges
  <2> QED
    BY <1>4, <2>2, <2>3, <2>4, <2>7, <2>8, <2>9 DEF Sends, AttemptFails, Exchange, Sending
<1> QED
  BY <1>3, <1>4 DEF AttemptFails

\* A usable answer is a 200 with a response: no other answer a client of its own
\* epoch gets carries a message.
LEMMA UsableAnswer ==
  ASSUME SyncInv, NEW c \in Client, Sending(c), reply[c] # None, IsUsable(reply[c])
  PROVE  reply[c].code = 200 /\ reply[c].message \in Response
BY DEF SyncInv, Exchanges, Answered, IsUsable

\* What the thread does with an answer.
LEMMA ReceiveStep ==
  ASSUME SyncInv, NEW c \in Client, Receive(c)
  PROVE  ClientTypes' /\ HangsUp(c)
<1> DEFINE m == reply[c].message
<1>1. Functions /\ ClientOK(c) /\ Sending(c)
  BY ClientTypesParts DEF SyncInv, Receive
<1>2. reply[c] # None /\ reply[c].code = 200 /\ m \in Response
  BY UsableAnswer DEF Receive
<1>3. link[c] \in Link /\ m.next \in Nat /\ m.stream \in Nat
  BY <1>1, <1>2 DEF ClientOK, HasLink, Response
<1>4. /\ Advanced(c) \in Link /\ Advanced(c).epoch = link[c].epoch
      /\ Advanced(c).seq = link[c].seq + 1 /\ Advanced(c).stream = link[c].stream
  <2>1. Advanced(c) = [link[c] EXCEPT !.seq = link[c].seq + 1]
    BY <1>2 DEF Advanced
  <2> QED
    BY <1>3, <2>1 DEF Link
<1>5. /\ Hang(c) /\ UNCHANGED <<stopping, newest, start, want, seen, requests, epochs,
                                streamVars, recorderVars>>
  BY DEF Receive
<1>6. CASE Sent(c).kind = "mark" /\ NextLogicalStream(c) /\ UNCHANGED link
  <2>1. /\ pc'[c] = "challenge" /\ suffix'[c] = suffix[c] + 1
        /\ pc' \in [Client -> {"off", "idle", "challenge", "sending", "read", "done"}]
        /\ suffix' \in [Client -> Nat]
        /\ \A d \in Client \ {c} : pc'[d] = pc[d] /\ link'[d] = link[d] /\ suffix'[d] = suffix[d]
    BY <1>1, <1>6 DEF Functions, NextLogicalStream
  <2>2. ClientTypes' /\ Others(c) /\ waiting'[c] = None /\ reply'[c] = None
    BY <1>1, <1>5, <1>6, <2>1, HangStep DEF Functions
  <2> QED
    BY <1>1, <1>5, <1>6, <2>1, <2>2 DEF HangsUp
<1>7. CASE Sent(c).kind = "close" /\ pc' = [pc EXCEPT ![c] = "done"] /\ UNCHANGED <<link, suffix>>
  <2>1. /\ pc'[c] = "done"
        /\ pc' \in [Client -> {"off", "idle", "challenge", "sending", "read", "done"}]
        /\ \A d \in Client \ {c} : pc'[d] = pc[d] /\ link'[d] = link[d] /\ suffix'[d] = suffix[d]
    BY <1>1, <1>7 DEF Functions
  <2>2. ClientTypes' /\ Others(c) /\ waiting'[c] = None /\ reply'[c] = None
    BY <1>1, <1>5, <1>7, <2>1, HangStep DEF Functions
  <2> QED
    BY <1>1, <1>5, <1>7, <2>1, <2>2 DEF HangsUp
<1>8. CASE Sent(c).kind \in {"open", "pcm"} /\ LoseLink(c) /\ UNCHANGED suffix
  <2>1. /\ pc'[c] = "idle" /\ link'[c] = None
        /\ pc' \in [Client -> {"off", "idle", "challenge", "sending", "read", "done"}]
        /\ link' \in [Client -> Link \cup {None}]
        /\ \A d \in Client \ {c} : pc'[d] = pc[d] /\ link'[d] = link[d] /\ suffix'[d] = suffix[d]
    BY <1>1, <1>8 DEF Functions, LoseLink
  <2>2. ClientTypes' /\ Others(c) /\ waiting'[c] = None /\ reply'[c] = None
    BY <1>1, <1>5, <1>8, <2>1, HangStep DEF Functions
  <2> QED
    BY <1>1, <1>5, <1>8, <2>1, <2>2 DEF HangsUp
<1>9. ASSUME NEW l \in Link, link' = [link EXCEPT ![c] = l], UNCHANGED suffix,
             l.epoch = link[c].epoch, l.seq = link[c].seq + 1, l.next = m.next,
             \/ Sent(c).kind = "pcm" /\ l.stream = link[c].stream
             \/ Sent(c).kind = "open" /\ m.status = "ok" /\ l.stream = m.stream,
             NEW at \in {"idle", "read"}, pc' = [pc EXCEPT ![c] = at],
             at = "read" => seen[c] \in Nat /\ l.next < seen[c]
      PROVE  ClientTypes' /\ HangsUp(c)
  <2>1. /\ pc'[c] = at /\ link'[c] = l
        /\ pc' \in [Client -> {"off", "idle", "challenge", "sending", "read", "done"}]
        /\ link' \in [Client -> Link \cup {None}]
        /\ \A d \in Client \ {c} : pc'[d] = pc[d] /\ link'[d] = link[d] /\ suffix'[d] = suffix[d]
    BY <1>1, <1>9 DEF Functions
  <2>2. ClientTypes' /\ Others(c) /\ waiting'[c] = None /\ reply'[c] = None
    <3>1. suffix' \in [Client -> Nat]
      BY <1>1, <1>9 DEF Functions
    <3>2. pc'[c] = "read" => HasLink(c)' /\ seen[c] \in Nat /\ link'[c].next < seen[c]
      BY <1>9, <2>1 DEF HasLink
    <3> QED
      BY <1>1, <1>5, <1>9, <2>1, <3>1, <3>2, HangStep
  <2> QED
    BY <1>1, <1>2, <1>5, <1>9, <2>1, <2>2 DEF HangsUp
<1>10. CASE Sent(c).kind = "open" /\ GotOpen(c, m)
  <2>1. CASE m.status = "ok" /\ m.stream # 0
    <3> DEFINE l == [Advanced(c) EXCEPT !.stream = m.stream, !.next = m.next]
               at == IF seen[c] = None \/ m.next = seen[c] THEN "idle" ELSE "read"
    <3>1. /\ l \in Link /\ l.epoch = link[c].epoch /\ l.seq = link[c].seq + 1
          /\ l.stream = m.stream /\ l.next = m.next
      BY <1>3, <1>4 DEF Link
    <3>2. link' = [link EXCEPT ![c] = l] /\ UNCHANGED suffix /\ pc' = [pc EXCEPT ![c] = at]
      BY <1>10, <2>1 DEF GotOpen
    <3>3. at = "read" => seen[c] \in Nat /\ m.next < seen[c]
      <4>1. Fresh(c)
        BY DEF SyncInv, AllFresh
      <4>2. seen[c] # None => m.next = want[c] /\ want[c] <= seen[c] /\ seen[c] \in Nat
        BY <1>1, <1>2, <1>10, <2>1, <4>1 DEF Fresh, OffersStart, Functions
      <4> QED
        BY <1>1, <4>2 DEF Functions
    <3>4. at \in {"idle", "read"}
      OBVIOUS
    <3> HIDE DEF l, at
    <3> QED
      BY <1>9, <1>10, <2>1, <3>1, <3>2, <3>3, <3>4
  <2>2. CASE ~(m.status = "ok" /\ m.stream # 0)
    BY <1>8, <1>10, <2>2 DEF GotOpen
  <2> QED
    BY <2>1, <2>2
<1>11. CASE Sent(c).kind = "pcm" /\ GotPcm(c, m)
  <2> DEFINE l == [Advanced(c) EXCEPT !.next = m.next]
  <2>1. /\ l \in Link /\ l.epoch = link[c].epoch /\ l.seq = link[c].seq + 1
        /\ l.stream = link[c].stream /\ l.next = m.next
    BY <1>3, <1>4 DEF Link
  <2>2. CASE link' = [link EXCEPT ![c] = l] /\ pc' = [pc EXCEPT ![c] = "idle"]
    <3> HIDE DEF l
    <3> QED
      BY <1>9, <1>11, <2>1, <2>2 DEF GotPcm
  <2> QED
    BY <1>8, <1>11, <2>2 DEF GotPcm
<1> QED
  BY <1>6, <1>7, <1>10, <1>11 DEF Receive

-----------------------------------------------------------------------------
(* A step of a thread keeps the invariant *)

\* Once on, a client keeps its start, and its logical streams are numbered upwards.
Onwards ==
  \A d \in Client : pc[d] # "off" =>
    pc'[d] # "off" /\ start'[d] = start[d] /\ suffix[d] <= suffix'[d]

\* What a client owns it still owns later.
LEMMA KeysLater ==
  ASSUME SyncInv, ClientTypes', Onwards
  PROVE  \A d \in Client : \A key \in ClientKey : \A source \in Nat :
           IsKeyOf(d, key, source) => IsKeyOf(d, key, source)'
<1> SUFFICES ASSUME NEW d \in Client, NEW key \in ClientKey, NEW source \in Nat,
                    IsKeyOf(d, key, source)
             PROVE  IsKeyOf(d, key, source)'
  OBVIOUS
<1>1. key[2] \in Nat /\ suffix[d] \in Nat /\ suffix'[d] \in Nat
  BY DEF ClientKey, ClientTypes, SyncInv
<1> QED
  BY <1>1 DEF IsKeyOf, Onwards

\* As long as the server's streams stay as they are, so does all that is owned.
LEMMA OwnedLater ==
  ASSUME SyncInv, ClientTypes', Onwards, UNCHANGED streamVars
  PROVE  /\ KeysOK(sessions)' /\ (savedSessions' # None => KeysOK(savedSessions)') /\ SameKeys'
         /\ \A i, d : IsStreamOf(i, d)' <=> IsStreamOf(i, d)
         /\ \A body \in Message : OwnedRequest(body) => OwnedRequest(body)'
<1>1. ASSUME NEW m, IsSessionMap(m), KeysOK(m)
      PROVE  \A i \in DOMAIN m : IsKeyOf(m[i].key[1], m[i].key, m[i].source)'
  <2> SUFFICES ASSUME NEW i \in DOMAIN m
               PROVE  IsKeyOf(m[i].key[1], m[i].key, m[i].source)'
    OBVIOUS
  <2>1. m[i].key \in ClientKey /\ m[i].key[1] \in Client /\ m[i].source \in Nat
    BY <1>1 DEF IsSessionMap, Session, ClientKey
  <2>2. IsKeyOf(m[i].key[1], m[i].key, m[i].source)
    BY <1>1 DEF KeysOK
  <2> QED
    BY <2>1, <2>2, KeysLater
<1>2. IsSessionMap(sessions) /\ (savedSessions # None => IsSessionMap(savedSessions))
  BY DEF SyncInv, Inv, TypeOK, SessionsTypeOK
<1>3. KeysOK(sessions) /\ (savedSessions # None => KeysOK(savedSessions)) /\ SameKeys
  BY DEF SyncInv, Owners
<1>4. KeysOK(sessions)' /\ (savedSessions' # None => KeysOK(savedSessions)') /\ SameKeys'
  BY <1>1, <1>2, <1>3 DEF KeysOK, SameKeys
<1>5. \A i, d : IsStreamOf(i, d)' <=> IsStreamOf(i, d)
  BY DEF IsStreamOf
<1>6. ASSUME NEW body \in Message, OwnedRequest(body)
      PROVE  OwnedRequest(body)'
  <2>1. body.from \in Client /\ (body.kind = "open" => body.key \in ClientKey /\ body.source \in Nat)
    BY MessageParts
  <2> QED
    BY <1>5, <1>6, <2>1, KeysLater DEF OwnedRequest, Onwards
<1> QED
  BY <1>4, <1>5, <1>6

\* So does what the samples say.
LEMMA SamplesLater ==
  ASSUME SyncInv, Onwards, UNCHANGED cache
  PROVE  SamplesAreNew'
<1>1. \A i \in 1..Len(cache) : cache[i][1] \in Client
  BY DEF SyncInv, Inv, TypeOK, CacheTypeOK
<1> QED
  BY <1>1 DEF SyncInv, SamplesAreNew, Onwards

\* Going on without a message changes no exchange.
LEMMA GoesOnKeeps ==
  ASSUME SyncInv, NEW c \in Client, ClientTypes', GoesOn(c)
  PROVE  Exchanges' /\ Owners' /\ SamplesAreNew' /\ AllFresh'
<1>1. ClientTypes /\ Exchanges /\ Owners /\ AllFresh
  BY DEF SyncInv
<1>2. Onwards
  BY <1>1 DEF GoesOn, Others, Onwards, ClientTypes
<1>3. \A d \in Client : Exchange(d)' /\ Answered(d)'
  BY <1>1 DEF GoesOn, Others, Exchanges, Exchange, Answered, Sending, Sent
<1>4. \A d \in Client : HasLink(d)' => HasLink(d) /\ link'[d] = link[d]
  BY SyncConstants DEF GoesOn, Others, HasLink
<1>5. ASSUME NEW d \in Client, HasLink(d)', NEW req \in requests
      PROVE  Level(d, req)'
  <2>1. Level(d, req) /\ link'[d] = link[d]
    BY <1>1, <1>4, <1>5 DEF Exchanges, EpochsInUse
  <2>2. CASE d # c
    BY <2>1, <2>2 DEF GoesOn, Others, Level, Sending, Sent
  <2>3. CASE d = c
    BY <1>5, <2>1, <2>3, SyncConstants DEF GoesOn, Level, HasLink, Sending
  <2> QED
    BY <2>2, <2>3
<1>6. EpochsInUse'
  BY <1>1, <1>4, <1>5 DEF GoesOn, Exchanges, EpochsInUse
<1>7. Owners'
  <2>1. \A req \in requests : req.body \in Message /\ OwnedRequest(req.body)
    BY <1>1, RequestParts DEF ClientTypes, Owners
  <2>2. \A d \in Client : Sending(d)' => Sending(d) /\ Sent(d)' = Sent(d) /\ reply'[d] = reply[d]
    BY DEF GoesOn, Others, Sending, Sent
  <2> QED
    BY <1>1, <1>2, <1>4, <2>1, <2>2, OwnedLater DEF GoesOn, Owners
<1>8. AllFresh'
  <2> SUFFICES ASSUME NEW d \in Client PROVE Fresh(d)'
    BY DEF AllFresh
  <2>1. Fresh(d)
    BY <1>1 DEF AllFresh
  <2>2. CASE d # c
    BY <2>1, <2>2 DEF GoesOn, Others, Fresh, Sending, Sent
  <2>3. CASE d = c
    BY <2>3 DEF GoesOn, Fresh, Sending
  <2> QED
    BY <2>2, <2>3
<1> QED
  BY <1>2, <1>3, <1>6, <1>7, <1>8, SamplesLater DEF Exchanges, GoesOn

\* The end of an exchange advances the session past its message, if the server has
\* counted it, and hands a new stream to its owner.
LEMMA HangsUpKeeps ==
  ASSUME SyncInv, NEW c \in Client, ClientTypes', HangsUp(c)
  PROVE  Exchanges' /\ Owners' /\ SamplesAreNew' /\ AllFresh'
<1>1. ClientTypes /\ Exchanges /\ Owners /\ AllFresh
  BY DEF SyncInv
<1>2. Onwards
  <2>1. \A d \in Client : suffix[d] \in Nat
    BY <1>1 DEF ClientTypes
  <2> QED
    BY <2>1 DEF HangsUp, Others, Onwards
<1>3. \A d \in Client : Exchange(d)' /\ Answered(d)'
  BY <1>1 DEF HangsUp, Others, Exchanges, Exchange, Answered, Sending, Sent
<1>4. \A d \in Client \ {c} : HasLink(d)' <=> HasLink(d) /\ link'[d] = link[d]
  BY DEF HangsUp, Others, HasLink
<1>5. HasLink(c) /\ link[c].seq \in Nat
  BY <1>1 DEF ClientTypes, HangsUp, HasLink, Link
<1>6. HasLink(c)' => link'[c].epoch = link[c].epoch
  BY SyncConstants DEF HangsUp, HasLink
<1>7. ASSUME NEW d \in Client, HasLink(d)', NEW req \in requests
      PROVE  Level(d, req)'
  <2>1. CASE d # c
    <3>1. Level(d, req) /\ link'[d] = link[d]
      BY <1>1, <1>4, <1>7, <2>1 DEF Exchanges, EpochsInUse
    <3> QED
      BY <2>1, <3>1 DEF HangsUp, Others, Level, Sending, Sent
  <2>2. CASE d = c
    <3>1. Level(c, req) /\ req.seq \in Nat
      BY <1>1, <1>5 DEF Exchanges, EpochsInUse, ClientTypes, Request
    <3>2. CASE link'[c] = link[c] /\ pc'[c] \in {"challenge", "done"}
      BY <2>2, <3>1, <3>2 DEF Level
    <3>3. CASE link'[c].epoch = link[c].epoch /\ link'[c].seq = link[c].seq + 1
      BY <1>5, <2>2, <3>1, <3>3 DEF Level
    <3> QED
      BY <1>7, <2>2, <3>2, <3>3, SyncConstants DEF HangsUp, HasLink
  <2> QED
    BY <2>1, <2>2
<1>8. ASSUME NEW d \in Client, HasLink(d)', epochs[link'[d].epoch].live
      PROVE  epochs[link'[d].epoch].expected \in {link'[d].seq, link'[d].seq + 1}
  <2>1. CASE d # c
    BY <1>1, <1>4, <1>8, <2>1 DEF Exchanges, EpochsInUse
  <2>2. CASE d = c
    <3>1. CASE link'[c] = link[c]
      BY <1>1, <1>5, <1>8, <2>2, <3>1 DEF Exchanges, EpochsInUse
    <3>2. CASE reply[c] # None /\ reply[c].code = 200 /\ link'[c].epoch = link[c].epoch
               /\ link'[c].seq = link[c].seq + 1
      BY <1>1, <1>8, <2>2, <3>2 DEF Exchanges, Answered, HangsUp
    <3> QED
      BY <1>8, <2>2, <3>1, <3>2, SyncConstants DEF HangsUp, HasLink
  <2> QED
    BY <2>1, <2>2
<1>9. EpochsInUse'
  <2>1. \A d, f \in Client :
          HasLink(d)' /\ HasLink(f)' /\ link'[d].epoch = link'[f].epoch => d = f
    BY <1>1, <1>4, <1>5, <1>6 DEF Exchanges, EpochsInUse
  <2>2. epochs' = epochs /\ requests' = requests
    BY DEF HangsUp
  <2> QED
    BY <1>1, <1>7, <1>8, <2>1, <2>2 DEF Exchanges, EpochsInUse
<1>10. Owners'
  <2>1. \A req \in requests : req.body \in Message /\ OwnedRequest(req.body)
    BY <1>1, RequestParts DEF ClientTypes, Owners
  <2>2. \A d \in Client : Sending(d)' => Sending(d) /\ Sent(d)' = Sent(d) /\ reply'[d] = reply[d]
    BY DEF HangsUp, Others, Sending, Sent
  <2>3. \A d \in Client : HasLink(d)' => IsStreamOf(link'[d].stream, d)
    <3>1. HasLink(c)' => IsStreamOf(link'[c].stream, c)
      BY <1>1, <1>5, SyncConstants DEF HangsUp, HasLink, Owners
    <3> QED
      BY <1>1, <1>4, <3>1 DEF Owners
  <2>4. /\ KeysOK(sessions)' /\ (savedSessions' # None => KeysOK(savedSessions)') /\ SameKeys'
        /\ \A i, d : IsStreamOf(i, d)' <=> IsStreamOf(i, d)
        /\ \A body \in Message : OwnedRequest(body) => OwnedRequest(body)'
    BY <1>2, OwnedLater DEF HangsUp
  <2> QED
    BY <1>1, <2>1, <2>2, <2>3, <2>4 DEF HangsUp, Owners
<1>11. AllFresh'
  <2> SUFFICES ASSUME NEW d \in Client PROVE Fresh(d)'
    BY DEF AllFresh
  <2>1. Fresh(d)
    BY <1>1 DEF AllFresh
  <2>2. CASE d # c
    BY <2>1, <2>2 DEF HangsUp, Others, Fresh, Sending, Sent
  <2>3. CASE d = c
    <3> SUFFICES ASSUME seen'[c] # None, pc'[c] = "challenge"
                 PROVE  /\ want'[c] <= seen'[c]
                        /\ ~HasKey(sessions, <<c, suffix'[c]>>)
                        /\ savedSessions # None => ~HasKey(savedSessions, <<c, suffix'[c]>>)
                        /\ \A req \in requests :
                             req.body.kind = "open" => req.body.key # <<c, suffix'[c]>>
      BY <2>3 DEF Fresh, HangsUp, Sending
    <3>1. suffix'[c] = suffix[c] + 1 /\ suffix[c] \in Nat /\ want'[c] <= seen'[c]
      BY <1>1, <2>1, <2>3 DEF HangsUp, Fresh, ClientTypes
    <3>2. ASSUME NEW key, key = <<c, suffix'[c]>>, NEW d1, NEW source
          PROVE  ~IsKeyOf(d1, key, source)
      BY <3>1, <3>2 DEF IsKeyOf
    <3>3. ~HasKey(sessions, <<c, suffix'[c]>>)
      BY <1>1, <3>2 DEF Owners, KeysOK, HasKey
    <3>4. savedSessions # None => ~HasKey(savedSessions, <<c, suffix'[c]>>)
      BY <1>1, <3>2 DEF Owners, KeysOK, HasKey
    <3>5. \A req \in requests : req.body.kind = "open" => req.body.key # <<c, suffix'[c]>>
      BY <1>1, <3>2 DEF Owners, OwnedRequest
    <3> QED
      BY <3>1, <3>3, <3>4, <3>5
  <2> QED
    BY <2>2, <2>3
<1> QED
  BY <1>2, <1>3, <1>9, <1>10, <1>11, SamplesLater DEF Exchanges, HangsUp

\* Stream 0 is no stream.
LEMMA NoStream ==
  ASSUME SyncInv, NEW c
  PROVE  IsStreamOf(0, c)
BY DEF SyncInv, Inv, TypeOK, SessionsTypeOK, IsSessionMap, IsStreamOf

\* Where a message is sent, no other session is in its epoch.
LEMMA SentInOwnEpoch ==
  ASSUME SyncInv, NEW c \in Client, Sends(c)
  PROVE  /\ \A d \in Client \ {c} : HasLink(d) => link[d].epoch # link'[c].epoch
         /\ \A e \in Epoch : e # link'[c].epoch => epochs'[e] = epochs[e]
         /\ link'[c].epoch \in Epoch /\ link'[c].seq \in Nat
<1>1. ClientTypes /\ EpochsInUse /\ link'[c].epoch \in Epoch /\ link'[c].seq \in Nat
  BY DEF SyncInv, Exchanges, Sends, Link
<1>2. epochs \in [Epoch -> EpochState]
  BY DEF SyncInv, Inv, TypeOK, ExchangesTypeOK
<1>3. CASE link'[c] = link[c] /\ UNCHANGED epochs
  BY <1>1, <1>3 DEF EpochsInUse, HasLink, Sends
<1>4. CASE Opens(c)
  BY <1>1, <1>2, <1>4, SyncConstants DEF Opens, FreeEpochs, HasLink
<1> QED
  BY <1>3, <1>4 DEF Sends, Resends, SendsOn

\* The message sent is the one under way, and no other of its epoch is level with it.
LEMMA SendsLevel ==
  ASSUME SyncInv, NEW c \in Client, ClientTypes', Sends(c), NEW d \in Client, HasLink(d)',
         NEW req \in requests'
  PROVE  Level(d, req)'
<1>1. ClientTypes /\ EpochsInUse
  BY DEF SyncInv, Exchanges
<1>2. \A f \in Client \ {c} : HasLink(f) => link[f].epoch # link'[c].epoch
  BY SentInOwnEpoch
<1>3. req \in requests \/ req = waiting'[c]
  BY DEF Sends
<1>4. CASE d # c
  <2>1. HasLink(d) /\ link'[d] = link[d]
    BY <1>4 DEF Sends, Others, HasLink
  <2>2. CASE req \in requests
    BY <1>1, <1>4, <2>1, <2>2 DEF Sends, Others, EpochsInUse, Level, Sending, Sent
  <2>3. CASE req = waiting'[c]
    BY <1>2, <1>4, <2>1, <2>3 DEF Sends, Level
  <2> QED
    BY <1>3, <2>2, <2>3
<1>5. CASE d = c
  <2>1. CASE req = waiting'[c]
    BY <1>5, <2>1 DEF Sends, Level, Sending, Sent, Link
  <2>2. CASE req \in requests /\ Resends(c)
    <3>1. Level(c, req)
      BY <1>1, <2>2 DEF EpochsInUse, HasLink, Sends, Resends
    <3> QED
      BY <1>5, <2>2, <3>1 DEF Resends, Level, Sends, Sending, Sent
  <2>3. CASE req \in requests /\ SendsOn(c)
    <3>1. Level(c, req)
      BY <1>1, <2>3 DEF EpochsInUse, SendsOn
    <3> QED
      BY <1>5, <2>3, <3>1 DEF SendsOn, Level, Sending
  <2>4. CASE req \in requests /\ Opens(c)
    BY <1>5, <2>4 DEF Opens, FreeEpochs, Level
  <2> QED
    BY <1>3, <2>1, <2>2, <2>3, <2>4 DEF Sends
<1> QED
  BY <1>4, <1>5

\* Sending keeps the epochs apart.
LEMMA SendsEpochs ==
  ASSUME SyncInv, NEW c \in Client, ClientTypes', Sends(c)
  PROVE  Exchanges'
<1>1. ClientTypes /\ Exchanges /\ EpochsInUse /\ ClientTypes'
  BY DEF SyncInv, Exchanges
<1>2. /\ \A d \in Client \ {c} : HasLink(d) => link[d].epoch # link'[c].epoch
      /\ \A e \in Epoch : e # link'[c].epoch => epochs'[e] = epochs[e]
      /\ link'[c].epoch \in Epoch /\ link'[c].seq \in Nat
  BY SentInOwnEpoch
<1>3. \A d \in Client \ {c} :
        /\ HasLink(d)' <=> HasLink(d)
        /\ link'[d] = link[d]
        /\ HasLink(d) => epochs'[link[d].epoch] = epochs[link[d].epoch]
  BY <1>2 DEF Sends, Others, HasLink, Link
<1>4. Exchange(c)' /\ Answered(c)'
  <2>1. Answered(c)'
    BY DEF Sends, Answered
  <2>2. CASE Resends(c)
    BY <1>1, <2>1, <2>2 DEF Sends, Resends, Exchange, Exchanges, Sending, Sent
  <2>3. CASE SendsOn(c)
    BY <2>1, <2>3 DEF Sends, SendsOn, Exchange, Sending, Sent
  <2>4. CASE Opens(c)
    BY <2>1, <2>4 DEF Sends, Opens, Exchange, Sending, Sent
  <2> QED
    BY <2>1, <2>2, <2>3, <2>4 DEF Sends
<1>5. ASSUME NEW d \in Client \ {c}
      PROVE  Exchange(d)' /\ Answered(d)'
  <2>1. Exchange(d)'
    BY <1>1, <1>5 DEF Sends, Others, Exchanges, Exchange, Sending, Sent
  <2>2. Sending(d) => HasLink(d)
    BY <1>1 DEF ClientTypes
  <2>3. Answered(d)'
    BY <1>1, <1>3, <1>5, <2>2 DEF Sends, Others, Exchanges, Answered, Sending
  <2> QED
    BY <2>1, <2>3
<1>6. epochs'[link'[c].epoch].live =>
        epochs'[link'[c].epoch].expected \in {link'[c].seq, link'[c].seq + 1}
  <2>1. CASE link'[c] = link[c] /\ UNCHANGED epochs
    BY <1>1, <2>1 DEF EpochsInUse, HasLink, Sends
  <2>2. CASE Opens(c)
    <3>1. epochs \in [Epoch -> EpochState]
      BY DEF SyncInv, Inv, TypeOK, ExchangesTypeOK
    <3> QED
      BY <1>2, <2>2, <3>1 DEF Opens, FreshEpoch, IdleEpoch
  <2> QED
    BY <2>1, <2>2 DEF Sends, Resends, SendsOn
<1>7. ASSUME NEW req \in requests', epochs'[req.epoch].live
      PROVE  req.seq <= epochs'[req.epoch].expected
  <2>1. CASE req = waiting'[c]
    BY <1>2, <1>6, <1>7, <2>1 DEF Sends
  <2>2. CASE req \in requests /\ req.epoch # link'[c].epoch
    <3>1. req.epoch \in Epoch
      BY <1>1, <2>2 DEF ClientTypes, Request
    <3> QED
      BY <1>1, <1>2, <1>7, <2>2, <3>1 DEF EpochsInUse
  <2>3. CASE req \in requests /\ ~Opens(c)
    BY <1>1, <1>7, <2>3 DEF EpochsInUse, Sends, Resends, SendsOn
  <2> QED
    BY <2>1, <2>2, <2>3 DEF Sends, Opens, FreeEpochs
<1>8. ASSUME NEW e \in Epoch, epochs'[e].expected > 0
      PROVE  epochs'[e].answer \in Response
  <2>1. CASE UNCHANGED epochs
    BY <1>1, <1>8, <2>1 DEF EpochsInUse
  <2>2. CASE Opens(c)
    <3>1. epochs \in [Epoch -> EpochState]
      BY DEF SyncInv, Inv, TypeOK, ExchangesTypeOK
    <3>2. e # link'[c].epoch
      BY <1>2, <1>8, <2>2, <3>1 DEF Opens, FreshEpoch, IdleEpoch
    <3> QED
      BY <1>1, <1>2, <1>8, <3>2 DEF EpochsInUse
  <2> QED
    BY <2>1, <2>2 DEF Sends, Resends, SendsOn
<1>9. EpochsInUse'
  <2>1. \A d, f \in Client :
          HasLink(d)' /\ HasLink(f)' /\ link'[d].epoch = link'[f].epoch => d = f
    BY <1>1, <1>2, <1>3 DEF EpochsInUse
  <2>2. \A d \in Client : HasLink(d)' =>
          (epochs'[link'[d].epoch].live =>
            epochs'[link'[d].epoch].expected \in {link'[d].seq, link'[d].seq + 1})
    BY <1>1, <1>3, <1>6 DEF EpochsInUse
  <2>3. \A d \in Client : HasLink(d)' => \A req \in requests' : Level(d, req)'
    BY SendsLevel
  <2> QED
    BY <1>7, <1>8, <2>1, <2>2, <2>3 DEF EpochsInUse
<1> QED
  BY <1>4, <1>5, <1>9 DEF Exchanges

\* What is sent is the sender's own: its key, its position, its stream.
LEMMA SendsOwned ==
  ASSUME SyncInv, NEW c \in Client, ClientTypes', Exchanges', Sends(c)
  PROVE  Owners'
<1>1. ClientTypes /\ Owners /\ Exchange(c)' /\ ClientTypes'
  BY DEF SyncInv, Exchanges
<1>2. Onwards
  BY <1>1 DEF Sends, Others, Onwards, ClientTypes
<1>3. /\ KeysOK(sessions)' /\ (savedSessions' # None => KeysOK(savedSessions)') /\ SameKeys'
      /\ \A i, d : IsStreamOf(i, d)' <=> IsStreamOf(i, d)
      /\ \A body \in Message : OwnedRequest(body) => OwnedRequest(body)'
  BY <1>2, OwnedLater DEF Sends
<1>4. \A d \in Client : HasLink(d)' => IsStreamOf(link'[d].stream, d)
  <2>1. IsStreamOf(link'[c].stream, c)
    <3>1. CASE Opens(c)
      BY <3>1, NoStream DEF Opens
    <3>2. CASE link'[c] = link[c]
      BY <1>1, <3>2 DEF Owners, HasLink, Sends
    <3> QED
      BY <3>1, <3>2 DEF Sends, Resends, SendsOn
  <2> QED
    BY <1>1, <2>1 DEF Sends, Others, Owners, HasLink
<1>5. ASSUME NEW body, body = waiting'[c].body
      PROVE  OwnedRequest(body)'
  <2>1. body \in Message /\ body.from = c /\ pc'[c] = "sending" /\ HasLink(c)'
    BY <1>5, RequestParts DEF Sends, HasLink
  <2>2. body.kind = "open" => body.key = <<c, suffix'[c]>> /\ body.source = want'[c]
    BY <1>1, <1>5, <2>1 DEF Exchange, Sending, Sent
  <2>3. want'[c] >= start'[c] /\ suffix'[c] \in Nat
    BY <1>1, <2>1 DEF ClientTypes
  <2>4. body.kind \in {"pcm", "close", "mark"} => IsStreamOf(body.stream, c)'
    BY <1>1, <1>3, <1>4, <1>5, <2>1 DEF Exchange, Sending, Sent
  <2> QED
    BY <2>1, <2>2, <2>3, <2>4 DEF OwnedRequest, IsKeyOf
<1>6. \A req \in requests' : OwnedRequest(req.body)'
  <2>1. \A req \in requests : req.body \in Message /\ OwnedRequest(req.body)
    BY <1>1, RequestParts DEF ClientTypes, Owners
  <2> QED
    BY <1>3, <1>5, <2>1 DEF Sends
<1>7. \A d \in Client :
        Sending(d)' /\ Sent(d)'.kind = "open" /\ reply'[d] # None /\ reply'[d].code = 200 =>
          IsStreamOf(reply'[d].message.stream, d)
  BY <1>1 DEF Sends, Others, Owners, Sending, Sent
<1>8. ASSUME NEW e \in Epoch, epochs'[e].expected > 0,
             epochs'[e].last.body.kind = "open"
      PROVE  IsStreamOf(epochs'[e].answer.stream, epochs'[e].last.body.from)
  <2>1. CASE UNCHANGED epochs
    BY <1>1, <1>8, <2>1 DEF Owners
  <2>2. CASE Opens(c)
    <3>1. epochs \in [Epoch -> EpochState]
      BY DEF SyncInv, Inv, TypeOK, ExchangesTypeOK
    <3>2. e # link'[c].epoch
      BY <1>8, <2>2, <3>1 DEF Opens, FreshEpoch, IdleEpoch
    <3>3. epochs'[e] = epochs[e]
      BY <2>2, <3>1, <3>2 DEF Opens
    <3> QED
      BY <1>1, <1>8, <3>3 DEF Owners
  <2> QED
    BY <2>1, <2>2 DEF Sends, Resends, SendsOn
<1> QED
  BY <1>3, <1>4, <1>6, <1>7, <1>8 DEF Owners

\* A new logical stream stays new while it is opened, and a message of another client
\* does not know its key.
LEMMA SendsFresh ==
  ASSUME SyncInv, NEW c \in Client, ClientTypes', Exchanges', Sends(c)
  PROVE  AllFresh'
<1>1. ClientTypes /\ AllFresh /\ Exchange(c)'
  BY DEF SyncInv, Exchanges
<1>2. waiting'[c].body.kind = "open" => waiting'[c].body.key = <<c, suffix[c]>>
  BY <1>1 DEF Sends, Exchange, Sending, Sent
<1>3. ASSUME NEW d \in Client \ {c}
      PROVE  Fresh(d)'
  <2>1. Fresh(d) /\ (Sending(d) => HasLink(d))
    BY <1>1 DEF AllFresh, ClientTypes
  <2>2. HasLink(d) => epochs'[link[d].epoch] = epochs[link[d].epoch]
    BY SentInOwnEpoch DEF HasLink, Link
  <2>3. \A req \in requests' :
          req \in requests \/ (req.body.kind = "open" => req.body.key # <<d, suffix[d]>>)
    BY <1>2 DEF Sends
  <2> QED
    BY <2>1, <2>2, <2>3 DEF Sends, Others, Fresh, Sending, Sent
<1>4. Fresh(c)'
  <2>1. Fresh(c) /\ pc'[c] = "sending" /\ reply'[c] = None /\ suffix'[c] = suffix[c]
    BY <1>1 DEF AllFresh, Sends
  <2>2. CASE Resends(c)
    BY <2>1, <2>2 DEF Sends, Resends, Fresh, Sending, Sent
  <2>3. CASE SendsOn(c)
    BY <2>1, <2>3 DEF SendsOn, Fresh, Sending, Sent
  <2>4. CASE Opens(c)
    <3>1. epochs'[link'[c].epoch] = FreshEpoch
      <4>1. epochs \in [Epoch -> EpochState]
        BY DEF SyncInv, Inv, TypeOK, ExchangesTypeOK
      <4> QED
        BY <2>4, <4>1 DEF Opens, FreeEpochs
    <3> QED
      BY <2>1, <2>4, <3>1 DEF Sends, Opens, Fresh, Sending, Sent, FreshEpoch, IdleEpoch
  <2> QED
    BY <2>2, <2>3, <2>4 DEF Sends
<1> QED
  BY <1>3, <1>4 DEF AllFresh

\* Sending a message keeps the invariant's parts.
LEMMA SendsKeeps ==
  ASSUME SyncInv, NEW c \in Client, ClientTypes', Sends(c)
  PROVE  Exchanges' /\ Owners' /\ SamplesAreNew' /\ AllFresh'
<1>1. Onwards
  BY DEF Sends, Others, Onwards, ClientTypes, SyncInv
<1> QED
  BY <1>1, SendsEpochs, SendsOwned, SendsFresh, SamplesLater DEF Sends

\* Nor does anything change for the invariant when a thread is told to stop, the
\* recorder records or a copy is lost.
LEMMA StandsStill ==
  ASSUME SyncInv, requests' \subseteq requests,
         UNCHANGED <<epochs, streamVars, waiting, reply, pc, start, suffix, link, want, seen>>
  PROVE  Exchanges' /\ Owners' /\ SamplesAreNew' /\ AllFresh'
<1>1. \A c \in Client : Exchange(c)' /\ Answered(c)'
  BY DEF SyncInv, Exchanges, Exchange, Answered, Sending, Sent
<1>2. EpochsInUse'
  BY DEF SyncInv, Exchanges, EpochsInUse, HasLink, Level, Sending, Sent
<1>3. Owners'
  BY DEF SyncInv, Owners, KeysOK, SameKeys, OwnedRequest, IsKeyOf, IsStreamOf, HasLink,
         Sending, Sent
<1>4. AllFresh'
  BY DEF SyncInv, AllFresh, Fresh, HasKey, Sending, Sent
<1>5. SamplesAreNew'
  BY DEF SyncInv, SamplesAreNew
<1> QED
  BY <1>1, <1>2, <1>3, <1>4, <1>5 DEF Exchanges

-----------------------------------------------------------------------------
(* The server's side of a delivery *)

\* Where samples go: those of the log were in the cache, or follow it as the chunk does.
PartOf(body, log) ==
  \A k \in 1..Len(log) :
    \/ k \in 1..Len(cache) /\ log[k] = cache[k]
    \/ k > Len(cache) /\ log[k] = <<body.from, body.start + (k - Len(cache)) - 1>>

\* What a push leaves of the cache and its chunk, whether its writes succeed or not.
Carries(body, log) ==
  /\ body.kind = "pcm" /\ PcmError(body) = "" /\ InPlace(body)
  /\ PartOf(body, log)

\* What a handler may do to the streams: they keep their keys, a new one is the one
\* the message opens, and the file holds the old map or the new, or is gone.
Grows(body) ==
  /\ issued <= issued'
  /\ \A i \in DOMAIN sessions :
       /\ i \in DOMAIN sessions'
       /\ sessions'[i].key = sessions[i].key /\ sessions'[i].source = sessions[i].source
  /\ \A i \in DOMAIN sessions' : i \in DOMAIN sessions \/
       /\ i = issued + 1 /\ body.kind = "open"
       /\ sessions'[i].key = body.key /\ sessions'[i].source = body.source
  /\ savedSessions' \in {savedSessions, sessions', None}
  /\ cache' = cache \/ Carries(body, cache')

\* What the answer to an open names: no stream, the stream of the key, or a new one
\* with its beginning.
OpenAnswer(body, m) ==
  \/ m.stream = 0
  \/ m.stream \in DOMAIN sessions /\ sessions[m.stream].key = body.key
  \/ m.stream = issued + 1 /\ issued' = issued + 1 /\ m.next = body.source

\* What is left of the cache with a chunk behind it, up to any length.
LEMMA PrefixCarries ==
  ASSUME CacheTypeOK, NEW body, body.from \in Client, body.start \in Nat,
         NEW count \in Nat, NEW length \in Nat, length <= Len(cache) + count
  PROVE  /\ PartOf(body, SubSeq(cache \o Chunk(body, count), 1, length))
         /\ PartOf(body, cache \o Chunk(body, count))
<1> DEFINE from == body.from
           first == body.start
           log == cache \o Samples(from, first, count)
           short == SubSeq(log, 1, length)
<1>1. Len(cache) \in Nat /\ from \in Client /\ first \in Nat
  BY LenProperties DEF CacheTypeOK
<1> HIDE DEF from, first
<1>2. /\ log \in Seq(Client \X Nat) /\ Len(log) = Len(cache) + count
      /\ \A n \in 1..Len(cache) : log[n] = cache[n]
      /\ \A n \in 1..Len(log) :
           n > Len(cache) => log[n] = <<from, first + (n - Len(cache)) - 1>>
  BY <1>1, AppendedSamples
<1> HIDE DEF log, short
<1>3. Len(short) = length
  BY <1>2, PrefixType DEF short
<1>4. ASSUME NEW k \in 1..length
      PROVE  k \in 1..Len(log) /\ short[k] = log[k]
  <2>1. k \in 1..Len(log)
    BY <1>1, <1>2, <1>4
  <2> QED
    BY <1>2, <1>4, <2>1, SubSeqProperties DEF short
<1>5. \A k \in 1..Len(log) :
        \/ k \in 1..Len(cache) /\ log[k] = cache[k]
        \/ k > Len(cache) /\ log[k] = <<from, first + (k - Len(cache)) - 1>>
  BY <1>1, <1>2
<1>6. \A k \in 1..Len(short) :
        \/ k \in 1..Len(cache) /\ short[k] = cache[k]
        \/ k > Len(cache) /\ short[k] = <<from, first + (k - Len(cache)) - 1>>
  BY <1>3, <1>4, <1>5
<1>7. cache \o Chunk(body, count) = log
  BY DEF Chunk, log, from, first
<1> QED
  BY <1>5, <1>6, <1>7 DEF PartOf, short, from, first

\* However a push ends, it leaves the cache and samples of its chunk.
LEMMA PushCarries ==
  ASSUME CacheTypeOK, NEW body, body.from \in Client, body.start \in Nat, body.count \in Nat,
         \/ AppendChunk(body) \/ AppendPart(body) \/ LeaveUnflushed(body)
         \/ Miscount(body) \/ StayUnflushed
  PROVE  PartOf(body, cache')
<1>1. Len(cache) \in Nat /\ unflushed \in Nat /\ Len(cache) - unflushed \in Nat
  BY LenProperties DEF CacheTypeOK
<1>2. ASSUME NEW count \in Nat, cache' = cache \o Chunk(body, count)
      PROVE  PartOf(body, cache')
  <2>1. Len(cache) \in Nat /\ Len(cache) <= Len(cache) + count
    BY <1>1
  <2> QED
    BY <1>2, <2>1, PrefixCarries
<1>3. CASE AppendChunk(body) \/ LeaveUnflushed(body)
  BY <1>2, <1>3 DEF AppendChunk, LeaveUnflushed
<1>4. CASE AppendPart(body)
  <2>1. PICK count \in 0..body.count : cache' = cache \o Chunk(body, count)
    BY <1>4 DEF AppendPart
  <2> QED
    BY <1>2, <2>1
<1>5. CASE Miscount(body)
  <2>1. PICK length \in (Len(cache) - unflushed)..(Len(cache) + body.count) :
          cache' = SubSeq(cache \o Chunk(body, body.count), 1, length)
    BY <1>5 DEF Miscount
  <2>2. length \in Nat /\ length <= Len(cache) + body.count
    BY <1>1
  <2> QED
    BY <2>1, <2>2, PrefixCarries
<1>6. CASE StayUnflushed
  BY <1>6 DEF StayUnflushed, PartOf
<1> QED
  BY <1>3, <1>4, <1>5, <1>6

\* Every handler answers with a response and touches the streams in this way.
LEMMA OpenGrows ==
  ASSUME Inv, NEW req \in Request, OpenOrResume(req)
  PROVE  /\ Grows(req.body)
         /\ \E m \in Response : Respond(req, m) /\ OpenAnswer(req.body, m)
<1> DEFINE body == req.body
<1>1. body \in Message /\ body.kind = "open" /\ body.source \in Nat
  BY RequestParts, MessageParts DEF OpenOrResume
<1>2. /\ issued \in Nat /\ DOMAIN sessions \subseteq 1..issued
      /\ \A i \in DOMAIN sessions : sessions[i] \in Session
  BY DEF Inv, TypeOK, SessionsTypeOK, IsSessionMap
<1>3. \A error \in ErrorCode : Rejected(error) \in Response /\ OpenAnswer(body, Rejected(error))
  BY DEF Rejected, Response, OpenAnswer
<1>4. ASSUME UNCHANGED streamVars
      PROVE  Grows(body)
  BY <1>2, <1>4 DEF Grows
<1>5. ASSUME NEW i \in KnownStreams(body.key), Resume(req, i)
      PROVE  Grows(body) /\ \E m \in Response : Respond(req, m) /\ OpenAnswer(body, m)
  <2>1. i \in Nat /\ sessions[i] \in Session /\ sessions[i].key = body.key /\ i \in DOMAIN sessions
    BY <1>2, <1>5 DEF KnownStreams
  <2>2. ResumeSample(sessions[i]) \in Nat
    BY <2>1, PositionTypes DEF Inv, TypeOK
  <2>3. Ok(i, ResumeSample(sessions[i])) \in Response /\ OpenAnswer(body, Ok(i, ResumeSample(sessions[i])))
    BY <2>1, <2>2 DEF Ok, Response, ErrorCode, OpenAnswer
  <2>4. UNCHANGED streamVars
    BY <1>5 DEF Resume
  <2> QED
    BY <1>3, <1>4, <1>5, <2>3, <2>4 DEF Resume, ErrorCode
<1>6. ASSUME CreateStream(req)
      PROVE  Grows(body) /\ \E m \in Response : Respond(req, m) /\ OpenAnswer(body, m)
  <2> DEFINE id == issued + 1
  <2>1. /\ DOMAIN sessions' = DOMAIN sessions \cup {id} /\ issued' = id /\ id \in Nat
        /\ UNCHANGED cache /\ id \notin DOMAIN sessions
    BY <1>2, <1>6 DEF CreateStream, WithNewSession
  <2>2. sessions'[id].key = body.key /\ sessions'[id].source = body.source
    <3>1. active # id
      BY <1>2, <2>1, ServerConstants DEF Inv, TypeOK, SessionsTypeOK
    <3>2. sessions'[id] = NewSession(body)
      BY <1>6, <2>1, <3>1 DEF CreateStream, WithNewSession
    <3> QED
      BY <3>2 DEF NewSession
  <2>3. \A i \in DOMAIN sessions :
          sessions'[i].key = sessions[i].key /\ sessions'[i].source = sessions[i].source
    <3> SUFFICES ASSUME NEW i \in DOMAIN sessions
                 PROVE  sessions'[i].key = sessions[i].key /\ sessions'[i].source = sessions[i].source
      OBVIOUS
    <3>1. sessions'[i] = IF i = active THEN CutOff(sessions[i]) ELSE sessions[i]
      BY <1>6, <2>1 DEF CreateStream, WithNewSession
    <3>2. sessions[i] \in Session
      BY <1>2
    <3> QED
      BY <3>1, <3>2 DEF CutOff, Session
  <2>4. savedSessions' \in {savedSessions, sessions', None}
    BY <1>6 DEF CreateStream, SaveSessions
  <2>5. Grows(body)
    BY <1>1, <1>2, <2>1, <2>2, <2>3, <2>4 DEF Grows
  <2>6. Ok(id, body.source) \in Response /\ OpenAnswer(body, Ok(id, body.source))
    BY <1>1, <2>1 DEF Ok, Response, ErrorCode, OpenAnswer
  <2> QED
    BY <1>3, <1>6, <2>5, <2>6 DEF CreateStream, SaveSessions, ErrorCode
<1>7. ASSUME CreateCacheFails(req)
      PROVE  Grows(body) /\ \E m \in Response : Respond(req, m) /\ OpenAnswer(body, m)
  <2>1. Grows(body)
    BY <1>2, <1>7 DEF CreateCacheFails, Grows
  <2> QED
    BY <1>3, <1>7, <2>1 DEF CreateCacheFails, ErrorCode
<1> QED
  BY <1>3, <1>4, <1>5, <1>6, <1>7 DEF OpenOrResume, ErrorCode

\* A message about a stream opens none.
LEMMA EndGrows ==
  ASSUME Inv, NEW req \in Request, NEW m \in Response, NEW isIncomplete,
         req.body.stream \in DOMAIN sessions,
         EndSession(req.body.stream, isIncomplete), SaveSessions(req, m)
  PROVE  Grows(req.body) /\ \E r \in Response : Respond(req, r)
<1>1. /\ issued \in Nat /\ sessions[req.body.stream] \in Session
  BY DEF Inv, TypeOK, SessionsTypeOK, IsSessionMap
<1>2. \A i \in DOMAIN sessions :
        /\ i \in DOMAIN sessions'
        /\ sessions'[i].key = sessions[i].key /\ sessions'[i].source = sessions[i].source
  BY <1>1 DEF EndSession, Session
<1>3. DOMAIN sessions' = DOMAIN sessions /\ UNCHANGED <<issued, cache>>
  BY DEF EndSession
<1>4. savedSessions' \in {savedSessions, sessions', None}
  BY DEF SaveSessions
<1>5. Rejected("metadata_write_failed") \in Response
  BY DEF Rejected, Response, ErrorCode
<1> QED
  BY <1>1, <1>2, <1>3, <1>4, <1>5 DEF Grows, SaveSessions

LEMMA HandleGrows ==
  ASSUME Inv, NEW req \in Request, Handle(req)
  PROVE  /\ Grows(req.body)
         /\ \E m \in Response :
              Respond(req, m) /\ (req.body.kind = "open" => OpenAnswer(req.body, m))
<1> DEFINE body == req.body
<1>1. body \in Message /\ issued \in Nat
  BY RequestParts DEF Inv, TypeOK, SessionsTypeOK
<1>2. \A error \in ErrorCode : Rejected(error) \in Response
  BY DEF Rejected, Response
<1>3. ASSUME UNCHANGED streamVars
      PROVE  Grows(body)
  BY <1>1, <1>3 DEF Grows
<1>4. \A i \in DOMAIN sessions : ExpectedSample(sessions[i]) \in Nat
  BY PositionTypes DEF Inv, TypeOK, SessionsTypeOK, IsSessionMap
<1>5. CASE OpenOrResume(req)
  BY <1>5, OpenGrows
<1>6. CASE PushPcm(req)
  <2>1. body.kind = "pcm" /\ body.stream \in Nat /\ body.start \in Nat /\ body.count \in Nat
    BY <1>1, <1>6, MessageParts DEF PushPcm
  <2>2. PcmError(body) \in ErrorCode
    BY DEF PcmError, ErrorCode
  <2>3. Ok(body.stream, body.start + body.count) \in Response
    BY <2>1 DEF Ok, Response, ErrorCode
  <2>4. PcmError(body) = "" => Gap(body.stream, ExpectedSample(sessions[body.stream]), "sample_gap") \in Response
    BY <1>4, <2>1 DEF Gap, Response, ErrorCode, PcmError
  <2>5. ASSUME PcmError(body) = "", InPlace(body), UNCHANGED <<sessions, issued, savedSessions>>,
               \/ AppendChunk(body) \/ AppendPart(body) \/ LeaveUnflushed(body)
               \/ Miscount(body) \/ StayUnflushed
        PROVE  Grows(body)
    <3>1. CacheTypeOK /\ body.from \in Client
      BY <1>1, MessageParts DEF Inv, TypeOK
    <3>2. /\ issued <= issued' /\ savedSessions' = savedSessions
          /\ DOMAIN sessions' = DOMAIN sessions
      <4>1. issued' = issued /\ savedSessions' = savedSessions /\ DOMAIN sessions' = DOMAIN sessions
        BY <2>5
      <4> QED
        BY <1>1, <4>1
    <3>3. \A i \in DOMAIN sessions : sessions'[i] = sessions[i]
      BY <2>5
    <3> HIDE DEF body
    <3>4. PartOf(body, cache')
      BY <2>1, <2>5, <3>1, PushCarries
    <3>5. Carries(body, cache')
      BY <2>1, <2>5, <3>4 DEF Carries
    <3> QED
      BY <3>2, <3>3, <3>5 DEF Grows
  <2>6. "storage_write_failed" \in ErrorCode
    BY DEF ErrorCode
  <2>7. CASE PcmError(body) = "" /\ InPlace(body)
    <3>1. Grows(body)
      BY <1>6, <2>5, <2>7 DEF PushPcm
    <3> QED
      BY <1>2, <1>6, <2>1, <2>3, <2>6, <2>7, <3>1 DEF PushPcm
  <2>8. CASE ~(PcmError(body) = "" /\ InPlace(body))
    BY <1>2, <1>3, <1>6, <2>1, <2>2, <2>4, <2>8 DEF PushPcm
  <2> QED
    BY <2>7, <2>8
<1>7. CASE CloseStream(req)
  <2>1. body.kind = "close" /\ body.stream \in Nat /\ body.final \in Nat
    BY <1>1, <1>7, MessageParts DEF CloseStream
  <2>2. Ok(body.stream, body.final) \in Response /\ "stream_not_found" \in ErrorCode
    BY <2>1 DEF Ok, Response, ErrorCode
  <2>3. body.stream \in DOMAIN sessions =>
          Gap(body.stream, ExpectedSample(sessions[body.stream]), "final_sample_mismatch") \in Response
    BY <1>4, <2>1 DEF Gap, Response, ErrorCode
  <2>4. ASSUME FlushFails
        PROVE  Grows(body)
    BY <1>1, <2>4 DEF FlushFails, Grows
  <2>5. "core_flush_failed" \in ErrorCode
    BY DEF ErrorCode
  <2> QED
    BY <1>2, <1>3, <1>7, <2>1, <2>2, <2>3, <2>4, <2>5, EndGrows DEF CloseStream
<1>8. CASE MarkIncomplete(req)
  <2>1. body.kind = "mark" /\ body.stream \in Nat
    BY <1>1, <1>8, MessageParts DEF MarkIncomplete
  <2>2. body.stream \in DOMAIN sessions =>
          Ok(body.stream, ExpectedSample(sessions[body.stream])) \in Response
    BY <1>4, <2>1 DEF Ok, Response, ErrorCode
  <2> QED
    BY <1>2, <1>3, <1>8, <2>1, <2>2, EndGrows DEF MarkIncomplete, ErrorCode
<1>9. CASE Probe(req)
  BY <1>3, <1>9 DEF Probe, Ok, Response, ErrorCode
<1> QED
  BY <1>5, <1>6, <1>7, <1>8, <1>9 DEF Handle

\* A request that is delivered no longer travels, and the clients notice no more than
\* an answer.
Takes(req) ==
  /\ requests' = requests \ {req}
  /\ UNCHANGED <<clientVars, recorderVars, waiting>>

Echoes(req) ==
  /\ UNCHANGED <<epochs, streamVars>>
  /\ \/ epochs[req.epoch].live /\ IsRetry(req) /\ Answer(req, 200, epochs[req.epoch].answer)
     \/ \E code \in Nat \ {200} : Answer(req, code, None)

Counts(req, m) ==
  /\ IsNext(req) /\ Respond(req, m) /\ Grows(req.body)
  /\ req.body.kind = "open" => OpenAnswer(req.body, m)

\* No envelope meets the sequence-gap branch: what is left of process_envelope is an
\* answer that was given before, a refusal, or a message that is counted.
LEMMA EnvelopeEffect ==
  ASSUME SyncInv, NEW req \in requests, ProcessEnvelope(req)
  PROVE  Echoes(req) \/ \E m \in Response : Counts(req, m)
<1>1. req \in Request /\ req.seq \in Nat /\ req.epoch \in Epoch
  BY RequestParts DEF SyncInv, ClientTypes
<1>2. epochs[req.epoch].expected \in Nat
  BY <1>1 DEF SyncInv, Inv, TypeOK, ExchangesTypeOK, EpochState
<1>3. epochs[req.epoch].live => ~(req.seq > epochs[req.epoch].expected)
  BY <1>1, <1>2 DEF SyncInv, Exchanges, EpochsInUse
<1>4. CASE IsNext(req) /\ Handle(req)
  <2>1. Inv
    BY DEF SyncInv
  <2> QED
    BY <1>1, <1>4, <2>1, HandleGrows DEF Counts
<1>5. CASE ~(IsNext(req) /\ Handle(req))
  BY <1>3, <1>5 DEF ProcessEnvelope, Echoes
<1> QED
  BY <1>4, <1>5

\* An answer reaches the client that waits for it and no other.
LEMMA AnswerReaches ==
  ASSUME NEW req, NEW code, NEW m, Answer(req, code, m)
  PROVE  /\ \A d \in Client : waiting[d] = req =>
              reply'[d].code = code /\ reply'[d].message = m
         /\ \A d \in Client : waiting[d] # req => reply'[d] = reply[d]
BY DEF Answer

\* The client waiting for a request is its sender, at its sequence number.
LEMMA WaitingFor ==
  ASSUME SyncInv, NEW d \in Client, NEW req \in requests, waiting[d] = req
  PROVE  /\ Sending(d) /\ HasLink(d) /\ Sent(d) = req.body /\ req.body.from = d
         /\ link[d].epoch = req.epoch /\ link[d].seq = req.seq /\ req \in Request
<1>1. ClientTypes /\ Exchange(d) /\ req \in Request
  BY DEF SyncInv, Exchanges, ClientTypes
<1>2. waiting[d] # None
  BY <1>1, ServerConstants
<1>3. Sending(d) /\ HasLink(d)
  BY <1>1, <1>2 DEF ClientTypes
<1> QED
  BY <1>1, <1>3 DEF Exchange, Sent

\* The answer of the cache, or a refusal, is the answer to this very exchange.
LEMMA EchoKeeps ==
  ASSUME SyncInv, NEW req \in requests, Takes(req), Echoes(req)
  PROVE  Exchanges' /\ Owners' /\ SamplesAreNew' /\ AllFresh'
<1> DEFINE e == epochs[req.epoch]
<1>1. ClientTypes /\ Exchanges /\ EpochsInUse /\ Owners /\ AllFresh /\ Inv
  BY DEF SyncInv, Exchanges
<1>2. req \in Request /\ req.seq \in Nat /\ req.epoch \in Epoch /\ e.expected \in Nat
  BY <1>1, RequestParts DEF ClientTypes, Inv, TypeOK, ExchangesTypeOK, EpochState
<1>3. /\ requests' \subseteq requests
      /\ UNCHANGED <<pc, start, suffix, link, want, seen, waiting, epochs, streamVars>>
  BY DEF Takes, Echoes
<1>4. ASSUME NEW d \in Client
      PROVE  \/ reply'[d] = reply[d]
             \/ waiting[d] = req /\ reply'[d].code # 200 /\ reply'[d].message = None
             \/ /\ waiting[d] = req /\ e.live /\ IsRetry(req)
                /\ reply'[d].code = 200 /\ reply'[d].message = e.answer
  BY AnswerReaches DEF Echoes
<1>5. ASSUME NEW d \in Client, waiting[d] = req, e.live, IsRetry(req)
      PROVE  /\ e.expected > 0 /\ e.answer \in Response /\ e.expected = link[d].seq + 1
             /\ e.last.body = Sent(d) /\ link[d].epoch = req.epoch
             /\ Sent(d).from = d /\ Sending(d)
  <2>1. HasLink(d) /\ Sent(d) = req.body /\ link[d].epoch = req.epoch /\ link[d].seq = req.seq
        /\ Sent(d).from = d /\ Sending(d)
    BY <1>5, WaitingFor
  <2>2. e.expected \in {link[d].seq, link[d].seq + 1} /\ req.seq < e.expected
    BY <1>1, <1>5, <2>1 DEF EpochsInUse, IsRetry
  <2>3. e.last = [seq |-> req.seq, body |-> req.body]
    BY <1>5 DEF IsRetry
  <2> QED
    BY <1>1, <1>2, <2>1, <2>2, <2>3 DEF EpochsInUse
<1>6. ASSUME NEW d \in Client
      PROVE  Exchange(d)' /\ Answered(d)'
  <2>1. Exchange(d) /\ Answered(d)
    BY <1>1 DEF Exchanges
  <2>2. Exchange(d)'
    BY <1>3, <2>1 DEF Exchange, Sending, Sent
  <2>3. Answered(d)'
    BY <1>3, <1>4, <1>5, <2>1 DEF Answered, Sending
  <2> QED
    BY <2>2, <2>3
<1>7. EpochsInUse'
  BY <1>1, <1>3 DEF EpochsInUse, HasLink, Level, Sending, Sent
<1>8. /\ KeysOK(sessions)' /\ (savedSessions' # None => KeysOK(savedSessions)') /\ SameKeys'
      /\ \A i, d : IsStreamOf(i, d)' <=> IsStreamOf(i, d)
      /\ \A r \in requests : OwnedRequest(r.body)'
  BY <1>1, <1>3 DEF Owners, KeysOK, SameKeys, OwnedRequest, IsKeyOf, IsStreamOf
<1>9. ASSUME NEW d \in Client, Sending(d), Sent(d).kind = "open", reply'[d] # None,
             reply'[d].code = 200
      PROVE  IsStreamOf(reply'[d].message.stream, d)
  <2>1. CASE reply'[d] = reply[d]
    BY <1>1, <1>9, <2>1 DEF Owners
  <2>2. CASE waiting[d] = req /\ e.live /\ IsRetry(req) /\ reply'[d].message = e.answer
    BY <1>1, <1>2, <1>5, <1>9, <2>2 DEF Owners
  <2> QED
    BY <1>4, <1>9, <2>1, <2>2
<1>10. Owners'
  <2>1. \A d \in Client : HasLink(d)' => IsStreamOf(link'[d].stream, d)
    BY <1>1, <1>3, <1>8 DEF Owners, HasLink
  <2>2. \A d \in Client :
          Sending(d)' /\ Sent(d)'.kind = "open" /\ reply'[d] # None /\ reply'[d].code = 200 =>
            IsStreamOf(reply'[d].message.stream, d)
    BY <1>3, <1>8, <1>9 DEF Sending, Sent
  <2>3. \A f \in Epoch :
          epochs'[f].expected > 0 /\ epochs'[f].last.body.kind = "open" =>
            IsStreamOf(epochs'[f].answer.stream, epochs'[f].last.body.from)
    BY <1>1, <1>3, <1>8 DEF Owners
  <2>4. \A r \in requests' : OwnedRequest(r.body)'
    BY <1>3, <1>8
  <2> QED
    BY <1>8, <2>1, <2>2, <2>3, <2>4 DEF Owners
<1>11. ASSUME NEW d \in Client
       PROVE  Fresh(d)'
  <2>1. Fresh(d)
    BY <1>1 DEF AllFresh
  <2>2. /\ requests' \subseteq requests
        /\ seen'[d] = seen[d] /\ want'[d] = want[d] /\ suffix'[d] = suffix[d] /\ pc'[d] = pc[d]
        /\ link'[d] = link[d] /\ waiting'[d] = waiting[d]
        /\ epochs' = epochs /\ sessions' = sessions /\ savedSessions' = savedSessions
    BY <1>3
  <2>3. seen[d] # None /\ Sending(d) /\ Sent(d).kind = "open" /\ reply'[d] # None
        /\ reply'[d].code = 200 => OffersStart(reply'[d].message, want[d])
    BY <1>4, <1>5, <2>1 DEF Fresh
  <2> QED
    BY <2>1, <2>2, <2>3 DEF Fresh, Sending, Sent, HasKey
<1>12. SamplesAreNew'
  BY <1>3 DEF SyncInv, SamplesAreNew
<1> QED
  BY <1>6, <1>7, <1>10, <1>11, <1>12 DEF Exchanges, AllFresh

\* A message that is counted is the one its epoch's session is at, and nobody has been
\* answered in that epoch since.
LEMMA CountedIsLevel ==
  ASSUME SyncInv, NEW req \in requests, IsNext(req), NEW d \in Client, HasLink(d),
         link[d].epoch = req.epoch
  PROVE  /\ epochs[req.epoch].expected = link[d].seq /\ req.seq = link[d].seq
         /\ Sending(d) => req.body = Sent(d)
         /\ Sending(d) /\ reply[d] # None => reply[d].code # 200
<1>1. ClientTypes /\ Exchanges /\ EpochsInUse /\ Level(d, req)
  BY DEF SyncInv, Exchanges, EpochsInUse
<1>2. req.seq \in Nat /\ link[d].seq \in Nat
  BY <1>1, RequestParts DEF ClientTypes, HasLink, Link
<1>3. epochs[req.epoch].live /\ req.seq = epochs[req.epoch].expected
  BY DEF IsNext
<1>4. epochs[req.epoch].expected \in {link[d].seq, link[d].seq + 1} /\ req.seq <= link[d].seq
  BY <1>1, <1>3 DEF EpochsInUse, Level
<1>5. epochs[req.epoch].expected = link[d].seq
  BY <1>2, <1>3, <1>4
<1>6. Sending(d) => req.body = Sent(d)
  BY <1>1, <1>3, <1>5 DEF Level, Sending
<1>7. Sending(d) /\ reply[d] # None => reply[d].code # 200
  BY <1>1, <1>2, <1>3, <1>5 DEF Exchanges, Answered
<1> QED
  BY <1>3, <1>5, <1>6, <1>7

\* What the epochs and the exchanges are after a message was counted.
LEMMA CountedEpochs ==
  ASSUME SyncInv, NEW req \in requests, NEW m \in Response, Takes(req), Counts(req, m)
  PROVE  /\ req \in Request /\ req.epoch \in Epoch /\ epochs[req.epoch].expected \in Nat
         /\ requests' \subseteq requests
         /\ UNCHANGED <<pc, start, suffix, link, want, seen, waiting>>
         /\ epochs' = [epochs EXCEPT ![req.epoch] =
                         [live |-> TRUE, expected |-> epochs[req.epoch].expected + 1,
                          last |-> [seq |-> req.seq, body |-> req.body], answer |-> m]]
         /\ epochs'[req.epoch].live /\ epochs'[req.epoch].answer = m
         /\ epochs'[req.epoch].expected = epochs[req.epoch].expected + 1
         /\ epochs'[req.epoch].last.body = req.body
         /\ \A e \in Epoch : e # req.epoch => epochs'[e] = epochs[e]
         /\ \A d \in Client :
              IF waiting[d] = req THEN reply'[d].code = 200 /\ reply'[d].message = m
              ELSE reply'[d] = reply[d]
<1>1. req \in Request /\ req.epoch \in Epoch
  BY RequestParts DEF SyncInv, ClientTypes
<1>2. epochs \in [Epoch -> EpochState]
  BY DEF SyncInv, Inv, TypeOK, ExchangesTypeOK
<1>3. epochs' = [epochs EXCEPT ![req.epoch] =
                   [live |-> TRUE, expected |-> epochs[req.epoch].expected + 1,
                    last |-> [seq |-> req.seq, body |-> req.body], answer |-> m]]
  BY <1>1, <1>2 DEF Counts, Respond
<1>4. \A d \in Client :
        IF waiting[d] = req THEN reply'[d].code = 200 /\ reply'[d].message = m
        ELSE reply'[d] = reply[d]
  BY AnswerReaches DEF Counts, Respond
<1>5. epochs[req.epoch].expected \in Nat
  BY <1>1, <1>2 DEF EpochState
<1>6. requests' \subseteq requests /\ UNCHANGED <<pc, start, suffix, link, want, seen, waiting>>
  BY DEF Takes
<1>7. epochs'[req.epoch] =
        [live |-> TRUE, expected |-> epochs[req.epoch].expected + 1,
         last |-> [seq |-> req.seq, body |-> req.body], answer |-> m]
  BY <1>1, <1>2, <1>3
<1>8. \A e \in Epoch : e # req.epoch => epochs'[e] = epochs[e]
  BY <1>1, <1>2, <1>3
<1> QED
  BY <1>1, <1>3, <1>4, <1>5, <1>6, <1>7, <1>8

\* The session is told that its message was counted, once.
LEMMA CountsExchanges ==
  ASSUME SyncInv, NEW req \in requests, NEW m \in Response, Takes(req), Counts(req, m)
  PROVE  Exchanges'
<1>1. ClientTypes /\ Exchanges /\ EpochsInUse /\ IsNext(req)
  BY DEF SyncInv, Exchanges, Counts
<1>2. /\ requests' \subseteq requests
      /\ UNCHANGED <<pc, start, suffix, link, want, seen, waiting>>
      /\ req.epoch \in Epoch /\ epochs[req.epoch].expected \in Nat
      /\ epochs'[req.epoch].live /\ epochs'[req.epoch].answer = m
      /\ epochs'[req.epoch].expected = epochs[req.epoch].expected + 1
      /\ \A e \in Epoch : e # req.epoch => epochs'[e] = epochs[e]
      /\ \A d \in Client :
           IF waiting[d] = req THEN reply'[d].code = 200 /\ reply'[d].message = m
           ELSE reply'[d] = reply[d]
  BY CountedEpochs
<1>3. \A d \in Client : HasLink(d) => link[d].epoch \in Epoch /\ link[d].seq \in Nat
  BY DEF HasLink, Link
<1>4. ASSUME NEW d \in Client
      PROVE  Exchange(d)' /\ Answered(d)'
  <2>1. Exchange(d) /\ Answered(d) /\ (Sending(d) => HasLink(d))
    BY <1>1 DEF Exchanges, ClientTypes
  <2>2. Exchange(d)'
    BY <1>2, <2>1 DEF Exchange, Sending, Sent
  <2>3. CASE waiting[d] = req
    <3>1. HasLink(d) /\ link[d].epoch = req.epoch
      BY <2>3, WaitingFor
    <3>2. epochs[req.epoch].expected = link[d].seq
      BY <1>1, <3>1, CountedIsLevel
    <3> QED
      BY <1>2, <2>2, <2>3, <3>1, <3>2 DEF Answered
  <2>4. CASE waiting[d] # req /\ Sending(d)
    <3>1. reply'[d] = reply[d] /\ HasLink(d) /\ link[d].epoch \in Epoch
      BY <1>2, <1>3, <2>1, <2>4
    <3>2. CASE link[d].epoch = req.epoch
      <4>1. reply[d] # None => reply[d].code # 200
        BY <1>1, <2>4, <3>1, <3>2, CountedIsLevel
      <4> QED
        BY <1>2, <2>1, <2>2, <3>1, <4>1 DEF Answered, Sending
    <3>3. CASE link[d].epoch # req.epoch
      BY <1>2, <2>1, <2>2, <3>1, <3>3 DEF Answered, Sending
    <3> QED
      BY <3>2, <3>3
  <2>5. CASE ~Sending(d)
    BY <1>2, <2>2, <2>5 DEF Answered, Sending
  <2> QED
    BY <2>2, <2>3, <2>4, <2>5
<1>5. ASSUME NEW d \in Client, HasLink(d), epochs'[link[d].epoch].live
      PROVE  epochs'[link[d].epoch].expected \in {link[d].seq, link[d].seq + 1}
  <2>1. CASE link[d].epoch = req.epoch
    BY <1>1, <1>2, <1>5, <2>1, CountedIsLevel
  <2>2. CASE link[d].epoch # req.epoch
    BY <1>1, <1>2, <1>3, <1>5, <2>2 DEF EpochsInUse
  <2> QED
    BY <2>1, <2>2
<1>6. ASSUME NEW r \in requests, epochs'[r.epoch].live
      PROVE  r.seq <= epochs'[r.epoch].expected
  <2>1. r.epoch \in Epoch /\ r.seq \in Nat
    BY <1>1, RequestParts DEF ClientTypes
  <2>2. CASE r.epoch = req.epoch
    <3>1. r.seq <= epochs[req.epoch].expected
      BY <1>1, <2>2 DEF EpochsInUse, IsNext
    <3> QED
      BY <1>2, <2>1, <2>2, <3>1
  <2>3. CASE r.epoch # req.epoch
    BY <1>1, <1>2, <1>6, <2>1, <2>3 DEF EpochsInUse
  <2> QED
    BY <2>2, <2>3
<1>7. \A e \in Epoch : epochs'[e].expected > 0 => epochs'[e].answer \in Response
  BY <1>1, <1>2 DEF EpochsInUse
<1>8. EpochsInUse'
  <2>1. \A d \in Client, r \in requests : HasLink(d) => Level(d, r)'
    BY <1>1, <1>2 DEF EpochsInUse, Level, Sending, Sent
  <2>2. \A d, f \in Client :
          HasLink(d)' /\ HasLink(f)' /\ link'[d].epoch = link'[f].epoch => d = f
    BY <1>1, <1>2 DEF EpochsInUse, HasLink
  <2>3. \A d \in Client : HasLink(d)' =>
          /\ epochs'[link'[d].epoch].live =>
               epochs'[link'[d].epoch].expected \in {link'[d].seq, link'[d].seq + 1}
          /\ \A r \in requests' : Level(d, r)'
    BY <1>2, <1>5, <2>1 DEF HasLink
  <2>4. \A r \in requests' : epochs'[r.epoch].live => r.seq <= epochs'[r.epoch].expected
    BY <1>2, <1>6
  <2> QED
    BY <1>7, <2>2, <2>3, <2>4 DEF EpochsInUse
<1> QED
  BY <1>4, <1>8 DEF Exchanges

\* A stream that a client owns stays its own, and what an open is answered with is the
\* opener's.
LEMMA GrowsStreams ==
  ASSUME SyncInv, Inv', NEW body \in Message, OwnedRequest(body), Grows(body),
         UNCHANGED <<pc, start, suffix>>
  PROVE  /\ KeysOK(sessions)' /\ (savedSessions' # None => KeysOK(savedSessions)') /\ SameKeys'
         /\ \A i \in Nat : \A d : IsStreamOf(i, d) => IsStreamOf(i, d)'
         /\ \A m \in Response :
              body.kind = "open" /\ OpenAnswer(body, m) => IsStreamOf(m.stream, body.from)'
<1>1. /\ issued \in Nat /\ DOMAIN sessions \subseteq 1..issued
      /\ savedSessions # None => DOMAIN savedSessions \subseteq 1..issued
      /\ KeysOK(sessions) /\ (savedSessions # None => KeysOK(savedSessions)) /\ SameKeys
  BY DEF SyncInv, Inv, TypeOK, SessionsTypeOK, IsSessionMap, Owners
<1>2. body.kind = "open" => IsKeyOf(body.from, body.key, body.source) /\ body.key[1] = body.from
  BY DEF OwnedRequest, IsKeyOf
<1>3. /\ issued <= issued' /\ savedSessions' \in {savedSessions, sessions', None}
      /\ \A i \in DOMAIN sessions :
           /\ i \in DOMAIN sessions'
           /\ sessions'[i].key = sessions[i].key /\ sessions'[i].source = sessions[i].source
      /\ \A i \in DOMAIN sessions' : i \in DOMAIN sessions \/
           /\ i = issued + 1 /\ body.kind = "open"
           /\ sessions'[i].key = body.key /\ sessions'[i].source = body.source
  BY DEF Grows
<1>4. \A d, key, source : IsKeyOf(d, key, source) => IsKeyOf(d, key, source)'
  BY DEF IsKeyOf
<1>5. \A i \in DOMAIN sessions' : IsKeyOf(sessions'[i].key[1], sessions'[i].key, sessions'[i].source)
  BY <1>1, <1>2, <1>3 DEF KeysOK
<1>6. KeysOK(sessions)'
  BY <1>5 DEF KeysOK, IsKeyOf
<1>7. savedSessions' # None => KeysOK(savedSessions)'
  <2>1. CASE savedSessions' = savedSessions
    BY <1>1, <2>1 DEF KeysOK, IsKeyOf
  <2>2. CASE savedSessions' = sessions'
    BY <1>6, <2>2 DEF KeysOK, IsKeyOf
  <2> QED
    BY <1>3, <2>1, <2>2
<1>8. SameKeys'
  <2>1. CASE savedSessions' = savedSessions
    BY <1>1, <1>3, <2>1 DEF SameKeys
  <2>2. CASE savedSessions' = sessions'
    BY <2>2 DEF SameKeys
  <2>3. CASE savedSessions' = None
    BY <2>3 DEF SameKeys
  <2> QED
    BY <1>3, <2>1, <2>2, <2>3
<1>9. issued' \in Nat
  BY DEF Inv, TypeOK, SessionsTypeOK
<1>10. ASSUME NEW i \in Nat, NEW d, IsStreamOf(i, d)
       PROVE  IsStreamOf(i, d)'
  <2>1. i <= issued /\ i # issued + 1
    <3>1. i <= issued
      BY <1>10 DEF IsStreamOf
    <3> QED
      BY <1>1, <3>1
  <2>2. i <= issued'
    BY <1>1, <1>3, <1>9, <2>1
  <2>3. i \in DOMAIN sessions' => sessions'[i].key[1] = d
    BY <1>3, <1>10, <2>1 DEF IsStreamOf
  <2>4. savedSessions' # None /\ i \in DOMAIN savedSessions' => savedSessions'[i].key[1] = d
    BY <1>3, <1>10, <2>3 DEF IsStreamOf
  <2> QED
    BY <2>2, <2>3, <2>4 DEF IsStreamOf
<1>11. ASSUME NEW m \in Response, body.kind = "open", OpenAnswer(body, m)
       PROVE  IsStreamOf(m.stream, body.from)'
  <2>1. CASE m.stream = 0
    BY <1>10, <2>1, NoStream, 0 \in Nat
  <2>2. CASE m.stream \in DOMAIN sessions /\ sessions[m.stream].key = body.key
    <3>1. m.stream <= issued
      BY <1>1, <2>2
    <3>2. IsStreamOf(m.stream, body.from)
      BY <1>1, <1>2, <1>11, <2>2, <3>1 DEF IsStreamOf, SameKeys
    <3> QED
      BY <1>10, <3>2 DEF Response
  <2>3. CASE m.stream = issued + 1 /\ issued' = issued + 1
    <3>1. m.stream \notin DOMAIN sessions
      BY <1>1, <2>3
    <3>2. savedSessions # None => m.stream \notin DOMAIN savedSessions
      BY <1>1, <2>3
    <3>3. m.stream \in DOMAIN sessions' => sessions'[m.stream].key[1] = body.from
      BY <1>2, <1>3, <1>11, <3>1
    <3>4. savedSessions' # None /\ m.stream \in DOMAIN savedSessions' =>
            savedSessions'[m.stream].key[1] = body.from
      BY <1>3, <3>2, <3>3
    <3>5. m.stream <= issued'
      BY <1>9, <2>3
    <3> QED
      BY <3>3, <3>4, <3>5 DEF IsStreamOf
  <2> QED
    BY <1>11, <2>1, <2>2, <2>3 DEF OpenAnswer
<1> QED
  BY <1>6, <1>7, <1>8, <1>10, <1>11

\* Owners keep what they have, and the opener owns what it is answered.
LEMMA CountsOwners ==
  ASSUME SyncInv, Inv', NEW req \in requests, NEW m \in Response, Takes(req), Counts(req, m)
  PROVE  Owners'
<1>1. ClientTypes /\ Exchanges /\ Owners /\ OwnedRequest(req.body)
  BY DEF SyncInv, Owners
<1>2. /\ req \in Request /\ req.epoch \in Epoch /\ requests' \subseteq requests
      /\ UNCHANGED <<pc, start, suffix, link, want, seen, waiting>>
      /\ epochs'[req.epoch].answer = m /\ epochs'[req.epoch].last.body = req.body
      /\ \A e \in Epoch : e # req.epoch => epochs'[e] = epochs[e]
      /\ \A d \in Client :
           IF waiting[d] = req THEN reply'[d].code = 200 /\ reply'[d].message = m
           ELSE reply'[d] = reply[d]
  BY CountedEpochs
<1>3. req.body \in Message /\ Grows(req.body)
      /\ (req.body.kind = "open" => OpenAnswer(req.body, m))
  BY <1>2, RequestParts DEF Counts
<1>4. /\ KeysOK(sessions)' /\ (savedSessions' # None => KeysOK(savedSessions)') /\ SameKeys'
      /\ \A i \in Nat : \A d : IsStreamOf(i, d) => IsStreamOf(i, d)'
      /\ req.body.kind = "open" => IsStreamOf(m.stream, req.body.from)'
  BY <1>1, <1>2, <1>3, GrowsStreams
<1>5. ASSUME NEW r \in requests
      PROVE  OwnedRequest(r.body)'
  <2>1. r.body \in Message /\ OwnedRequest(r.body)
    BY <1>1, RequestParts DEF ClientTypes, Owners
  <2>2. r.body.kind \in {"pcm", "close", "mark"} => r.body.stream \in Nat
    BY <2>1, MessageParts
  <2> QED
    BY <1>2, <1>4, <2>1, <2>2 DEF OwnedRequest, IsKeyOf
<1>6. ASSUME NEW d \in Client, HasLink(d)
      PROVE  IsStreamOf(link[d].stream, d)'
  BY <1>1, <1>2, <1>4, <1>6 DEF Owners, HasLink, Link
<1>7. ASSUME NEW d \in Client, Sending(d), Sent(d).kind = "open", reply'[d] # None,
             reply'[d].code = 200, NEW i, i = reply'[d].message.stream
      PROVE  IsStreamOf(i, d)'
  <2>1. CASE waiting[d] = req
    <3>1. Sent(d) = req.body /\ req.body.from = d
      BY <2>1, WaitingFor
    <3> QED
      BY <1>2, <1>4, <1>7, <2>1, <3>1
  <2>2. CASE waiting[d] # req
    <3>1. reply'[d] = reply[d] /\ Answered(d)
      BY <1>1, <1>2, <2>2 DEF Exchanges
    <3>2. i \in Nat
      BY <1>7, <3>1 DEF Answered, Response
    <3> QED
      BY <1>1, <1>4, <1>7, <3>1, <3>2 DEF Owners
  <2> QED
    BY <2>1, <2>2
<1>8. ASSUME NEW e \in Epoch, epochs'[e].expected > 0, epochs'[e].last.body.kind = "open",
             NEW i, i = epochs'[e].answer.stream, NEW d, d = epochs'[e].last.body.from
      PROVE  IsStreamOf(i, d)'
  <2>1. CASE e = req.epoch
    BY <1>2, <1>4, <1>8, <2>1
  <2>2. CASE e # req.epoch
    <3>1. epochs'[e] = epochs[e]
      BY <1>2, <2>2
    <3>2. i \in Nat
      BY <1>1, <1>8, <3>1 DEF Exchanges, EpochsInUse, Response
    <3> QED
      BY <1>1, <1>4, <1>8, <3>1, <3>2 DEF Owners
  <2> QED
    BY <2>1, <2>2
<1> QED
  <2>1. \A d \in Client : HasLink(d)' => IsStreamOf(link[d].stream, d)'
    BY <1>2, <1>6 DEF HasLink
  <2>2. \A r \in requests' : OwnedRequest(r.body)'
    BY <1>2, <1>5
  <2> QED
    BY <1>2, <1>4, <1>7, <1>8, <2>1, <2>2 DEF Owners, Sending, Sent, IsStreamOf

\* What is appended lies where its stream stands, and so after its owner's start.
LEMMA SamplesAppended ==
  ASSUME SyncInv, NEW body \in Message, OwnedRequest(body), Carries(body, cache'),
         UNCHANGED <<pc, start>>
  PROVE  SamplesAreNew'
<1>1. SamplesAreNew /\ ClientTypes /\ CacheTypeOK /\ Owners
      /\ \A i \in DOMAIN sessions : sessions[i] \in Session
  BY DEF SyncInv, Inv, TypeOK, SessionsTypeOK, IsSessionMap
<1> DEFINE s == sessions[body.stream]
<1>2. body.kind = "pcm" /\ body.from \in Client /\ body.start \in Nat /\ body.stream \in Nat
  BY MessageParts DEF Carries
<1>3. body.stream \in DOMAIN sessions /\ body.start = ExpectedSample(s)
  BY DEF Carries, PcmError, InPlace
<1>4. s \in Session /\ s.key[1] = body.from /\ IsKeyOf(s.key[1], s.key, s.source)
  BY <1>1, <1>2, <1>3 DEF OwnedRequest, IsStreamOf, Owners, KeysOK
<1>5. s.source \in Nat /\ start[body.from] \in Nat /\ s.source >= start[body.from]
      /\ pc[body.from] # "off"
  BY <1>1, <1>2, <1>4 DEF IsKeyOf, Session, ClientTypes
<1>6. body.start >= s.source
  <2>1. counted \in Nat /\ s.start \in Nat
    BY <1>1, <1>4, PositionTypes DEF Session
  <2>2. SaturatingSub(counted, s.start) \in Nat
    BY <2>1, SaturatingSubType
  <2> QED
    BY <1>3, <1>5, <2>2 DEF ExpectedSample, Position
<1>7. PartOf(body, cache')
  BY DEF Carries
<1>8. Len(cache) \in Nat
  BY <1>1, LenProperties DEF CacheTypeOK
<1>9. ASSUME NEW k \in 1..Len(cache')
      PROVE  pc[cache'[k][1]] # "off" /\ cache'[k][2] >= start[cache'[k][1]]
  <2>1. CASE k \in 1..Len(cache) /\ cache'[k] = cache[k]
    BY <1>1, <2>1 DEF SamplesAreNew
  <2>2. CASE k > Len(cache) /\ cache'[k] = <<body.from, body.start + (k - Len(cache)) - 1>>
    <3>1. body.start + (k - Len(cache)) - 1 >= start[body.from]
      BY <1>2, <1>5, <1>6, <1>8, <1>9, <2>2
    <3> QED
      BY <1>5, <2>2, <3>1
  <2> QED
    BY <1>7, <2>1, <2>2 DEF PartOf
<1> QED
  BY <1>9 DEF SamplesAreNew

LEMMA CountsSamples ==
  ASSUME SyncInv, NEW body \in Message, OwnedRequest(body), Grows(body),
         UNCHANGED <<pc, start>>
  PROVE  SamplesAreNew'
<1>1. CASE cache' = cache
  BY <1>1 DEF SyncInv, SamplesAreNew
<1> QED
  BY <1>1, SamplesAppended DEF Grows

\* A new logical stream stays new until its own open makes it, and is then answered with
\* its beginning.
LEMMA CountsFresh ==
  ASSUME SyncInv, NEW req \in requests, NEW m \in Response, Takes(req), Counts(req, m)
  PROVE  AllFresh'
<1>1. ClientTypes /\ Exchanges /\ AllFresh /\ IsNext(req)
  BY DEF SyncInv, Exchanges, Counts
<1>2. /\ requests' \subseteq requests /\ req.epoch \in Epoch
      /\ UNCHANGED <<pc, start, suffix, link, want, seen, waiting>>
      /\ epochs[req.epoch].expected \in Nat
      /\ epochs'[req.epoch].answer = m
      /\ epochs'[req.epoch].expected = epochs[req.epoch].expected + 1
      /\ \A e \in Epoch : e # req.epoch => epochs'[e] = epochs[e]
      /\ \A d \in Client :
           IF waiting[d] = req THEN reply'[d].code = 200 /\ reply'[d].message = m
           ELSE reply'[d] = reply[d]
  BY CountedEpochs
<1>3. \A key : HasKey(sessions', key) =>
        HasKey(sessions, key) \/ (req.body.kind = "open" /\ req.body.key = key)
  BY DEF Counts, Grows, HasKey
<1>4. \A key : savedSessions' # None /\ HasKey(savedSessions', key) =>
        (savedSessions # None /\ HasKey(savedSessions, key)) \/ HasKey(sessions', key)
  BY DEF Counts, Grows
<1> SUFFICES ASSUME NEW d \in Client PROVE Fresh(d)'
  BY DEF AllFresh
<1>5. Fresh(d)
  BY <1>1 DEF AllFresh
<1> DEFINE key == <<d, suffix[d]>>
<1>6. ASSUME seen[d] # None, Sending(d), Sent(d).kind = "open", link[d].epoch = req.epoch
      PROVE  OffersStart(m, want[d])
  <2>1. HasLink(d) /\ link[d].seq = 0
    BY <1>1, <1>5, <1>6 DEF Fresh, ClientTypes
  <2>2. epochs[req.epoch].expected = 0 /\ req.body = Sent(d) /\ epochs[req.epoch].live
    BY <1>1, <1>6, <2>1, CountedIsLevel DEF IsNext
  <2>3. req.body.kind = "open" /\ req.body.key = key /\ req.body.source = want[d]
    BY <1>1, <1>6, <2>2 DEF Exchanges, Exchange
  <2>4. ~HasKey(sessions, key)
    BY <1>5, <1>6, <2>2 DEF Fresh
  <2> QED
    BY <2>3, <2>4 DEF Counts, OpenAnswer, HasKey, OffersStart
<1>7. ASSUME seen[d] # None, pc[d] = "challenge"
      PROVE  /\ ~HasKey(sessions', key)
             /\ savedSessions' # None => ~HasKey(savedSessions', key)
             /\ \A r \in requests' : r.body.kind = "open" => r.body.key # key
  BY <1>2, <1>3, <1>4, <1>5, <1>7 DEF Fresh
<1>8. ASSUME seen[d] # None, Sending(d), Sent(d).kind = "open"
      PROVE  LET e == epochs'[link[d].epoch] IN
             /\ e.live /\ e.expected = 0 => ~HasKey(sessions', key)
             /\ e.live /\ e.expected > 0 => OffersStart(e.answer, want[d])
             /\ reply'[d] # None /\ reply'[d].code = 200 => OffersStart(reply'[d].message, want[d])
  <2>1. HasLink(d) /\ link[d].epoch \in Epoch
    BY <1>1, <1>8 DEF ClientTypes, HasLink, Link
  <2>2. CASE link[d].epoch = req.epoch
    <3>1. reply'[d] # None /\ reply'[d].code = 200 => OffersStart(reply'[d].message, want[d])
      BY <1>2, <1>5, <1>6, <1>8, <2>2 DEF Fresh
    <3> QED
      BY <1>2, <1>6, <1>8, <2>2, <3>1
  <2>3. CASE link[d].epoch # req.epoch
    <3>1. waiting[d] # req
      BY <2>3, WaitingFor
    <3>2. epochs'[link[d].epoch] = epochs[link[d].epoch] /\ reply'[d] = reply[d]
      BY <1>2, <2>1, <2>3, <3>1
    <3>3. ~(req.body.kind = "open" /\ req.body.key = key)
      BY <1>5, <1>8, <2>3 DEF Fresh
    <3> QED
      BY <1>3, <1>5, <1>8, <3>2, <3>3 DEF Fresh
  <2> QED
    BY <2>2, <2>3
<1> HIDE DEF key
<1> QED
  BY <1>2, <1>5, <1>7, <1>8 DEF Fresh, Sending, Sent, key

\* A message that is counted keeps the invariant's parts.
LEMMA CountsKeeps ==
  ASSUME SyncInv, Inv', NEW req \in requests, NEW m \in Response, Takes(req), Counts(req, m)
  PROVE  Exchanges' /\ Owners' /\ SamplesAreNew' /\ AllFresh'
<1>1. req.body \in Message /\ OwnedRequest(req.body)
  BY RequestParts DEF SyncInv, ClientTypes, Owners
<1>2. SamplesAreNew'
  BY <1>1, CountsSamples DEF Counts, Takes
<1> QED
  BY <1>2, CountsExchanges, CountsOwners, CountsFresh

-----------------------------------------------------------------------------
(* Crashes, restarts and time *)

\* A restarted server knows no epoch, and the streams of its file or none.
LEMMA ReloadKeeps ==
  ASSUME SyncInv, UNCHANGED <<clientVars, recorderVars>>, requests' \subseteq requests,
         NEW files, NEW log, files.sessions \in {savedSessions, None}, Reload(files, log)
  PROVE  Exchanges' /\ Owners' /\ AllFresh'
<1>1. ClientTypes /\ Exchanges /\ EpochsInUse /\ Owners /\ AllFresh
  BY DEF SyncInv, Exchanges
<1>2. \A e \in Epoch : ~epochs'[e].live /\ epochs'[e].expected = 0
  BY DEF Reload, IdleEpoch
<1>3. /\ savedSessions' \in {savedSessions, None}
      /\ DOMAIN sessions' = {} \/ (savedSessions' # None /\ sessions' = savedSessions')
  BY DEF Reload, NoSessions
<1>4. UNCHANGED <<issued, waiting, reply, pc, start, suffix, link, want, seen>>
  BY DEF Reload
<1>5. \A d \in Client : HasLink(d) => link[d].epoch \in Epoch
  BY DEF HasLink, Link
<1>6. ASSUME NEW d \in Client
      PROVE  Exchange(d)' /\ Answered(d)'
  <2>1. Exchange(d) /\ Answered(d) /\ (Sending(d) => HasLink(d))
    BY <1>1 DEF Exchanges, ClientTypes
  <2>2. Exchange(d)'
    BY <1>4, <2>1 DEF Exchange, Sending, Sent
  <2>3. Answered(d)'
    BY <1>2, <1>4, <1>5, <2>1 DEF Answered, Sending
  <2> QED
    BY <2>2, <2>3
<1>7. EpochsInUse'
  <2>1. \A d \in Client, r \in requests : HasLink(d) => Level(d, r)'
    BY <1>1, <1>4 DEF EpochsInUse, Level, Sending, Sent
  <2>2. \A r \in requests' : r.epoch \in Epoch
    BY <1>1, RequestParts DEF ClientTypes
  <2>3. \A d \in Client : HasLink(d)' => link'[d].epoch \in Epoch
    BY <1>4, <1>5 DEF HasLink
  <2>4. \A d \in Client : HasLink(d)' => \A r \in requests' : Level(d, r)'
    BY <1>4, <2>1 DEF HasLink
  <2>5. \A d, f \in Client :
          HasLink(d)' /\ HasLink(f)' /\ link'[d].epoch = link'[f].epoch => d = f
    BY <1>1, <1>4 DEF EpochsInUse, HasLink
  <2> QED
    BY <1>2, <2>2, <2>3, <2>4, <2>5 DEF EpochsInUse
<1>8. /\ KeysOK(sessions)' /\ (savedSessions' # None => KeysOK(savedSessions)') /\ SameKeys'
      /\ \A i, d : IsStreamOf(i, d) => IsStreamOf(i, d)'
  <2>1. KeysOK(sessions)' /\ (savedSessions' # None => KeysOK(savedSessions)')
    BY <1>1, <1>3, <1>4 DEF Owners, KeysOK, IsKeyOf
  <2>2. SameKeys'
    BY <1>3 DEF SameKeys
  <2>3. \A i, d : IsStreamOf(i, d) => IsStreamOf(i, d)'
    BY <1>3, <1>4 DEF IsStreamOf
  <2> QED
    BY <2>1, <2>2, <2>3
<1>9. \A r \in requests' : OwnedRequest(r.body)'
  BY <1>1, <1>4, <1>8 DEF Owners, OwnedRequest, IsKeyOf
<1>10. Owners'
  <2>1. \A d \in Client : HasLink(d)' => IsStreamOf(link[d].stream, d)'
    BY <1>1, <1>4, <1>8 DEF Owners, HasLink
  <2>2. \A d \in Client :
          Sending(d) /\ Sent(d).kind = "open" /\ reply[d] # None /\ reply[d].code = 200 =>
            IsStreamOf(reply[d].message.stream, d)'
    BY <1>1, <1>4, <1>8 DEF Owners
  <2>3. \A e \in Epoch : ~(epochs'[e].expected > 0)
    BY <1>2
  <2> QED
    BY <1>4, <1>8, <1>9, <2>1, <2>2, <2>3 DEF Owners, Sending, Sent
<1>11. AllFresh'
  <2>1. \A key : HasKey(sessions', key) => savedSessions' # None /\ HasKey(savedSessions', key)
    BY <1>3 DEF HasKey
  <2>2. \A key : savedSessions' # None /\ HasKey(savedSessions', key) =>
          savedSessions # None /\ HasKey(savedSessions, key)
    BY <1>3
  <2> SUFFICES ASSUME NEW d \in Client PROVE Fresh(d)'
    BY DEF AllFresh
  <2>3. Fresh(d) /\ (Sending(d) => HasLink(d))
    BY <1>1 DEF AllFresh, ClientTypes
  <2>4. CASE Sending(d)
    <3>1. ~epochs'[link'[d].epoch].live
      BY <1>2, <1>4, <1>5, <2>3, <2>4
    <3> QED
      BY <1>4, <2>3, <2>4, <3>1 DEF Fresh, Sending, Sent
  <2>5. CASE ~Sending(d)
    BY <1>4, <2>1, <2>2, <2>3, <2>5 DEF Fresh, Sending
  <2> QED
    BY <2>4, <2>5
<1> QED
  BY <1>6, <1>7, <1>10, <1>11 DEF Exchanges

\* An epoch that has expired answers nothing any more.
LEMMA ExpireKeeps ==
  ASSUME SyncInv, NEW e \in Epoch, Expire(e)
  PROVE  Exchanges' /\ Owners' /\ SamplesAreNew' /\ AllFresh'
<1>1. ClientTypes /\ Exchanges /\ EpochsInUse /\ Owners /\ AllFresh /\ SamplesAreNew
      /\ epochs \in [Epoch -> EpochState]
  BY DEF SyncInv, Exchanges, Inv, TypeOK, ExchangesTypeOK
<1>2. UNCHANGED <<streamVars, waiting, reply, requests, pc, start, suffix, link, want, seen>>
  BY DEF Expire, ExpireEpoch
<1>3. \A f \in Epoch :
        /\ epochs'[f].live => epochs[f].live
        /\ epochs'[f].expected = epochs[f].expected /\ epochs'[f].last = epochs[f].last
        /\ epochs'[f].answer = epochs[f].answer
  BY <1>1 DEF Expire, ExpireEpoch, EpochState
<1>4. \A d \in Client : HasLink(d) => link[d].epoch \in Epoch
  BY DEF HasLink, Link
<1>5. \A d \in Client : Sending(d) => HasLink(d)
  BY <1>1 DEF ClientTypes
<1>6. \A d \in Client : Exchange(d)' /\ Answered(d)'
  BY <1>1, <1>2, <1>3, <1>4, <1>5 DEF Exchanges, Exchange, Answered, Sending, Sent
<1>7. EpochsInUse'
  <2>1. \A r \in requests : r.epoch \in Epoch
    BY <1>1, RequestParts DEF ClientTypes
  <2>2. \A d \in Client, r \in requests : HasLink(d) => Level(d, r)'
    BY <1>1, <1>2 DEF EpochsInUse, Level, Sending, Sent
  <2>3. \A d \in Client : HasLink(d)' =>
          /\ epochs'[link'[d].epoch].live =>
               epochs'[link'[d].epoch].expected \in {link'[d].seq, link'[d].seq + 1}
          /\ \A r \in requests' : Level(d, r)'
    BY <1>1, <1>2, <1>3, <1>4, <2>2 DEF EpochsInUse, HasLink
  <2>4. \A d, f \in Client :
          HasLink(d)' /\ HasLink(f)' /\ link'[d].epoch = link'[f].epoch => d = f
    BY <1>1, <1>2 DEF EpochsInUse, HasLink
  <2> QED
    BY <1>1, <1>2, <1>3, <2>1, <2>3, <2>4 DEF EpochsInUse
<1>8. Owners'
  <2>1. /\ KeysOK(sessions)' /\ (savedSessions' # None => KeysOK(savedSessions)') /\ SameKeys'
        /\ \A i, d : IsStreamOf(i, d)' <=> IsStreamOf(i, d)
        /\ \A r \in requests : OwnedRequest(r.body)'
    BY <1>1, <1>2 DEF Owners, KeysOK, SameKeys, OwnedRequest, IsKeyOf, IsStreamOf
  <2>2. \A d \in Client :
          /\ HasLink(d)' => IsStreamOf(link'[d].stream, d)
          /\ Sending(d)' /\ Sent(d)'.kind = "open" /\ reply'[d] # None /\ reply'[d].code = 200 =>
               IsStreamOf(reply'[d].message.stream, d)
    BY <1>1, <1>2 DEF Owners, HasLink, Sending, Sent
  <2>3. \A f \in Epoch :
          epochs'[f].expected > 0 /\ epochs'[f].last.body.kind = "open" =>
            IsStreamOf(epochs'[f].answer.stream, epochs'[f].last.body.from)
    BY <1>1, <1>3 DEF Owners
  <2>4. \A r \in requests' : OwnedRequest(r.body)'
    BY <1>2, <2>1
  <2> QED
    BY <2>1, <2>2, <2>3, <2>4 DEF Owners
<1>9. AllFresh'
  BY <1>1, <1>2, <1>3, <1>4, <1>5 DEF AllFresh, Fresh, HasKey, Sending, Sent
<1>10. SamplesAreNew'
  BY <1>1, <1>2 DEF SamplesAreNew
<1> QED
  BY <1>6, <1>7, <1>8, <1>9, <1>10 DEF Exchanges

\* What a crash while appending left on disk is what its client had sent.
LEMMA CrashInPushKeeps ==
  ASSUME SyncInv, NEW req \in requests, Takes(req), CrashInPush(req)
  PROVE  Exchanges' /\ Owners' /\ SamplesAreNew' /\ AllFresh'
<1> DEFINE body == req.body
<1>1. /\ req \in Request /\ body \in Message /\ body.kind = "pcm" /\ body.from \in Client
      /\ body.start \in Nat /\ body.count \in Nat /\ Inv /\ OwnedRequest(body)
  BY RequestParts, MessageParts DEF SyncInv, ClientTypes, CrashInPush, Owners
<1>2. CacheTypeOK /\ Len(cache) \in Nat /\ Len(cache) - unflushed \in Nat
  BY <1>1, LenProperties DEF Inv, TypeOK, CacheTypeOK
<1>3. PICK length \in (Len(cache) - unflushed)..(Len(cache) + body.count) :
        Reload(Files, SubSeq(cache \o Chunk(body, body.count), 1, length))
  BY DEF CrashInPush
<1>4. length \in Nat /\ length <= Len(cache) + body.count /\ Files.sessions \in {savedSessions, None}
  BY <1>1, <1>2, FilesType
<1>5. Exchanges' /\ Owners' /\ AllFresh'
  BY <1>3, <1>4, ReloadKeeps DEF Takes
<1>6. PcmError(body) = "" /\ InPlace(body) /\ UNCHANGED <<pc, start>>
  BY DEF CrashInPush, Takes
<1>7. cache' = SubSeq(cache \o Chunk(body, body.count), 1, length)
  BY <1>3 DEF Reload
<1> HIDE DEF body
<1>8. PartOf(body, cache')
  BY <1>1, <1>2, <1>4, <1>7, PrefixCarries
<1>9. SamplesAreNew'
  BY <1>1, <1>6, <1>8, SamplesAppended DEF Carries
<1> QED
  BY <1>5, <1>9

\* A restart that has only lost samples of the BufWriter has no others.
LEMMA LostKeeps ==
  ASSUME SyncInv, NEW lost \in 0..unflushed, cache' = Without(lost), UNCHANGED <<pc, start>>
  PROVE  SamplesAreNew'
<1>1. /\ cache \in Seq(Client \X Nat) /\ Len(cache) \in Nat /\ Len(cache) - lost \in Nat
      /\ Len(cache) - lost <= Len(cache)
  BY LenProperties DEF SyncInv, Inv, TypeOK, CacheTypeOK
<1>2. Len(cache') = Len(cache) - lost
  BY <1>1, PrefixType DEF Without
<1>3. ASSUME NEW k \in 1..Len(cache')
      PROVE  k \in 1..Len(cache) /\ cache'[k] = cache[k]
  <2>1. k \in 1..(Len(cache) - lost) /\ k \in 1..Len(cache)
    BY <1>1, <1>2
  <2> QED
    BY <1>1, <2>1, SubSeqProperties DEF Without
<1> QED
  BY <1>3 DEF SyncInv, SamplesAreNew

\* A crash that tears a file leaves of the cache what is in its files.
LEMMA CrashInPersistKeeps ==
  ASSUME SyncInv, NEW req \in requests, Takes(req), CrashInPersist(req)
  PROVE  Exchanges' /\ Owners' /\ SamplesAreNew' /\ AllFresh'
<1> DEFINE torn1 == [Files EXCEPT !.sessions = None,
                                  !.format = IF req.body.kind = "open"
                                             THEN req.body.format ELSE Files.format]
           torn2 == [Files EXCEPT !.format = None]
<1>a. torn1.sessions = None /\ torn2.sessions = savedSessions
  BY DEF Files
<1>b. PICK lost \in 0..(IF req.body.kind = "close" THEN 0 ELSE unflushed) :
        Reload(torn1, Without(lost)) \/ Reload(torn2, Without(lost))
  BY DEF CrashInPersist
<1>c. lost \in 0..unflushed
  BY DEF SyncInv, Inv, TypeOK, CacheTypeOK
<1> HIDE DEF torn1, torn2
<1>1. PICK files : files.sessions \in {savedSessions, None} /\ Reload(files, Without(lost))
  BY <1>a, <1>b
<1>2. Exchanges' /\ Owners' /\ AllFresh'
  BY <1>1, ReloadKeeps DEF Takes
<1>3. SamplesAreNew'
  BY <1>c, <1>1, LostKeeps DEF Reload, Takes
<1> QED
  BY <1>2, <1>3

\* So does a crash between two requests.
LEMMA RestartKeeps ==
  ASSUME SyncInv, Restart
  PROVE  Exchanges' /\ Owners' /\ SamplesAreNew' /\ AllFresh'
<1>1. PICK lost \in 0..unflushed : Reload(Files, Without(lost))
  BY DEF Restart, Crash
<1>2. Files.sessions \in {savedSessions, None}
  BY FilesType DEF SyncInv
<1>3. Exchanges' /\ Owners' /\ AllFresh'
  BY <1>1, <1>2, ReloadKeeps DEF Restart
<1>4. SamplesAreNew'
  BY <1>1, LostKeeps DEF Reload, Restart
<1> QED
  BY <1>3, <1>4

\* A step that the clients do not take keeps their types.
LEMMA OutsideTypes ==
  ASSUME SyncInv, UNCHANGED <<clientVars, recorderVars, waiting>>, requests' \subseteq requests
  PROVE  ClientTypes'
BY DEF SyncInv, ClientTypes, Sending, HasLink

\* A delivery is an answer, a message that is counted, or a crash.
LEMMA DeliverKeeps ==
  ASSUME SyncInv, NEW req \in requests, Deliver(req)
  PROVE  SyncInv'
<1>1. req \in Request /\ Inv
  BY DEF SyncInv, ClientTypes
<1>2. Takes(req)
  BY DEF Deliver, Takes, ProcessEnvelope, CrashInPush, CrashInPersist, Reload
<1>3. Inv'
  BY <1>1, EnvelopeStep, CrashInPushStep, CrashInPersistStep DEF Deliver
<1>4. ClientTypes'
  BY <1>2, OutsideTypes DEF Takes
<1>5. CASE ProcessEnvelope(req)
  BY <1>2, <1>3, <1>4, <1>5, EnvelopeEffect, EchoKeeps, CountsKeeps DEF SyncInv
<1>6. CASE CrashInPush(req)
  BY <1>2, <1>3, <1>4, <1>6, CrashInPushKeeps DEF SyncInv
<1>7. CASE CrashInPersist(req)
  BY <1>2, <1>3, <1>4, <1>7, CrashInPersistKeeps DEF SyncInv
<1> QED
  BY <1>5, <1>6, <1>7 DEF Deliver

-----------------------------------------------------------------------------
(* The invariant of the upload *)

Moves(c) == GoesOn(c) \/ HangsUp(c) \/ Sends(c)

\* What a thread does to the exchanges.
Wires(c) ==
  /\ UNCHANGED <<waiting, reply>> \/ Hang(c) \/ \E req : Transmit(c, req)
  /\ UNCHANGED epochs \/ \E e \in Epoch : epochs' = [epochs EXCEPT ![e] = FreshEpoch]
  /\ UNCHANGED faults \/ \E kind : Fault(kind)

\* A thread touches nothing of the server's but its epoch and its own exchange.
LEMMA MovesInv ==
  ASSUME SyncInv, NEW c \in Client, Moves(c), Wires(c)
  PROVE  Inv'
<1>1. Inv /\ ExchangesTypeOK
  BY DEF SyncInv, Inv, TypeOK
<1>2. waiting'[c] \in Request \cup {None} /\ UNCHANGED streamVars
  BY <1>1 DEF Moves, GoesOn, HangsUp, Sends, ExchangesTypeOK
<1>3. waiting' \in [Client -> Request \cup {None}]
  <2>1. CASE UNCHANGED <<waiting, reply>>
    BY <1>1, <2>1 DEF ExchangesTypeOK
  <2>2. CASE Hang(c)
    BY <1>1, <2>2 DEF ExchangesTypeOK, Hang
  <2>3. ASSUME NEW req, Transmit(c, req)
        PROVE  waiting' \in [Client -> Request \cup {None}]
    BY <1>1, <1>2, <2>3 DEF ExchangesTypeOK, Transmit
  <2> QED
    BY <2>1, <2>2, <2>3 DEF Wires
<1>4. reply' \in [Client -> [code : Nat, message : Response \cup {None}] \cup {None}]
  BY <1>1 DEF Wires, ExchangesTypeOK, Hang, Transmit
<1>5. epochs' \in [Epoch -> EpochState]
  BY <1>1, EpochTypes DEF Wires, ExchangesTypeOK
<1>6. faults' \in Nat
  BY <1>1, FaultType DEF Wires, ExchangesTypeOK
<1>7. ExchangesTypeOK'
  BY <1>3, <1>4, <1>5, <1>6 DEF ExchangesTypeOK
<1> QED
  BY <1>1, <1>2, <1>7, AnswerOnly

\* So every step of a thread keeps the whole invariant.
LEMMA MovesKeep ==
  ASSUME SyncInv, NEW c \in Client, ClientTypes', Moves(c), Wires(c)
  PROVE  SyncInv'
BY MovesInv, GoesOnKeeps, HangsUpKeeps, SendsKeeps DEF Moves, SyncInv

LEMMA ThreadKeeps ==
  ASSUME SyncInv, NEW c \in Client,
         Start(c) \/ ClientStep(c) \/ ChallengeFails(c) \/ ExchangeFails(c)
  PROVE  SyncInv'
<1>1. CASE Start(c)
  BY <1>1, StartStep, MovesKeep DEF Moves, Wires, Start
<1>2. CASE Exit(c)
  BY <1>2, ExitStep, MovesKeep DEF Moves, Wires, Exit, Send
<1>3. CASE Reconnect(c)
  BY <1>3, ReconnectStep, MovesKeep DEF Moves, Wires, Reconnect
<1>4. CASE Establish(c)
  <2>1. (CHOOSE e \in FreeEpochs : TRUE) \in Epoch
    BY <1>4 DEF Establish, FreeEpochs
  <2>2. Wires(c)
    BY <1>4, <2>1 DEF Wires, Establish, Send
  <2> QED
    BY <1>4, <2>2, EstablishStep, MovesKeep DEF Moves
<1>5. CASE Look(c)
  BY <1>5, LookStep, MovesKeep DEF Moves, Wires, Look, Send
<1>6. CASE SendChunk(c)
  BY <1>6, SendChunkStep, MovesKeep DEF Moves, Wires, SendChunk, Send
<1>7. CASE Receive(c)
  BY <1>7, ReceiveStep, MovesKeep DEF Moves, Wires, Receive
<1>8. CASE RefusedAttempt(c)
  BY <1>8, AttemptFailsStep, MovesKeep DEF Moves, Wires, RefusedAttempt, AttemptFails, MessageFails
<1>9. CASE ChallengeFails(c)
  BY <1>9, ChallengeFailsStep, MovesKeep DEF Moves, Wires, ChallengeFails
<1>10. CASE ExchangeFails(c)
  BY <1>10, AttemptFailsStep, MovesKeep DEF Moves, Wires, ExchangeFails, AttemptFails, MessageFails
<1> QED
  BY <1>1, <1>2, <1>3, <1>4, <1>5, <1>6, <1>7, <1>8, <1>9, <1>10 DEF ClientStep

\* What changes neither the exchanges nor the server keeps it.
LEMMA QuietKeeps ==
  ASSUME SyncInv, ClientTypes', requests' \subseteq requests,
         UNCHANGED <<serverVars, pc, start, suffix, link, want, seen>>
  PROVE  SyncInv'
<1>1. Inv'
  BY AnswerOnly DEF SyncInv, Inv, TypeOK, ExchangesTypeOK
<1> QED
  BY <1>1, StandsStill DEF SyncInv

LEMMA RecordTypes ==
  ASSUME SyncInv, Record
  PROVE  ClientTypes'
<1>1. ClientTypes /\ total \in Nat /\ retained \in 0..total
  BY DEF SyncInv, ClientTypes
<1>2. total' = total + 1 /\ total' \in Nat
  BY <1>1 DEF Record
<1>3. retained' \in 0..total'
  <2>1. SaturatingSub(total' - retained, LocalWindow) <= total' - retained
        /\ SaturatingSub(total' - retained, LocalWindow) \in Nat
    BY <1>1, <1>2, SyncConstants DEF SaturatingSub
  <2> QED
    BY <1>1, <1>2, <2>1 DEF Record
<1>4. \A c \in Client : start[c] <= total'
  BY <1>1, <1>2 DEF ClientTypes
<1> QED
  BY <1>1, <1>2, <1>3, <1>4 DEF Record, ClientTypes, Sending, HasLink

LEMMA SyncNextInv == SyncInv /\ [SyncNext]_vars => SyncInv'
<1> SUFFICES ASSUME SyncInv, [SyncNext]_vars PROVE SyncInv'
  OBVIOUS
<1>1. ASSUME NEW c \in Client,
             Start(c) \/ ClientStep(c) \/ ChallengeFails(c) \/ ExchangeFails(c)
      PROVE  SyncInv'
  BY <1>1, ThreadKeeps
<1>2. ASSUME NEW c \in Client, Stop(c)
      PROVE  SyncInv'
  <2>1. ClientTypes'
    BY <1>2, StopTypes
  <2> QED
    BY <1>2, <2>1, QuietKeeps DEF Stop
<1>3. ASSUME NEW req \in requests, Deliver(req)
      PROVE  SyncInv'
  BY <1>3, DeliverKeeps
<1>4. ASSUME NEW req \in requests, LoseRequest(req)
      PROVE  SyncInv'
  <2>1. ClientTypes'
    BY <1>4, OutsideTypes DEF LoseRequest
  <2> QED
    BY <1>4, <2>1, QuietKeeps DEF LoseRequest
<1>5. ASSUME NEW e \in Epoch, Expire(e)
      PROVE  SyncInv'
  <2>1. ClientTypes'
    BY <1>5, OutsideTypes DEF Expire, ExpireEpoch
  <2>2. Inv'
    BY <1>5, ChallengeStep DEF Expire, SyncInv
  <2> QED
    BY <1>5, <2>1, <2>2, ExpireKeeps DEF SyncInv
<1>6. CASE Record
  BY <1>6, RecordTypes, QuietKeeps DEF Record
<1>7. CASE Restart
  <2>1. ClientTypes'
    BY <1>7, OutsideTypes DEF Restart, Crash, Reload
  <2>2. Inv'
    BY <1>7, CrashStep DEF Restart, SyncInv
  <2> QED
    BY <1>7, <2>1, <2>2, RestartKeeps DEF SyncInv
<1>8. CASE UNCHANGED vars
  <2>1. ClientTypes'
    BY <1>8, OutsideTypes DEF vars
  <2> QED
    BY <1>8, <2>1, QuietKeeps DEF vars
<1> QED
  BY <1>1, <1>2, <1>3, <1>4, <1>5, <1>6, <1>7, <1>8 DEF SyncNext

LEMMA SyncInitInv == SyncInit => SyncInv
<1> SUFFICES ASSUME SyncInit PROVE SyncInv
  OBVIOUS
<1>1. Inv
  BY InitInv DEF SyncInit
<1>2. \A c \in Client : ~HasLink(c) /\ ~Sending(c)
  BY SyncConstants DEF SyncInit, HasLink, Sending
<1>3. ClientTypes
  BY <1>2 DEF SyncInit, Init, ClientTypes, Sending
<1>4. \A e \in Epoch : epochs[e].expected = 0
  BY DEF SyncInit, Init, IdleEpoch
<1>5. Exchanges
  BY <1>2, <1>4 DEF SyncInit, Exchanges, Exchange, Answered, EpochsInUse
<1>6. DOMAIN sessions = {}
  BY DEF SyncInit, Init, NoSessions
<1>7. Owners
  BY <1>2, <1>4, <1>6 DEF SyncInit, Init, Owners, KeysOK, SameKeys
<1>8. SamplesAreNew
  BY DEF SyncInit, Init, SamplesAreNew
<1>9. AllFresh
  BY DEF SyncInit, AllFresh, Fresh
<1> QED
  BY <1>1, <1>3, <1>5, <1>7, <1>8, <1>9 DEF SyncInv

\* The inductive invariant of the composition: the server's own invariant, the clients'
\* types, and how their sessions, keys, requests and epochs belong together, however the
\* messages, restarts and expiries of the code's two sides interleave.
THEOREM SyncInvariance == SyncSpec => []SyncInv
BY SyncInitInv, SyncNextInv, PTL DEF SyncSpec

\* Every variable of the clients, the recorder, the network and the server keeps its type,
\* and a thread waits for an answer exactly while it is in send_message.
THEOREM SyncTypesStay == SyncSpec => []SyncTypeOK
<1>1. SyncInv => SyncTypeOK
  BY DEF SyncInv, Inv, ClientTypes, SyncTypeOK
<1> QED
  BY <1>1, SyncInvariance, PTL

\* Whatever is lost, late, sent again, expired or forgotten in a crash, a session and its
\* epoch agree on the sequence number up to the message under way, and no envelope is
\* ahead of its epoch: the sequence-gap branch of process_envelope is never taken.
THEOREM SequencesStayInStep == SyncSpec => []SequencesInStep
<1>1. SyncInv => SequencesInStep
  BY DEF SyncInv, ClientTypes, Exchanges, EpochsInUse, HasLink, SequencesInStep
<1> QED
  BY <1>1, SyncInvariance, PTL

\* sync_available never computes a chunk from a position beyond the end it has read, also
\* where it goes on with old bounds after a gap, and the server's cache holds no sample
\* from before its upload was turned on.
THEOREM SendsStayNew == SyncSpec => []SendsWhatIsNew
<1>1. SyncInv => SendsWhatIsNew
  <2>1. SyncInv => ChunkIsNotEmpty
    BY DEF SyncInv, ClientTypes, ChunkIsNotEmpty
  <2>2. SyncInv => NoHistoryUploaded
    BY DEF SyncInv, SamplesAreNew, NoHistoryUploaded
  <2> QED
    BY <2>1, <2>2 DEF SendsWhatIsNew
<1> QED
  BY <1>1, SyncInvariance, PTL

\* The server keeps its single writer under the traffic of the real clients too.
THEOREM SyncSingleWriters == SyncSpec => []SingleWriters
<1>1. SyncInv => SingleWriters
  BY DEF SyncInv, Inv, SingleWriters
<1> QED
  BY <1>1, SyncInvariance, PTL

-----------------------------------------------------------------------------
(* Where every stream stands *)

(* The second invariant holds as long as the two JSON files are written and no *)
(* cache sample is renumbered.  Every stream that anything still in use names  *)
(* is there, and stands at or beyond the position that was named.  A stream is *)
(* completed by the last message of its client, which then sends no other.     *)

Complete(s) == s.closed /\ ~s.incomplete

\* A stream that has ended has done so within the log, and a complete one before the
\* next began.
EndsInOrder(m, log) ==
  \A i \in DOMAIN m :
    /\ m[i].closed <=> m[i].end # None
    /\ m[i].incomplete => m[i].closed
    /\ m[i].end # None => m[i].start <= m[i].end /\ m[i].end <= Len(log)
    /\ Complete(m[i]) => \A j \in DOMAIN m : i < j => m[i].end <= m[j].start

\* What a stream was given came from its client.
OwnSamples(m, log) ==
  \A i \in DOMAIN m : \A n \in Nat :
    InPart(m, log, i, n) => log[n][1] = m[i].key[1]

WholeInv == StreamsInv /\ EndsInOrder(sessions, cache) /\ OwnSamples(sessions, cache)

Reaches(i, position) == i \in DOMAIN sessions /\ position <= ResumeSample(sessions[i])

\* The client is at its last message, or through with it.
Ending(c) == pc[c] = "done" \/ IsClose(c)

LinkStands(c) ==
  HasLink(c) /\ link[c].stream # 0 =>
    /\ Reaches(link[c].stream, link[c].next)
    /\ pc[c] \in {"idle", "read", "sending"} => sessions[link[c].stream].key = <<c, suffix[c]>>

AnswerStands(body, m) ==
  /\ body.kind = "open" /\ m.status = "ok" /\ m.stream # 0 =>
       Reaches(m.stream, m.next) /\ sessions[m.stream].key = body.key
  /\ body.kind = "pcm" /\ body.stream # 0 => Reaches(body.stream, m.next)

RequestStands(body) ==
  /\ body.kind \in {"pcm", "close", "mark"} /\ body.stream # 0 => body.stream \in DOMAIN sessions
  /\ body.kind = "close" =>
       Ending(body.from) /\ (body.stream # 0 => Reaches(body.stream, body.final))
  /\ body.kind = "mark" /\ body.stream # 0 =>
       /\ ~Complete(sessions[body.stream])
       /\ \/ sessions[body.stream].key[2] < suffix[body.from]
          \/ Sending(body.from) /\ Sent(body.from) = body

\* No stream is both closed and marked.
NotBoth(r, s) ==
  r.body.kind = "close" /\ s.body.kind = "mark" /\ r.body.stream = s.body.stream =>
    r.body.stream = 0

\* Whoever completed a stream has no more to say.
CompletesAreLast ==
  \A i \in DOMAIN sessions : Complete(sessions[i]) => Ending(sessions[i].key[1])

RepliesStand ==
  \A c \in Client :
    Sending(c) /\ reply[c] # None /\ reply[c].code = 200 => AnswerStands(Sent(c), reply[c].message)

EpochsStand ==
  \A e \in Epoch : epochs[e].expected > 0 => AnswerStands(epochs[e].last.body, epochs[e].answer)

Stands ==
  /\ \A c \in Client : LinkStands(c) /\ (IsClose(c) => RequestStands(Sent(c)))
  /\ RepliesStand /\ EpochsStand
  /\ \A req \in requests : RequestStands(req.body)
  /\ \A r, s \in requests : NotBoth(r, s)
  /\ CompletesAreLast

UploadInv == SyncInv /\ WholeInv /\ Stands

(* What a step of the server does to the streams: they stay and rise, one is   *)
(* completed by its Close only, and a complete one stays as it is.             *)

Rises ==
  \A i \in DOMAIN sessions :
    /\ i \in DOMAIN sessions' /\ sessions'[i].key = sessions[i].key
    /\ ResumeSample(sessions[i])' \in Nat
    /\ ResumeSample(sessions[i])' >= ResumeSample(sessions[i])

Settles(body) ==
  \A i \in DOMAIN sessions' : Complete(sessions'[i]) =>
    i \in DOMAIN sessions /\ (Complete(sessions[i]) \/ (body.kind = "close" /\ body.stream = i))

CompletesStay ==
  \A i \in DOMAIN sessions : Complete(sessions[i]) => i \in DOMAIN sessions' /\ sessions'[i] = sessions[i]

StreamsStand(body) ==
  /\ Rises /\ Settles(body) /\ CompletesStay
  /\ EndsInOrder(sessions', cache') /\ OwnSamples(sessions', cache')

\* What the invariant says of the cache and its streams.
LEMMA WholeFacts ==
  ASSUME WholeInv, origin = 0
  PROVE  /\ Len(cache) \in Nat /\ counted = Len(cache) /\ cache \in Seq(Client \X Nat)
         /\ issued \in Nat /\ DOMAIN sessions \subseteq 1..issued
         /\ \A i \in DOMAIN sessions :
              /\ i \in Nat /\ sessions[i] \in Session
              /\ sessions[i].start \in Nat /\ sessions[i].start <= Len(cache)
              /\ sessions[i].source \in Nat
              /\ IsOpen(sessions[i]) <=> sessions[i].end = None
              /\ sessions[i].end # None => sessions[i].end \in Nat
<1>1. /\ cache \in Seq(Client \X Nat) /\ issued \in Nat /\ DOMAIN sessions \subseteq 1..issued
      /\ \A i \in DOMAIN sessions : sessions[i] \in Session
  BY DEF WholeInv, StreamsInv, Inv, TypeOK, CacheTypeOK, SessionsTypeOK, IsSessionMap
<1>2. Len(cache) \in Nat /\ counted = Len(cache)
  BY <1>1, LenProperties DEF WholeInv, StreamsInv, Saved, CountsAgree
<1>3. \A i \in DOMAIN sessions : IsOpen(sessions[i]) <=> sessions[i].end = None
  BY <1>1 DEF WholeInv, EndsInOrder, IsOpen, Session
<1>4. \A i \in DOMAIN sessions : sessions[i].start <= Len(cache)
  BY DEF WholeInv, StreamsInv, Ledger, InOrder
<1> QED
  BY <1>1, <1>2, <1>3, <1>4 DEF Session

\* The position moves with the end.
LEMMA PositionMoves ==
  ASSUME NEW s \in Session, NEW a \in Nat, NEW b \in Nat, a <= b
  PROVE  /\ Position(s, a) \in Nat /\ Position(s, a) <= Position(s, b)
         /\ s.start <= a /\ Position(s, b) <= Position(s, a) => a = b
         /\ s.start <= a => Position(s, a) = s.source + (a - s.start)
BY DEF Position, SaturatingSub, Session

\* A stream stands where its samples end, or where it was ended.
LEMMA WhereItStands ==
  ASSUME WholeInv, origin = 0, NEW i \in DOMAIN sessions
  PROVE  LET s == sessions[i] IN
         /\ s.end = None => ResumeSample(s) = Position(s, Len(cache))
         /\ s.end # None => ResumeSample(s) = Position(s, s.end)
         /\ ExpectedSample(s) = Position(s, Len(cache))
         /\ ResumeSample(s) \in Nat /\ ResumeSample(s) <= Position(s, Len(cache))
<1> DEFINE s == sessions[i]
<1>1. /\ s \in Session /\ Len(cache) \in Nat /\ counted = Len(cache)
      /\ s.end # None => s.end \in Nat /\ s.end <= Len(cache)
  BY WholeFacts DEF WholeInv, EndsInOrder
<1>2. /\ s.end = None => ResumeSample(s) = Position(s, Len(cache))
      /\ s.end # None => ResumeSample(s) = Position(s, s.end)
      /\ ExpectedSample(s) = Position(s, Len(cache))
  BY <1>1 DEF ResumeSample, ExpectedSample
<1> HIDE DEF s
<1>3. ResumeSample(s) \in Nat /\ ResumeSample(s) <= Position(s, Len(cache))
  BY <1>1, <1>2, PositionMoves
<1> QED
  BY <1>2, <1>3 DEF s

\* Where the streams are the same and the log no shorter, they rise and stay.
LEMMA SameStreamsRise ==
  ASSUME WholeInv, origin = 0, origin' = 0, CountsAgree', UNCHANGED sessions, NEW body,
         Len(cache') \in Nat, Len(cache) <= Len(cache')
  PROVE  Rises /\ Settles(body) /\ CompletesStay
<1>1. ASSUME NEW i \in DOMAIN sessions
      PROVE  /\ ResumeSample(sessions[i])' \in Nat
             /\ ResumeSample(sessions[i])' >= ResumeSample(sessions[i])
  <2> DEFINE s == sessions[i]
  <2>1. s \in Session /\ Len(cache) \in Nat
    BY WholeFacts
  <2>2. counted' = Len(cache')
    BY DEF CountsAgree
  <2>3. CASE s.end = None
    <3>1. ResumeSample(s) = Position(s, Len(cache))
      BY <2>3, WhereItStands
    <3>2. ResumeSample(s)' = Position(s, Len(cache'))
      BY <2>2, <2>3 DEF ResumeSample, Position, SaturatingSub
    <3> HIDE DEF s
    <3>3. Position(s, Len(cache)) <= Position(s, Len(cache'))
      BY <2>1, PositionMoves
    <3>4. Position(s, Len(cache)) \in Nat /\ Position(s, Len(cache')) \in Nat
      BY <2>1, PositionMoves
    <3> QED
      BY <3>1, <3>2, <3>3, <3>4 DEF s
  <2>4. CASE s.end # None
    <3>1. ResumeSample(s)' = ResumeSample(s)
      BY <2>4 DEF ResumeSample, Position, SaturatingSub
    <3>2. ResumeSample(s) \in Nat
      BY WhereItStands
    <3> QED
      BY <3>1, <3>2
  <2> QED
    BY <2>3, <2>4
<1> QED
  BY <1>1 DEF Rises, Settles, CompletesStay

\* The client whose chunk is appended owns the stream, and the log grows at its end.
LEMMA AppendedStands ==
  ASSUME WholeInv, origin = 0, NEW body \in Message, OwnedRequest(body), NEW n \in Nat,
         NEW log, Appends(body, n, log)
  PROVE  /\ EndsInOrder(sessions, log) /\ OwnSamples(sessions, log)
         /\ Len(log) \in Nat /\ Len(cache) <= Len(log)
<1> DEFINE stream == body.stream
<1>1. /\ Len(cache) \in Nat /\ CacheTypeOK
      /\ \A i \in DOMAIN sessions :
           /\ i \in Nat /\ sessions[i].start \in Nat /\ sessions[i].start <= Len(cache)
           /\ sessions[i].end # None => sessions[i].end \in Nat
  BY WholeFacts DEF WholeInv, StreamsInv, Inv, TypeOK
<1>2. body.kind = "pcm" /\ body.from \in Client /\ body.start \in Nat /\ stream \in Nat
  BY MessageParts DEF Appends
<1>3. stream \in DOMAIN sessions /\ IsOpen(sessions[stream])
  BY DEF Appends, PcmError
<1>4. sessions[stream].key[1] = body.from
  BY <1>2, <1>3 DEF OwnedRequest, IsStreamOf
<1>5. \A j \in DOMAIN sessions : ~(stream < j)
  BY <1>3 DEF WholeInv, StreamsInv, Ledger, InOrder
<1>6. /\ Len(log) = Len(cache) + n
      /\ \A k \in 1..Len(cache) : log[k] = cache[k]
      /\ \A k \in 1..Len(log) :
           k > Len(cache) => log[k] = <<body.from, body.start + (k - Len(cache)) - 1>>
  BY <1>1, <1>2, AppendedSamples DEF Appends
<1>7. Len(log) \in Nat /\ Len(cache) <= Len(log)
  BY <1>1, <1>6
<1>8. EndsInOrder(sessions, log)
  BY <1>1, <1>7 DEF WholeInv, EndsInOrder
<1>9. ASSUME NEW i \in DOMAIN sessions, NEW k \in Nat, InPart(sessions, log, i, k)
      PROVE  log[k][1] = sessions[i].key[1]
  <2>1. CASE k <= Len(cache)
    <3>1. InPart(sessions, cache, i, k) /\ log[k] = cache[k]
      BY <1>1, <1>6, <1>9, <2>1 DEF InPart
    <3> QED
      BY <3>1 DEF WholeInv, OwnSamples
  <2>2. CASE k > Len(cache)
    <3>1. i = stream
      BY <1>1, <1>2, <1>3, <1>5, <1>9, <2>2 DEF InPart
    <3>2. log[k] = <<body.from, body.start + (k - Len(cache)) - 1>>
      BY <1>1, <1>6, <1>7, <1>9, <2>2 DEF InPart
    <3> QED
      BY <1>4, <3>1, <3>2
  <2> QED
    BY <1>1, <2>1, <2>2
<1> QED
  BY <1>7, <1>8, <1>9 DEF OwnSamples

\* A new logical stream begins at the end of the log, where it cuts the active one off.
LEMMA CreatedStands ==
  ASSUME WholeInv, origin = 0, origin' = 0, NEW body \in Message, body.kind = "open", Creates(body),
         NEW id, id = issued + 1
  PROVE  /\ StreamsStand(body)
         /\ id \in DOMAIN sessions' /\ sessions'[id].key = body.key
         /\ ResumeSample(sessions[id])' = body.source
<1>1. /\ Len(cache) \in Nat /\ counted = Len(cache) /\ issued \in Nat /\ DOMAIN sessions \subseteq 1..issued
      /\ \A i \in DOMAIN sessions :
           /\ i \in Nat /\ sessions[i] \in Session
           /\ sessions[i].start \in Nat /\ sessions[i].start <= Len(cache)
           /\ IsOpen(sessions[i]) <=> sessions[i].end = None
           /\ sessions[i].end # None => sessions[i].end \in Nat
  BY WholeFacts
<1>2. /\ DOMAIN sessions' = DOMAIN sessions \cup {id} /\ id \notin DOMAIN sessions
      /\ sessions'[id] = NewSession(body)
      /\ \A i \in DOMAIN sessions :
           sessions'[i] = IF i = active THEN CutOff(sessions[i]) ELSE sessions[i]
      /\ UNCHANGED <<cache, origin, counted>>
  <2>1. id \notin DOMAIN sessions /\ id \in Nat
    BY <1>1
  <2>2. active # id /\ sessions' = WithNewSession(body, id) /\ UNCHANGED <<cache, origin, counted>>
    BY <2>1, ServerConstants DEF Creates, WholeInv, StreamsInv, Inv, TypeOK, SessionsTypeOK
  <2> QED
    BY <2>1, <2>2 DEF WithNewSession
<1>3. counted' = counted
  BY <1>2
<1>4. /\ sessions'[id].key = body.key /\ sessions'[id].start = Len(cache)
      /\ sessions'[id].source = body.source
      /\ sessions'[id].end = None /\ ~sessions'[id].closed /\ ~sessions'[id].incomplete
  BY <1>1, <1>2 DEF NewSession
<1>5. ASSUME NEW i \in DOMAIN sessions
      PROVE  /\ sessions'[i].key = sessions[i].key /\ sessions'[i].start = sessions[i].start
             /\ sessions'[i].source = sessions[i].source
             /\ IF i = active
                THEN /\ sessions[i].end = None /\ sessions'[i].end = Len(cache)
                     /\ sessions'[i].closed /\ sessions'[i].incomplete /\ ~Complete(sessions[i])
                ELSE sessions'[i] = sessions[i]
  <2>1. i = active => IsOpen(sessions[i])
    <3>1. i # None
      BY <1>1, <1>5, ServerConstants
    <3> QED
      BY <3>1 DEF WholeInv, StreamsInv, Inv, OneOpenSession
  <2> QED
    BY <1>1, <1>2, <1>5, <2>1 DEF CutOff, Session, IsOpen, Complete
<1>6. ASSUME NEW i \in DOMAIN sessions
      PROVE  ResumeSample(sessions[i])' = ResumeSample(sessions[i])
  <2>1. CASE i = active
    BY <1>1, <1>3, <1>5, <1>6, <2>1, ServerConstants DEF ResumeSample, Position, SaturatingSub
  <2>2. CASE i # active
    BY <1>3, <1>5, <1>6, <2>2 DEF ResumeSample, Position, SaturatingSub
  <2> QED
    BY <2>1, <2>2
<1>7. Rises
  <2>1. \A i \in DOMAIN sessions : ResumeSample(sessions[i]) \in Nat
    BY WhereItStands
  <2> QED
    BY <1>2, <1>5, <1>6, <2>1 DEF Rises
<1>8. Settles(body) /\ CompletesStay
  BY <1>2, <1>4, <1>5 DEF Settles, CompletesStay, Complete
<1>9. EndsInOrder(sessions', cache')
  <2> SUFFICES ASSUME NEW i \in DOMAIN sessions'
               PROVE  /\ sessions'[i].closed <=> sessions'[i].end # None
                      /\ sessions'[i].incomplete => sessions'[i].closed
                      /\ sessions'[i].end # None =>
                           sessions'[i].start <= sessions'[i].end /\ sessions'[i].end <= Len(cache')
                      /\ Complete(sessions'[i]) =>
                           \A j \in DOMAIN sessions' : i < j => sessions'[i].end <= sessions'[j].start
    BY DEF EndsInOrder
  <2>1. CASE i = id
    BY <1>4, <2>1 DEF Complete
  <2>2. CASE i = active /\ i # id
    BY <1>1, <1>2, <1>5, <2>2, ServerConstants DEF Complete
  <2>3. CASE i # active /\ i # id
    <3>1. i \in DOMAIN sessions /\ sessions'[i] = sessions[i]
      BY <1>2, <1>5, <2>3
    <3>2. /\ sessions[i].closed <=> sessions[i].end # None
          /\ sessions[i].incomplete => sessions[i].closed
          /\ sessions[i].end # None =>
               sessions[i].start <= sessions[i].end /\ sessions[i].end <= Len(cache)
          /\ Complete(sessions[i]) =>
               \A j \in DOMAIN sessions : i < j => sessions[i].end <= sessions[j].start
      BY <3>1 DEF WholeInv, EndsInOrder
    <3>3. Complete(sessions[i]) => sessions[i].end # None
      BY <3>2 DEF Complete
    <3>4. ASSUME Complete(sessions[i]), NEW j \in DOMAIN sessions', i < j
          PROVE  sessions[i].end <= sessions'[j].start
      <4>1. CASE j = id
        BY <1>4, <3>2, <3>3, <3>4, <4>1
      <4>2. CASE j \in DOMAIN sessions
        BY <1>5, <3>2, <3>4, <4>2
      <4> QED
        BY <1>2, <4>1, <4>2
    <3>5. Len(cache') = Len(cache)
      BY <1>2
    <3> QED
      BY <3>1, <3>2, <3>4, <3>5
  <2> QED
    BY <2>1, <2>2, <2>3
<1>10. OwnSamples(sessions', cache')
  <2> SUFFICES ASSUME NEW i \in DOMAIN sessions', NEW n \in Nat, InPart(sessions', cache, i, n)
               PROVE  cache[n][1] = sessions'[i].key[1]
    BY <1>2 DEF OwnSamples
  <2>1. i # id
    BY <1>1, <1>4 DEF InPart
  <2>2. i \in DOMAIN sessions
    BY <1>2, <2>1
  <2>3. InPart(sessions, cache, i, n)
    BY <1>2, <1>5, <2>2 DEF InPart
  <2> QED
    BY <1>5, <2>2, <2>3 DEF WholeInv, OwnSamples
<1>11. ResumeSample(sessions[id])' = body.source
  <2>1. body.source \in Nat /\ SaturatingSub(Len(cache), Len(cache)) = 0
    BY <1>1, MessageParts DEF SaturatingSub
  <2>2. counted' = Len(cache)
    BY <1>1, <1>3
  <2>3. ResumeSample(sessions[id])' = body.source + SaturatingSub(Len(cache), Len(cache))
    BY <1>4, <2>2 DEF ResumeSample, Position, SaturatingSub
  <2> QED
    BY <2>1, <2>3
<1> QED
  BY <1>2, <1>4, <1>7, <1>8, <1>9, <1>10, <1>11 DEF StreamsStand

\* A Close or a Mark ends its stream where the log ends, but finds a complete one as it
\* left it.
LEMMA EndedStands ==
  ASSUME WholeInv, origin = 0, origin' = 0, NEW body \in Message, Ends(body), RequestStands(body)
  PROVE  StreamsStand(body)
<1> DEFINE stream == body.stream
           s == sessions[stream]
<1>1. /\ Len(cache) \in Nat /\ counted = Len(cache) /\ issued \in Nat /\ DOMAIN sessions \subseteq 1..issued
      /\ \A i \in DOMAIN sessions :
           /\ i \in Nat /\ sessions[i] \in Session
           /\ sessions[i].start \in Nat /\ sessions[i].start <= Len(cache)
           /\ IsOpen(sessions[i]) <=> sessions[i].end = None
           /\ sessions[i].end # None => sessions[i].end \in Nat
  BY WholeFacts
<1>2. stream \in DOMAIN sessions /\ stream # 0 /\ s \in Session
  BY <1>1 DEF Ends
<1>3. /\ DOMAIN sessions' = DOMAIN sessions /\ UNCHANGED <<cache, origin, counted>>
      /\ \A i \in DOMAIN sessions : i # stream => sessions'[i] = sessions[i]
      /\ sessions'[stream] = [s EXCEPT !.closed = TRUE,
                                       !.incomplete = s.incomplete \/ body.kind = "mark",
                                       !.end = Len(cache)]
  BY <1>1, <1>2 DEF Ends, EndSession
<1>4. counted' = counted
  BY <1>3
<1>5. /\ sessions'[stream].key = s.key /\ sessions'[stream].start = s.start
      /\ sessions'[stream].source = s.source /\ sessions'[stream].closed
      /\ sessions'[stream].incomplete <=> s.incomplete \/ body.kind = "mark"
      /\ sessions'[stream].end = Len(cache)
  BY <1>2, <1>3 DEF Session
<1>6. /\ s.closed <=> s.end # None
      /\ s.incomplete => s.closed
      /\ s.end # None => s.start <= s.end /\ s.end <= Len(cache)
      /\ Complete(s) => \A j \in DOMAIN sessions : stream < j => s.end <= sessions[j].start
  BY <1>2 DEF WholeInv, EndsInOrder
<1>7. ASSUME Complete(s)
      PROVE  sessions'[stream] = s
  <2>1. s.end \in Nat /\ s.start <= s.end /\ s.end <= Len(cache)
    BY <1>1, <1>2, <1>6, <1>7 DEF Complete
  <2>2. body.kind = "close"
    BY <1>2, <1>7 DEF Ends, RequestStands
  <2>3. Position(s, Len(cache)) <= Position(s, s.end)
    <3>1. body.final = ExpectedSample(s) /\ body.final <= ResumeSample(s)
      BY <1>2, <2>2 DEF Ends, RequestStands, Reaches
    <3> QED
      BY <1>2, <2>1, <3>1, WhereItStands, ServerConstants
  <2>4. s.end = Len(cache)
    <3> HIDE DEF s
    <3> QED
      BY <1>1, <1>2, <2>1, <2>3, PositionMoves
  <2>5. s.closed = TRUE /\ s.incomplete = FALSE
    BY <1>2, <1>7 DEF Complete, Session
  <2>6. sessions'[stream] = [s EXCEPT !.closed = TRUE, !.incomplete = FALSE, !.end = Len(cache)]
    BY <1>3, <2>2, <2>5
  <2> QED
    BY <1>2, <2>4, <2>5, <2>6 DEF Session
<1>8. Rises
  <2>1. ASSUME NEW i \in DOMAIN sessions, i # stream
        PROVE  ResumeSample(sessions[i])' = ResumeSample(sessions[i])
    BY <1>3, <1>4, <2>1 DEF ResumeSample, Position, SaturatingSub
  <2>2. ResumeSample(sessions[stream])' = Position(s, Len(cache))
    BY <1>1, <1>4, <1>5, ServerConstants DEF ResumeSample, Position, SaturatingSub
  <2>3. \A i \in DOMAIN sessions :
          ResumeSample(sessions[i]) \in Nat /\ ResumeSample(sessions[i]) <= Position(sessions[i], Len(cache))
    BY WhereItStands
  <2>4. Position(s, Len(cache)) \in Nat
    BY <1>1, <1>2, PositionMoves
  <2>5. ASSUME NEW i \in DOMAIN sessions
        PROVE  /\ ResumeSample(sessions[i])' \in Nat
               /\ ResumeSample(sessions[i])' >= ResumeSample(sessions[i])
    <3>1. CASE i = stream
      <4>1. ResumeSample(sessions[i])' = ResumeSample(sessions[stream])'
        BY <3>1
      <4> QED
        BY <2>2, <2>3, <2>4, <3>1, <4>1
    <3>2. CASE i # stream
      BY <2>1, <2>3, <3>2
    <3> QED
      BY <3>1, <3>2
  <2> QED
    BY <1>2, <1>3, <1>5, <2>5 DEF Rises
<1>9. CompletesStay
  BY <1>3, <1>7 DEF CompletesStay
<1>10. Settles(body)
  <2>1. ASSUME Complete(sessions'[stream])
        PROVE  body.kind = "close"
    BY <1>5, <2>1 DEF Complete, Ends
  <2> QED
    BY <1>3, <2>1 DEF Settles
<1>11. EndsInOrder(sessions', cache')
  <2> SUFFICES ASSUME NEW i \in DOMAIN sessions
               PROVE  /\ sessions'[i].closed <=> sessions'[i].end # None
                      /\ sessions'[i].incomplete => sessions'[i].closed
                      /\ sessions'[i].end # None =>
                           sessions'[i].start <= sessions'[i].end /\ sessions'[i].end <= Len(cache)
                      /\ Complete(sessions'[i]) =>
                           \A j \in DOMAIN sessions : i < j => sessions'[i].end <= sessions'[j].start
    BY <1>3 DEF EndsInOrder
  <2>1. \A j \in DOMAIN sessions : sessions'[j].start = sessions[j].start
    BY <1>3, <1>5
  <2>2. CASE i # stream
    BY <1>3, <2>1, <2>2 DEF WholeInv, EndsInOrder
  <2>3. CASE i = stream
    <3>1. Len(cache) # None
      BY <1>1, ServerConstants
    <3>2. ASSUME Complete(sessions'[stream]), NEW j \in DOMAIN sessions, stream < j
          PROVE  sessions'[stream].end <= sessions'[j].start
      <4>1. ~s.incomplete
        BY <1>5, <3>2 DEF Complete
      <4>2. Complete(s)
        <5>1. ~IsOpen(s)
          BY <1>2, <3>2 DEF WholeInv, StreamsInv, Ledger, InOrder
        <5> QED
          BY <1>2, <4>1, <5>1 DEF IsOpen, Complete, Session
      <4> QED
        BY <1>6, <1>7, <2>1, <3>2, <4>2
    <3> QED
      BY <1>1, <1>2, <1>5, <2>3, <3>1, <3>2
  <2> QED
    BY <2>2, <2>3
<1>12. OwnSamples(sessions', cache')
  <2> SUFFICES ASSUME NEW i \in DOMAIN sessions, NEW n \in Nat, InPart(sessions', cache, i, n)
               PROVE  cache[n][1] = sessions'[i].key[1]
    BY <1>3 DEF OwnSamples
  <2>1. \A j \in DOMAIN sessions : sessions'[j].start = sessions[j].start /\ sessions'[j].key = sessions[j].key
    BY <1>3, <1>5
  <2>2. InPart(sessions, cache, i, n)
    BY <1>3, <2>1 DEF InPart
  <2> QED
    BY <2>1, <2>2 DEF WholeInv, OwnSamples
<1> QED
  BY <1>8, <1>9, <1>10, <1>11, <1>12 DEF StreamsStand

\* Every envelope lets the streams stand.
LEMMA EffectStands ==
  ASSUME FilesAreWritten, WholeInv, origin = 0, origin' = 0, NEW req \in Request,
         OwnedRequest(req.body), RequestStands(req.body), ProcessEnvelope(req)
  PROVE  StreamsStand(req.body)
<1> DEFINE body == req.body
<1>1. body \in Message /\ Len(cache) \in Nat
  BY RequestParts, WholeFacts
<1>a. CountsAgree'
  BY SavedEffect DEF WholeInv, StreamsInv, Saved
<1>2. CASE UNCHANGED streamVars
  <2>1. Rises /\ Settles(body) /\ CompletesStay
    BY <1>1, <1>a, <1>2, SameStreamsRise
  <2> QED
    BY <1>2, <2>1 DEF StreamsStand, WholeInv
<1>3. CASE body.kind = "open" /\ Creates(body)
  BY <1>1, <1>3, CreatedStands
<1>4. ASSUME NEW n \in Nat, Appends(body, n, cache'), UNCHANGED sessions
      PROVE  StreamsStand(body)
  <2> HIDE DEF body
  <2>1. /\ EndsInOrder(sessions, cache') /\ OwnSamples(sessions, cache')
        /\ Len(cache') \in Nat /\ Len(cache) <= Len(cache')
    BY <1>1, <1>4, AppendedStands DEF body
  <2>2. Rises /\ Settles(body) /\ CompletesStay
    BY <1>a, <1>4, <2>1, SameStreamsRise
  <2> QED
    BY <1>4, <2>1, <2>2 DEF StreamsStand
<1>5. CASE Ends(body)
  BY <1>1, <1>5, EndedStands
<1> QED
  BY <1>2, <1>3, <1>4, <1>5, StreamEffect DEF WholeInv, StreamsInv

\* So does a restart on good files, with what was appended last.
LEMMA ReloadStands ==
  ASSUME NoneIsNoMap, WholeInv, origin = 0, origin' = 0, NEW body, NEW log, Reload(Files, log),
         EndsInOrder(sessions, log), OwnSamples(sessions, log),
         Len(log) \in Nat, Len(cache) <= Len(log)
  PROVE  StreamsStand(body)
<1>1. /\ sessions' = sessions \/ (DOMAIN sessions = {} /\ DOMAIN sessions' = {})
      /\ cache' = log /\ CountsAgree'
  BY ReloadFinds DEF WholeInv, StreamsInv, Saved
<1>2. CASE sessions' = sessions
  <2>1. Rises /\ Settles(body) /\ CompletesStay
    BY <1>1, <1>2, SameStreamsRise
  <2> QED
    BY <1>1, <1>2, <2>1 DEF StreamsStand
<1>3. CASE DOMAIN sessions = {} /\ DOMAIN sessions' = {}
  BY <1>3 DEF StreamsStand, Rises, Settles, CompletesStay, EndsInOrder, OwnSamples
<1> QED
  BY <1>1, <1>2, <1>3

\* Where nothing waits in the BufWriter a restart finds the whole cache, and after a crash
\* in a push the cache with some of the chunk.
LEMMA RestartFinds ==
  ASSUME WholeInv, Restart
  PROVE  Reload(Files, cache) /\ UNCHANGED <<clientVars, requests>>
<1>1. PICK lost \in 0..unflushed : Reload(Files, Without(lost))
  BY DEF Restart, Crash
<1>2. CacheTypeOK /\ unflushed = 0
  BY DEF WholeInv, StreamsInv, Inv, TypeOK, Saved, CountsAgree
<1>3. Without(lost) = cache
  BY <1>2, NothingLost
<1> QED
  BY <1>1, <1>3 DEF Restart

LEMMA PushFinds ==
  ASSUME WholeInv, NEW req \in Request, CrashInPush(req)
  PROVE  \E count \in Nat : \E log : Appends(req.body, count, log) /\ Reload(Files, log)
BY PartOfChunk DEF WholeInv, StreamsInv, Inv, TypeOK, Saved, CountsAgree

LEMMA ResponseParts ==
  ASSUME NEW at, NEW position, NEW error
  PROVE  /\ Ok(at, position).status = "ok" /\ Ok(at, position).stream = at
         /\ Ok(at, position).next = position
         /\ Gap(at, position, error).next = position
BY DEF Ok, Gap

\* What the handler of a message tells its client holds when the handler is through.
LEMMA AnswerHolds ==
  ASSUME FilesAreWritten, WholeInv, origin = 0, origin' = 0, NEW req \in Request,
         OwnedRequest(req.body), RequestStands(req.body), ProcessEnvelope(req), IsNext(req),
         epochs \in [Epoch -> EpochState], NEW m, m = epochs'[req.epoch].answer
  PROVE  AnswerStands(req.body, m)'
<1> DEFINE body == req.body
           own == body.stream
<1>1. /\ body \in Message /\ Len(cache) \in Nat /\ counted = Len(cache) /\ req.epoch \in Epoch
      /\ req.seq \in Nat /\ epochs[req.epoch].expected \in Nat
      /\ \A i \in DOMAIN sessions : sessions[i] \in Session /\ sessions[i].start <= Len(cache)
                                    /\ (IsOpen(sessions[i]) <=> sessions[i].end = None)
  BY RequestParts, WholeFacts DEF EpochState
<1>2. ASSUME NEW r, Respond(req, r)
      PROVE  m = r
  BY <1>1, <1>2 DEF Respond
<1>3. StreamsStand(body)
  BY EffectStands
<1>4. Handle(req) /\ ~Fault("persist") /\ ~Fault("pcm")
  BY <1>1 DEF ProcessEnvelope, IsNext, Fault, FilesAreWritten, IsRetry
<1>5. \A i \in DOMAIN sessions : ResumeSample(sessions[i]) \in Nat
  BY WhereItStands
<1>6. ASSUME NEW error, m = Rejected(error)
      PROVE  AnswerStands(body, m)'
  <2>1. m.status = "rejected" /\ m.next = 0
    BY <1>6 DEF Rejected
  <2>2. body.kind = "pcm" /\ own # 0 =>
          own \in DOMAIN sessions' /\ ResumeSample(sessions[own])' \in Nat
    BY <1>3 DEF RequestStands, StreamsStand, Rises
  <2>3. \A n \in Nat : 0 <= n
    OBVIOUS
  <2> QED
    BY <2>1, <2>2, <2>3 DEF AnswerStands, Reaches
<1>7. CASE OpenOrResume(req)
  <2>1. body.kind = "open"
    BY <1>7 DEF OpenOrResume
  <2>2. ASSUME NEW i \in KnownStreams(body.key), m = Ok(i, ResumeSample(sessions[i]))
        PROVE  AnswerStands(body, m)'
    <3>1. i \in DOMAIN sessions /\ sessions[i].key = body.key /\ m.stream = i
          /\ m.next = ResumeSample(sessions[i])
      BY <2>2, ResponseParts DEF KnownStreams
    <3>2. i \in DOMAIN sessions' /\ sessions'[i].key = body.key
          /\ m.next <= ResumeSample(sessions[i])'
      BY <1>3, <1>5, <3>1 DEF StreamsStand, Rises
    <3> QED
      BY <2>1, <3>1, <3>2 DEF AnswerStands, Reaches
  <2>3. ASSUME NEW i \in KnownStreams(body.key), Resume(req, i)
        PROVE  AnswerStands(body, m)'
    BY <1>2, <1>6, <2>2, <2>3 DEF Resume
  <2>4. ASSUME CreateStream(req)
        PROVE  AnswerStands(body, m)'
    <3> DEFINE id == issued + 1
    <3>1. m = Ok(id, body.source) /\ Creates(body)
      BY <1>2, <1>4, <1>7, <2>4 DEF CreateStream, SaveSessions, Creates
    <3>2. m.stream = id /\ m.next = body.source /\ body.source \in Nat
      BY <1>1, <2>1, <3>1, MessageParts, ResponseParts
    <3>3. ASSUME NEW i, i = id
          PROVE  AnswerStands(body, m)'
      <4>1. i \in DOMAIN sessions' /\ sessions'[i].key = body.key
            /\ ResumeSample(sessions[i])' = body.source
        BY <1>1, <2>1, <3>1, <3>3, CreatedStands
      <4> HIDE DEF id, body
      <4> QED
        BY <2>1, <3>2, <3>3, <4>1 DEF AnswerStands, Reaches
    <3> QED
      BY <3>3
  <2> QED
    BY <1>2, <1>4, <1>6, <1>7, <2>3, <2>4 DEF OpenOrResume, CreateCacheFails
<1>8. CASE PushPcm(req)
  <2> DEFINE fits == PcmError(body) = ""
  <2>1. body.kind = "pcm" /\ body.start \in Nat /\ body.count \in Nat
    BY <1>1, <1>8, MessageParts DEF PushPcm
  <2>2. fits => own \in DOMAIN sessions /\ IsOpen(sessions[own])
    BY DEF PcmError
  <2> HIDE DEF fits
  <2>3. ASSUME fits
        PROVE  /\ own \in DOMAIN sessions
               /\ ResumeSample(sessions[own]) = ExpectedSample(sessions[own])
               /\ ExpectedSample(sessions[own]) =
                    sessions[own].source + (Len(cache) - sessions[own].start)
    <3>1. own \in DOMAIN sessions /\ IsOpen(sessions[own])
      BY <2>2, <2>3
    <3>2. /\ ResumeSample(sessions[own]) = Position(sessions[own], Len(cache))
          /\ ExpectedSample(sessions[own]) = Position(sessions[own], Len(cache))
      BY <1>1, <3>1, WhereItStands
    <3> QED
      BY <1>1, <3>1, <3>2, PositionMoves
  <2>4. ASSUME fits,
               m = Gap(own, ExpectedSample(sessions[own]), "sample_gap")
        PROVE  AnswerStands(body, m)'
    <3>1. own \in DOMAIN sessions /\ ResumeSample(sessions[own]) = ExpectedSample(sessions[own])
      BY <2>3, <2>4
    <3>2. m.next = ExpectedSample(sessions[own])
      BY <2>4, ResponseParts
    <3>3. m.next = ResumeSample(sessions[own]) /\ own \in DOMAIN sessions
      BY <3>1, <3>2
    <3>4. own \in DOMAIN sessions' /\ m.next <= ResumeSample(sessions[own])'
      BY <1>3, <1>5, <3>3 DEF StreamsStand, Rises
    <3> QED
      BY <2>1, <3>4 DEF AnswerStands, Reaches
  <2>5. ASSUME fits, InPlace(body), m = Ok(own, body.start + body.count),
               AppendChunk(body), UNCHANGED sessions
        PROVE  AnswerStands(body, m)'
    <3> DEFINE s == sessions[own]
               end == Len(cache) + body.count
    <3>1. /\ s \in Session /\ s.start <= Len(cache) /\ s.end = None /\ own \in DOMAIN sessions
      BY <1>1, <2>2, <2>5
    <3>2. Len(cache') = end /\ end \in Nat
      <4>1. CacheTypeOK /\ body.from \in Client
        BY <1>1, MessageParts DEF WholeInv, StreamsInv, Inv, TypeOK
      <4>2. Len(cache \o Samples(body.from, body.start, body.count)) = end
        BY <2>1, <4>1, AppendedType
      <4> QED
        BY <1>1, <2>1, <2>5, <4>2 DEF AppendChunk, Chunk
    <3>3. counted' = end
      BY <1>1, <2>5 DEF AppendChunk
    <3>4. s.start <= end
      BY <1>1, <2>1, <3>1 DEF Session
    <3>5. m.next = body.start + body.count
      <4>1. \A at, position : Ok(at, position).next = position
        BY ResponseParts
      <4>2. m = Ok(own, body.start + body.count)
        BY <2>5
      <4> QED
        BY <4>1, <4>2
    <3>6. body.start = s.source + (Len(cache) - s.start)
      BY <2>3, <2>5 DEF InPlace
    <3>7. m.next = s.source + (end - s.start)
      BY <1>1, <2>1, <3>1, <3>5, <3>6 DEF Session
    <3> HIDE DEF end
    <3>8. ResumeSample(sessions[own])' = Position(s, end)
      BY <2>5, <3>1, <3>3 DEF ResumeSample, Position, SaturatingSub
    <3> HIDE DEF s
    <3>9. Position(s, end) = m.next /\ Position(s, end) \in Nat
      BY <3>1, <3>2, <3>4, <3>7, PositionMoves
    <3> QED
      BY <2>1, <2>5, <3>1, <3>8, <3>9 DEF AnswerStands, Reaches
  <2> QED
    BY <1>2, <1>4, <1>6, <1>8, <2>4, <2>5 DEF PushPcm, fits
<1>9. CASE body.kind \notin {"open", "pcm"}
  BY <1>9 DEF AnswerStands
<1> QED
  BY <1>4, <1>7, <1>8, <1>9 DEF Handle, CloseStream, MarkIncomplete, Probe

\* What the server's step lets stand: a position that was reached, and the answers that
\* name one.
LEMMA ReachesLater ==
  ASSUME WholeInv, origin = 0, Rises, NEW i, NEW position \in Nat, Reaches(i, position)
  PROVE  Reaches(i, position)' /\ i \in DOMAIN sessions /\ sessions'[i].key = sessions[i].key
<1>1. i \in DOMAIN sessions /\ position <= ResumeSample(sessions[i])
  BY DEF Reaches
<1>2. ResumeSample(sessions[i]) \in Nat
  BY <1>1, WhereItStands
<1>3. /\ i \in DOMAIN sessions' /\ sessions'[i].key = sessions[i].key
      /\ ResumeSample(sessions[i])' \in Nat /\ ResumeSample(sessions[i])' >= ResumeSample(sessions[i])
  BY <1>1 DEF Rises
<1>4. position <= ResumeSample(sessions[i])'
  BY <1>1, <1>2, <1>3
<1> QED
  BY <1>1, <1>3, <1>4 DEF Reaches

LEMMA AnswersLater ==
  ASSUME WholeInv, origin = 0, Rises, NEW body, NEW m \in Response, AnswerStands(body, m)
  PROVE  AnswerStands(body, m)'
<1>1. m.next \in Nat
  BY DEF Response
<1>2. ASSUME NEW i, Reaches(i, m.next)
      PROVE  Reaches(i, m.next)' /\ sessions'[i].key = sessions[i].key
  BY <1>1, <1>2, ReachesLater
<1> QED
  BY <1>2 DEF AnswerStands

\* A message that stands does so after any other was processed; what completes a stream
\* is a Close, and no Mark of that stream travels with it.
Settler(body) == body.kind = "close" => \E r \in requests : r.body = body

LEMMA RequestsLater ==
  ASSUME UploadInv, origin = 0, NEW body, Settler(body), StreamsStand(body),
         NEW other \in Message, RequestStands(other),
         other.kind = "mark" => \E s \in requests : s.body = other,
         UNCHANGED <<pc, waiting, suffix>>
  PROVE  RequestStands(other)'
<1>1. WholeInv /\ Rises /\ Settles(body)
  BY DEF UploadInv, StreamsStand
<1>2. \A d : (Sending(d) <=> Sending(d)') /\ Sent(d)' = Sent(d) /\ (Ending(d) <=> Ending(d)')
  BY DEF Sending, Sent, Ending, IsClose
<1>3. other.kind \in {"pcm", "close", "mark"} /\ other.stream # 0 =>
        /\ other.stream \in DOMAIN sessions /\ other.stream \in DOMAIN sessions'
        /\ sessions'[other.stream].key = sessions[other.stream].key
  BY <1>1 DEF RequestStands, Rises
<1>4. other.kind = "close" =>
        Ending(other.from)' /\ (other.stream # 0 => Reaches(other.stream, other.final)')
  <2>1. other.kind = "close" => other.final \in Nat
    BY MessageParts
  <2> QED
    BY <1>1, <1>2, <2>1, ReachesLater DEF RequestStands
<1>5. ASSUME other.kind = "mark", other.stream # 0
      PROVE  ~Complete(sessions'[other.stream])
  <2>1. ~(body.kind = "close" /\ body.stream = other.stream)
    BY <1>5 DEF Settler, UploadInv, Stands, NotBoth
  <2>2. ~Complete(sessions[other.stream])
    BY <1>5 DEF RequestStands
  <2> QED
    BY <1>1, <1>3, <1>5, <2>1, <2>2 DEF Settles
<1>6. ASSUME other.kind = "mark", other.stream # 0
      PROVE  \/ sessions'[other.stream].key[2] < suffix'[other.from]
             \/ Sending(other.from)' /\ Sent(other.from)' = other
  BY <1>2, <1>3, <1>6 DEF RequestStands
<1> QED
  BY <1>3, <1>4, <1>5, <1>6 DEF RequestStands

\* What a step of the server keeps of Stands, whatever it answers.
LEMMA ServerStands ==
  ASSUME UploadInv, origin = 0, NEW body, Settler(body), StreamsStand(body),
         requests' \subseteq requests, UNCHANGED <<pc, waiting, suffix, link>>
  PROVE  /\ \A c \in Client : LinkStands(c)' /\ (IsClose(c)' => RequestStands(Sent(c))')
         /\ \A req \in requests' : RequestStands(req.body)'
         /\ \A r, s \in requests' : NotBoth(r, s)'
         /\ CompletesAreLast'
<1>1. /\ SyncInv /\ WholeInv /\ Stands /\ Rises /\ Settles(body) /\ CompletesStay
      /\ ClientTypes /\ Owners /\ waiting \in [Client -> Request \cup {None}]
  BY DEF UploadInv, StreamsStand, SyncInv, Inv, TypeOK, ExchangesTypeOK
<1>2. \A d : (Sending(d) <=> Sending(d)') /\ Sent(d)' = Sent(d) /\ (Ending(d) <=> Ending(d)')
             /\ (IsClose(d) <=> IsClose(d)') /\ (HasLink(d) <=> HasLink(d)')
  BY DEF Sending, Sent, Ending, IsClose, HasLink
<1>3. ASSUME NEW c \in Client
      PROVE  LinkStands(c)'
  <2> SUFFICES ASSUME HasLink(c), link[c].stream # 0
               PROVE  /\ Reaches(link[c].stream, link[c].next)'
                      /\ pc[c] \in {"idle", "read", "sending"} =>
                           sessions'[link[c].stream].key = <<c, suffix[c]>>
    BY <1>2 DEF LinkStands, HasLink
  <2>1. link[c].next \in Nat /\ Reaches(link[c].stream, link[c].next)
    BY <1>1 DEF Stands, LinkStands, HasLink, Link
  <2>2. ASSUME NEW i, NEW position \in Nat, Reaches(i, position)
        PROVE  Reaches(i, position)' /\ sessions'[i].key = sessions[i].key
    BY <1>1, <2>2, ReachesLater
  <2>3. Reaches(link[c].stream, link[c].next)'
        /\ sessions'[link[c].stream].key = sessions[link[c].stream].key
    BY <2>1, <2>2 DEF Reaches
  <2> QED
    BY <1>1, <2>3 DEF Stands, LinkStands
<1>4. ASSUME NEW c \in Client, IsClose(c)
      PROVE  RequestStands(Sent(c))'
  <2>1. Sent(c) \in Message /\ Sent(c).kind = "close" /\ RequestStands(Sent(c))
    <3>1. waiting[c] \in Request
      BY <1>1, <1>4 DEF ClientTypes, IsClose
    <3> QED
      BY <1>1, <1>4, <3>1, RequestParts DEF Stands, IsClose, Sent
  <2>2. ASSUME NEW other, other = Sent(c)
        PROVE  RequestStands(other)'
    BY <2>1, <2>2, RequestsLater
  <2> QED
    BY <1>2, <2>2 DEF RequestStands, Sent
<1>5. ASSUME NEW req \in requests
      PROVE  RequestStands(req.body)'
  <2>1. req.body \in Message /\ RequestStands(req.body)
    BY <1>1, RequestParts DEF ClientTypes, Stands
  <2> QED
    BY <2>1, RequestsLater
<1>6. \A r, s \in requests' : NotBoth(r, s)'
  BY <1>1 DEF Stands, NotBoth
<1>7. ASSUME NEW i \in DOMAIN sessions', Complete(sessions'[i]), NEW d, d = sessions'[i].key[1]
      PROVE  Ending(d)'
  <2>1. i \in DOMAIN sessions /\ sessions'[i].key = sessions[i].key
    BY <1>1, <1>7 DEF Settles, Rises
  <2>2. Ending(sessions[i].key[1])
    <3>1. CASE Complete(sessions[i])
      BY <1>1, <2>1, <3>1 DEF Stands, CompletesAreLast
    <3>2. CASE body.kind = "close" /\ body.stream = i
      <4>1. PICK r \in requests : r.body = body
        BY <3>2 DEF Settler
      <4>2. OwnedRequest(body) /\ RequestStands(body)
        BY <1>1, <4>1 DEF Owners, Stands
      <4>3. sessions[i].key[1] = body.from /\ Ending(body.from)
        BY <2>1, <3>2, <4>2 DEF OwnedRequest, IsStreamOf, RequestStands
      <4> QED
        BY <4>3
    <3> QED
      BY <1>1, <1>7, <3>1, <3>2 DEF Settles
  <2>3. Ending(d)
    BY <1>7, <2>1, <2>2
  <2> QED
    BY <1>2, <2>3
<1>8. CompletesAreLast'
  BY <1>7 DEF CompletesAreLast
<1> QED
  BY <1>2, <1>3, <1>4, <1>5, <1>6, <1>8

\* The answers that were given still hold, as long as no epoch is added.
LEMMA RepliesLater ==
  ASSUME UploadInv, origin = 0, Rises, UNCHANGED <<pc, waiting>>, NEW c \in Client,
         reply'[c] = reply[c], NEW m, m = reply[c].message,
         Sending(c), reply[c] # None, reply[c].code = 200
  PROVE  AnswerStands(Sent(c), m)'
<1>1. m \in Response
  BY DEF UploadInv, SyncInv, Exchanges, Answered
<1>2. AnswerStands(Sent(c), m)
  BY DEF UploadInv, Stands, RepliesStand
<1>3. ASSUME NEW body, AnswerStands(body, m)
      PROVE  AnswerStands(body, m)'
  BY <1>1, <1>3, AnswersLater DEF UploadInv
<1>4. ASSUME NEW body, body = Sent(c)
      PROVE  AnswerStands(body, m)'
  BY <1>2, <1>3, <1>4
<1> QED
  BY <1>4 DEF AnswerStands, Sent

LEMMA EpochLater ==
  ASSUME UploadInv, origin = 0, Rises, NEW e \in Epoch, epochs[e].expected > 0,
         NEW body, body = epochs[e].last.body, NEW m, m = epochs[e].answer
  PROVE  AnswerStands(body, m)'
<1>1. m \in Response /\ AnswerStands(body, m)
  BY DEF UploadInv, Stands, EpochsStand, SyncInv, Exchanges, EpochsInUse
<1> QED
  BY <1>1, AnswersLater DEF UploadInv

\* An answer from the cache of the epoch is the one that was given to this message.
LEMMA EchoStands ==
  ASSUME UploadInv, origin = 0, Rises, NEW req \in requests, Takes(req), Echoes(req)
  PROVE  RepliesStand' /\ EpochsStand'
<1>1. UNCHANGED <<epochs, pc, waiting>> /\ SyncInv /\ req.epoch \in Epoch
  BY RequestParts DEF Takes, Echoes, UploadInv, SyncInv, ClientTypes
<1>2. EpochsStand'
  <2>1. ASSUME NEW e \in Epoch, epochs[e].expected > 0, NEW body, body = epochs[e].last.body,
               NEW m, m = epochs[e].answer
        PROVE  AnswerStands(body, m)'
    BY <2>1, EpochLater
  <2> QED
    BY <1>1, <2>1 DEF EpochsStand
<1>3. ASSUME NEW c \in Client, Sending(c), reply'[c] # None, reply'[c].code = 200,
             NEW body, body = Sent(c), NEW m, m = reply'[c].message
      PROVE  AnswerStands(body, m)'
  <2>1. CASE reply'[c] = reply[c]
    <3>1. AnswerStands(Sent(c), m)'
      BY <1>1, <1>3, <2>1, RepliesLater
    <3> QED
      BY <1>1, <1>3, <3>1 DEF Sent
  <2>2. CASE waiting[c] = req /\ epochs[req.epoch].live /\ IsRetry(req) /\ m = epochs[req.epoch].answer
    <3>1. Sent(c) = req.body /\ link[c].epoch = req.epoch /\ link[c].seq = req.seq /\ HasLink(c)
      BY <1>1, <2>2, WaitingFor
    <3>2. epochs[req.epoch].last.body = body
      BY <1>3, <2>2, <3>1 DEF IsRetry
    <3>3. epochs[req.epoch].expected > 0
      <4>1. epochs[req.epoch].expected \in Nat /\ req.seq \in Nat
        BY <1>1, RequestParts DEF SyncInv, ClientTypes, Inv, TypeOK, ExchangesTypeOK, EpochState
      <4> QED
        BY <2>2, <4>1 DEF IsRetry
    <3> QED
      BY <1>1, <2>2, <3>2, <3>3, EpochLater
  <2>3. \/ reply'[c] = reply[c]
        \/ waiting[c] = req /\ reply'[c].code # 200
        \/ waiting[c] = req /\ epochs[req.epoch].live /\ IsRetry(req)
           /\ reply'[c].message = epochs[req.epoch].answer
    BY AnswerReaches DEF Echoes
  <2> QED
    BY <1>3, <2>1, <2>2, <2>3
<1>4. RepliesStand'
  BY <1>1, <1>3 DEF RepliesStand, Sending, Sent
<1> QED
  BY <1>2, <1>4

\* A new answer holds for the client that waits for it, and for the cache of its epoch.
LEMMA CountsStand ==
  ASSUME UploadInv, origin = 0, Rises, NEW req \in requests, Takes(req),
         NEW m \in Response, Respond(req, m), AnswerStands(req.body, m)'
  PROVE  RepliesStand' /\ EpochsStand'
<1>1. UNCHANGED <<pc, waiting>> /\ SyncInv /\ req.epoch \in Epoch /\ epochs \in [Epoch -> EpochState]
  BY RequestParts DEF Takes, UploadInv, SyncInv, ClientTypes, Inv, TypeOK, ExchangesTypeOK
<1>2. /\ epochs'[req.epoch].last.body = req.body /\ epochs'[req.epoch].answer = m
      /\ \A e \in Epoch : e # req.epoch => epochs'[e] = epochs[e]
  BY <1>1 DEF Respond
<1>3. EpochsStand'
  <2>1. ASSUME NEW e \in Epoch, epochs'[e].expected > 0, NEW body, body = epochs'[e].last.body,
               NEW a, a = epochs'[e].answer
        PROVE  AnswerStands(body, a)'
    <3>1. CASE e = req.epoch
      BY <1>2, <2>1, <3>1
    <3>2. CASE e # req.epoch
      BY <1>2, <2>1, <3>2, EpochLater
    <3> QED
      BY <3>1, <3>2
  <2> QED
    BY <2>1 DEF EpochsStand
<1>4. ASSUME NEW c \in Client, Sending(c), reply'[c] # None, reply'[c].code = 200,
             NEW body, body = Sent(c), NEW a, a = reply'[c].message
      PROVE  AnswerStands(body, a)'
  <2>1. CASE waiting[c] = req
    <3>1. Sent(c) = req.body /\ reply'[c].message = m
      BY <1>1, <2>1, WaitingFor, AnswerReaches DEF Respond
    <3> QED
      BY <1>4, <3>1
  <2>2. CASE waiting[c] # req
    <3>1. reply'[c] = reply[c]
      BY <2>2, AnswerReaches DEF Respond
    <3>2. AnswerStands(Sent(c), a)'
      BY <1>1, <1>4, <3>1, RepliesLater
    <3> QED
      BY <1>1, <1>4, <3>2 DEF Sent
  <2> QED
    BY <2>1, <2>2
<1>5. RepliesStand'
  BY <1>1, <1>4 DEF RepliesStand, Sending, Sent
<1> QED
  BY <1>3, <1>5

\* Every envelope of a client lets everything stand.
LEMMA EnvelopeStands ==
  ASSUME FilesAreWritten, UploadInv, origin = 0, origin' = 0,
         NEW req \in requests, Takes(req), ProcessEnvelope(req)
  PROVE  WholeInv' /\ Stands' /\ StreamsStand(req.body)
<1>1. /\ req \in Request /\ OwnedRequest(req.body) /\ RequestStands(req.body)
      /\ WholeInv /\ StreamsInv /\ epochs \in [Epoch -> EpochState] /\ SyncInv
  BY DEF UploadInv, SyncInv, ClientTypes, Owners, Stands, WholeInv, Inv, TypeOK, ExchangesTypeOK
<1>2. StreamsStand(req.body)
  BY <1>1, EffectStands
<1>3. WholeInv'
  BY <1>1, <1>2, LedgerEnvelope DEF WholeInv, StreamsStand
<1>4. Rises /\ Settler(req.body)
  BY <1>2 DEF StreamsStand, Settler
<1>5. RepliesStand' /\ EpochsStand'
  <2>1. CASE Echoes(req)
    BY <1>4, <2>1, EchoStands
  <2>2. ASSUME NEW m \in Response, Counts(req, m)
        PROVE  RepliesStand' /\ EpochsStand'
    <3>1. m = epochs'[req.epoch].answer
      BY <1>1, <2>2, RequestParts DEF Counts, Respond
    <3>2. AnswerStands(req.body, m)'
      BY <1>1, <2>2, <3>1, AnswerHolds DEF Counts
    <3> QED
      BY <1>4, <2>2, <3>2, CountsStand DEF Counts
  <2> QED
    BY <1>1, <2>1, <2>2, EnvelopeEffect
<1>6. requests' \subseteq requests /\ UNCHANGED <<pc, waiting, suffix, link>>
  BY DEF Takes
<1> QED
  BY <1>2, <1>3, <1>4, <1>5, <1>6, ServerStands DEF Stands

\* After a restart there is no epoch left, and no answer that had not been given.
LEMMA RestartStands ==
  ASSUME NoneIsNoMap, UploadInv, origin = 0, origin' = 0, NEW log, Reload(Files, log),
         EndsInOrder(sessions, log), OwnSamples(sessions, log),
         Len(log) \in Nat, Len(cache) <= Len(log), StreamsInv',
         requests' \subseteq requests, UNCHANGED clientVars, NEW body, body.kind # "close"
  PROVE  WholeInv' /\ Stands' /\ StreamsStand(body)
<1>1. WholeInv /\ StreamsStand(body)
  BY ReloadStands DEF UploadInv
<1>2. WholeInv'
  BY <1>1 DEF WholeInv, StreamsStand
<1>3. UNCHANGED <<pc, waiting, suffix, link, reply>> /\ Settler(body) /\ Rises
  BY <1>1 DEF Reload, Settler, StreamsStand
<1>4. EpochsStand'
  <2>1. \A e \in Epoch : ~(epochs'[e].expected > 0)
    BY DEF Reload, IdleEpoch
  <2> QED
    BY <2>1 DEF EpochsStand
<1>5. ASSUME NEW c \in Client, Sending(c), reply[c] # None, reply[c].code = 200,
             NEW b, b = Sent(c), NEW m, m = reply[c].message
      PROVE  AnswerStands(b, m)'
  <2>1. AnswerStands(Sent(c), m)'
    BY <1>3, <1>5, RepliesLater
  <2> QED
    BY <1>3, <1>5, <2>1 DEF Sent
<1>6. RepliesStand'
  BY <1>3, <1>5 DEF RepliesStand, Sending, Sent
<1> QED
  BY <1>1, <1>2, <1>3, <1>4, <1>6, ServerStands DEF Stands

\* A chunk that a crash cut short stays where its stream stood.
LEMMA CrashInPushStands ==
  ASSUME NoneIsNoMap, UploadInv, origin = 0, origin' = 0,
         NEW req \in requests, Takes(req), CrashInPush(req)
  PROVE  WholeInv' /\ Stands' /\ StreamsStand(req.body)
<1> DEFINE body == req.body
<1>1. /\ req \in Request /\ body \in Message /\ OwnedRequest(body)
      /\ WholeInv /\ StreamsInv
  BY RequestParts DEF UploadInv, SyncInv, ClientTypes, Owners, WholeInv
<1>2. PICK count \in Nat : \E log : Appends(body, count, log) /\ Reload(Files, log)
  BY <1>1, PushFinds
<1>3. PICK log : Appends(body, count, log) /\ Reload(Files, log)
  BY <1>2
<1>4. body.kind # "close"
  BY <1>3 DEF Appends
<1>5. /\ EndsInOrder(sessions, log) /\ OwnSamples(sessions, log)
      /\ Len(log) \in Nat /\ Len(cache) <= Len(log)
  BY <1>1, <1>3, AppendedStands
<1>6. StreamsInv'
  BY <1>1, LedgerCrashInPush
<1>7. requests' \subseteq requests /\ UNCHANGED clientVars
  BY DEF Takes
<1> HIDE DEF body
<1>8. WholeInv' /\ Stands' /\ StreamsStand(body)
  BY <1>3, <1>4, <1>5, <1>6, <1>7, RestartStands
<1> QED
  BY <1>8 DEF body

LEMMA CrashStands ==
  ASSUME NoneIsNoMap, UploadInv, origin = 0, origin' = 0, Restart
  PROVE  WholeInv' /\ Stands' /\ Rises /\ CompletesStay
<1>1. Reload(Files, cache) /\ UNCHANGED <<clientVars, requests>>
  BY RestartFinds DEF UploadInv
<1>2. EndsInOrder(sessions, cache) /\ OwnSamples(sessions, cache) /\ Len(cache) \in Nat
  BY WholeFacts DEF UploadInv, WholeInv
<1>3. StreamsInv'
  BY LedgerCrash DEF UploadInv, WholeInv, Restart
<1>4. Len(cache) <= Len(cache)
  BY <1>2
<1>5. PICK body : body = [kind |-> "none"]
  OBVIOUS
<1>6. body.kind # "close"
  BY <1>5
<1>7. WholeInv' /\ Stands' /\ StreamsStand(body)
  BY <1>1, <1>2, <1>3, <1>4, <1>6, RestartStands
<1> QED
  BY <1>7 DEF StreamsStand

-----------------------------------------------------------------------------
(* A thread's step, and where the streams stand for it *)

SameStreams == UNCHANGED <<sessions, cache, origin, counted>>

LEMMA SameStreamsStand ==
  ASSUME SameStreams
  PROVE  /\ \A i, position : Reaches(i, position)' <=> Reaches(i, position)
         /\ \A body, m : AnswerStands(body, m)' <=> AnswerStands(body, m)
<1>1. \A i, position : Reaches(i, position)' <=> Reaches(i, position)
  BY DEF SameStreams, Reaches, ResumeSample, Position, SaturatingSub
<1> QED
  BY <1>1 DEF AnswerStands, SameStreams

\* A thread that ends stays ended, and no Mark of it is forgotten before the next
\* logical stream: the rest is about its own session and its new message.
LEMMA OwnStands ==
  ASSUME UploadInv, NEW c \in Client, SameStreams, Others(c),
         Ending(c) => Ending(c)', suffix[c] <= suffix'[c], suffix'[c] \in Nat,
         LinkStands(c)', IsClose(c)' => RequestStands(Sent(c))',
         \A r \in requests' : r \in requests \/ RequestStands(r.body)',
         \A r, s \in requests' : NotBoth(r, s),
         \A r \in requests :
           Sending(c) /\ Sent(c) = r.body /\ r.body.kind = "mark" /\ r.body.stream # 0 =>
             \/ sessions[r.body.stream].key[2] < suffix'[c]
             \/ Sending(c)' /\ Sent(c)' = r.body,
         Sending(c)' => reply'[c] = None,
         EpochsStand'
  PROVE  Stands'
<1>1. /\ Stands /\ ClientTypes /\ WholeInv
      /\ \A i \in DOMAIN sessions : sessions[i] \in Session
  BY DEF UploadInv, SyncInv, Inv, TypeOK, SessionsTypeOK, IsSessionMap
<1>2. /\ \A i, position : Reaches(i, position)' <=> Reaches(i, position)
      /\ \A body, m : AnswerStands(body, m)' <=> AnswerStands(body, m)
      /\ UNCHANGED sessions
  BY SameStreamsStand DEF SameStreams
<1>3. ASSUME NEW d \in Client, d # c
      PROVE  /\ pc'[d] = pc[d] /\ waiting'[d] = waiting[d] /\ suffix'[d] = suffix[d]
             /\ link'[d] = link[d] /\ reply'[d] = reply[d]
  BY <1>3 DEF Others
<1>4. ASSUME NEW d \in Client, d # c
      PROVE  /\ Sending(d)' <=> Sending(d)
             /\ Sent(d)' = Sent(d) /\ (Ending(d)' <=> Ending(d)) /\ (IsClose(d)' <=> IsClose(d))
  BY <1>3, <1>4 DEF Sending, Sent, Ending, IsClose
<1>5. ASSUME NEW d \in Client, Ending(d)
      PROVE  Ending(d)'
  BY <1>4, <1>5
<1>6. ASSUME NEW body \in Message, RequestStands(body),
             body.kind = "mark" => \E r \in requests : r.body = body
      PROVE  RequestStands(body)'
  <2>1. body.from \in Client
    BY MessageParts
  <2>2. body.kind = "close" =>
          Ending(body.from)' /\ (body.stream # 0 => Reaches(body.stream, body.final)')
    BY <1>2, <1>5, <1>6, <2>1 DEF RequestStands
  <2>3. ASSUME body.kind = "mark", body.stream # 0
        PROVE  \/ sessions[body.stream].key[2] < suffix'[body.from]
               \/ Sending(body.from)' /\ Sent(body.from)' = body
    <3>1. CASE body.from # c
      BY <1>3, <1>4, <1>6, <2>1, <2>3, <3>1 DEF RequestStands
    <3>2. CASE body.from = c
      <4>1. CASE Sending(c) /\ Sent(c) = body
        <5>1. \/ sessions[body.stream].key[2] < suffix'[c]
              \/ Sending(c)' /\ Sent(c)' = body
          BY <1>6, <2>3, <4>1
        <5> QED
          BY <3>2, <5>1
      <4>2. CASE ~(Sending(c) /\ Sent(c) = body)
        <5>1. sessions[body.stream].key[2] < suffix[c] /\ body.stream \in DOMAIN sessions
          BY <1>6, <2>3, <3>2, <4>2 DEF RequestStands
        <5>2. sessions[body.stream].key[2] \in Nat /\ suffix[c] \in Nat
          BY <1>1, <5>1 DEF Session, ClientKey, ClientTypes
        <5> QED
          BY <3>2, <5>1, <5>2
      <4> QED
        BY <4>1, <4>2
    <3> QED
      BY <3>1, <3>2
  <2> QED
    BY <1>2, <1>6, <2>2, <2>3 DEF RequestStands
<1>7. \A r \in requests' : RequestStands(r.body)'
  <2>1. ASSUME NEW r \in requests
        PROVE  RequestStands(r.body)'
    <3>1. r.body \in Message /\ RequestStands(r.body)
      BY <1>1, RequestParts DEF ClientTypes, Stands
    <3> QED
      BY <1>6, <3>1
  <2> QED
    BY <2>1
<1>8. ASSUME NEW d \in Client
      PROVE  LinkStands(d)' /\ (IsClose(d)' => RequestStands(Sent(d))')
  <2>1. CASE d = c
    BY <2>1
  <2>2. CASE d # c
    <3>1. LinkStands(d)'
      BY <1>1, <1>2, <1>3, <2>2 DEF Stands, LinkStands, HasLink
    <3>2. ASSUME IsClose(d), NEW body, body = Sent(d)
          PROVE  RequestStands(body)'
      <4>1. waiting[d] \in Request
        BY <3>2 DEF UploadInv, SyncInv, Inv, TypeOK, ExchangesTypeOK, ClientTypes, IsClose
      <4>2. body \in Message /\ body.kind = "close" /\ RequestStands(body)
        BY <1>1, <3>2, <4>1, RequestParts DEF Stands, Sent, IsClose
      <4> QED
        BY <1>6, <4>2
    <3>3. Sent(d)' = Sent(d) /\ (IsClose(d)' <=> IsClose(d))
      BY <1>4, <2>2
    <3>4. IsClose(d) => RequestStands(Sent(d))'
      BY <3>2, <3>3 DEF RequestStands
    <3> QED
      BY <3>1, <3>3, <3>4
  <2> QED
    BY <2>1, <2>2
<1>9. RepliesStand'
  <2>1. ASSUME NEW d \in Client, Sending(d)', reply'[d] # None, reply'[d].code = 200,
               NEW body, body = Sent(d)', NEW m, m = reply'[d].message
        PROVE  AnswerStands(body, m)'
    <3>1. d # c
      BY <2>1
    <3>2. Sending(d) /\ reply'[d] = reply[d] /\ body = Sent(d)
      BY <1>3, <1>4, <2>1, <3>1
    <3> QED
      BY <1>1, <1>2, <2>1, <3>2 DEF Stands, RepliesStand
  <2> QED
    BY <2>1 DEF RepliesStand
<1>10. CompletesAreLast'
  <2>1. ASSUME NEW i \in DOMAIN sessions, Complete(sessions[i]), NEW d, d = sessions[i].key[1]
        PROVE  Ending(d)'
    <3>1. d \in Client /\ Ending(d)
      BY <1>1, <2>1 DEF Session, ClientKey, Stands, CompletesAreLast
    <3> QED
      BY <1>5, <3>1
  <2> QED
    BY <1>2, <2>1 DEF CompletesAreLast
<1>11. \A r, s \in requests' : NotBoth(r, s)'
  BY DEF NotBoth
<1> QED
  BY <1>7, <1>8, <1>9, <1>10, <1>11 DEF Stands

\* Without the server: the thread has no message out, and keeps its place or none.
LEMMA GoesOnStands ==
  ASSUME UploadInv, NEW c \in Client, GoesOn(c)
  PROVE  Stands'
<1>1. /\ Stands /\ SameStreams /\ Others(c) /\ UNCHANGED <<epochs, requests>>
      /\ suffix[c] \in Nat /\ suffix'[c] = suffix[c]
  BY DEF UploadInv, SyncInv, ClientTypes, GoesOn, SameStreams
<1>2. ~Ending(c) /\ ~Sending(c) /\ ~Sending(c)' /\ ~IsClose(c)'
  BY DEF GoesOn, Ending, IsClose, Sending
<1>3. LinkStands(c)'
  <2>1. link'[c] = link[c] \/ link'[c] = None
    BY DEF GoesOn
  <2>2. None \notin Link
    BY SyncConstants
  <2>3. ASSUME HasLink(c)', link'[c].stream # 0
        PROVE  /\ link'[c] = link[c] /\ HasLink(c) /\ Reaches(link[c].stream, link[c].next)
               /\ pc'[c] \in {"idle", "read", "sending"} =>
                    sessions[link[c].stream].key = <<c, suffix[c]>>
    <3>1. link'[c] = link[c] /\ HasLink(c)
      BY <2>1, <2>2, <2>3 DEF HasLink
    <3>2. pc'[c] \in {"idle", "read", "sending"} => pc[c] \in {"idle", "read"}
      BY <1>2, <2>2, <2>3, <3>1 DEF GoesOn, Sending, HasLink
    <3> QED
      BY <1>1, <2>3, <3>1, <3>2 DEF Stands, LinkStands
  <2> QED
    BY <1>1, <2>3, SameStreamsStand DEF LinkStands, SameStreams
<1>4. EpochsStand'
  BY <1>1, SameStreamsStand DEF Stands, EpochsStand
<1>5. suffix[c] <= suffix'[c]
  BY <1>1
<1> QED
  BY <1>1, <1>2, <1>3, <1>4, <1>5, OwnStands DEF Stands

\* With an answer: a session goes on where the answer says that its stream stands, and a
\* Mark is followed by the next logical stream.
LEMMA HangsUpStands ==
  ASSUME UploadInv, NEW c \in Client, HangsUp(c)
  PROVE  Stands'
<1>1. /\ Stands /\ SameStreams /\ Others(c) /\ UNCHANGED <<epochs, requests>>
      /\ suffix[c] \in Nat /\ suffix'[c] \in {suffix[c], suffix[c] + 1}
      /\ HasLink(c) /\ Exchange(c) /\ Sending(c)
  BY DEF UploadInv, SyncInv, ClientTypes, HangsUp, SameStreams, Exchanges
<1>2. ~Sending(c)' /\ ~IsClose(c)' /\ (Ending(c) => Ending(c)')
  BY DEF HangsUp, Ending, IsClose, Sending
<1>3. LinkStands(c)'
  <2> SUFFICES ASSUME HasLink(c)', link'[c].stream # 0
               PROVE  /\ Reaches(link'[c].stream, link'[c].next)
                      /\ pc'[c] \in {"idle", "read", "sending"} =>
                           sessions[link'[c].stream].key = <<c, suffix'[c]>>
    BY <1>1, SameStreamsStand DEF LinkStands, SameStreams
  <2>1. link'[c] # None
    BY SyncConstants DEF HasLink
  <2>2. CASE link'[c] = link[c] /\ pc'[c] \in {"challenge", "done"}
    BY <1>1, <2>2 DEF Stands, LinkStands
  <2>3. CASE /\ reply[c] # None /\ reply[c].code = 200 /\ link'[c].next = reply[c].message.next
             /\ Sent(c).kind = "pcm" /\ link'[c].stream = link[c].stream
    <3>1. AnswerStands(Sent(c), reply[c].message) /\ Sent(c).stream = link[c].stream
      BY <1>1, <2>3 DEF Stands, RepliesStand, Exchange
    <3>2. Reaches(link'[c].stream, link'[c].next)
      BY <2>3, <3>1 DEF AnswerStands
    <3>3. sessions[link'[c].stream].key = <<c, suffix[c]>>
      BY <1>1, <2>3 DEF Stands, LinkStands, Sending
    <3>4. suffix'[c] = suffix[c]
      BY <2>3 DEF HangsUp
    <3> QED
      BY <3>2, <3>3, <3>4
  <2>4. CASE /\ reply[c] # None /\ reply[c].code = 200 /\ link'[c].next = reply[c].message.next
             /\ Sent(c).kind = "open" /\ reply[c].message.status = "ok"
             /\ link'[c].stream = reply[c].message.stream
    <3>1. AnswerStands(Sent(c), reply[c].message) /\ Sent(c).key = <<c, suffix[c]>>
      BY <1>1, <2>4 DEF Stands, RepliesStand, Exchange
    <3>2. Reaches(link'[c].stream, link'[c].next) /\ sessions[link'[c].stream].key = Sent(c).key
      BY <2>4, <3>1 DEF AnswerStands
    <3>3. suffix'[c] = suffix[c]
      BY <2>4 DEF HangsUp
    <3> QED
      BY <3>1, <3>2, <3>3
  <2> QED
    BY <2>1, <2>2, <2>3, <2>4 DEF HangsUp
<1>4. ASSUME NEW r \in requests, Sent(c) = r.body, r.body.kind = "mark", r.body.stream # 0
      PROVE  sessions[r.body.stream].key[2] < suffix'[c]
  <2>1. r.body.stream = link[c].stream /\ suffix'[c] = suffix[c] + 1
    BY <1>1, <1>4 DEF Exchange, HangsUp
  <2>2. sessions[link[c].stream].key = <<c, suffix[c]>>
    BY <1>1, <1>4, <2>1 DEF Stands, LinkStands, Sending
  <2> QED
    BY <1>1, <2>1, <2>2
<1>5. EpochsStand'
  BY <1>1, SameStreamsStand DEF Stands, EpochsStand
<1>6. suffix[c] <= suffix'[c] /\ suffix'[c] \in Nat
  BY <1>1
<1> QED
  BY <1>1, <1>2, <1>3, <1>4, <1>5, <1>6, OwnStands DEF Stands

\* A new message names the stream of its session and where that stands.
LEMMA SendsStands ==
  ASSUME UploadInv, NEW c \in Client, Sends(c)
  PROVE  Stands'
<1> DEFINE new == waiting'[c]
<1>1. /\ Stands /\ SameStreams /\ Others(c) /\ requests' = requests \cup {new}
      /\ suffix[c] \in Nat /\ suffix'[c] = suffix[c] /\ pc'[c] = "sending" /\ reply'[c] = None
      /\ Exchange(c) /\ new.body.from = c /\ new \in Request /\ SyncInv /\ Owners /\ ClientTypes
      /\ link'[c] \in Link /\ epochs \in [Epoch -> EpochState] /\ link'[c].epoch \in Epoch
  BY DEF UploadInv, SyncInv, ClientTypes, Sends, SameStreams, Exchanges, Inv, TypeOK,
         ExchangesTypeOK, Link
<1>2. Sent(c)' = new.body /\ Sending(c)' /\ suffix[c] <= suffix'[c] /\ suffix'[c] \in Nat
  BY <1>1 DEF Sent, Sending
<1>3. new.body \in Message
  BY <1>1, RequestParts
<1>4. \/ Resends(c) /\ Sending(c) /\ link'[c] = link[c] /\ new.body = Sent(c) /\ HasLink(c)
      \/ SendsOn(c) /\ ~Sending(c) /\ ~Ending(c) /\ link'[c] = link[c] /\ HasLink(c)
      \/ Opens(c) /\ ~Sending(c) /\ ~Ending(c)
  BY <1>1 DEF Sends, Resends, SendsOn, Opens, Sending, Ending, IsClose, ClientTypes
<1>5. Ending(c) => Ending(c)'
  BY <1>2, <1>4 DEF Ending, IsClose, Sending
<1>6. LinkStands(c)'
  <2>1. CASE link'[c] = link[c] /\ HasLink(c) /\ pc[c] \in {"idle", "read", "sending"}
    BY <1>1, <2>1, SameStreamsStand DEF Stands, LinkStands, SameStreams, HasLink
  <2>2. CASE Opens(c)
    BY <2>2 DEF Opens, LinkStands
  <2> QED
    BY <1>4, <2>1, <2>2 DEF SendsOn, Sending
<1>7. ASSUME ~Opens(c)
      PROVE  /\ new.body.kind \in {"pcm", "close", "mark"} => new.body.stream = link[c].stream
             /\ new.body.kind \in {"pcm", "close", "mark"} /\ link[c].stream # 0 =>
                  /\ Reaches(link[c].stream, link[c].next)
                  /\ sessions[link[c].stream].key = <<c, suffix[c]>>
  BY <1>1, <1>4, <1>7 DEF Resends, SendsOn, Exchange, Stands, LinkStands, Sending
<1>8. new.body.kind = "mark" => ~Ending(c)
  BY <1>1, <1>4 DEF Ending, IsClose, Sending
<1>9. ASSUME NEW body, body = new.body
      PROVE  RequestStands(body)'
  <2>1. body.kind \in {"pcm", "close", "mark"} /\ body.stream # 0 =>
          /\ body.stream = link[c].stream /\ body.stream \in DOMAIN sessions
          /\ sessions[body.stream].key = <<c, suffix[c]>>
    BY <1>7, <1>9 DEF Reaches, Opens
  <2>2. ASSUME body.kind = "close"
        PROVE  Ending(body.from)' /\ (body.stream # 0 => Reaches(body.stream, body.final))
    <3>1. IsClose(c)' /\ body.from = c
      BY <1>1, <1>2, <1>9, <2>2 DEF IsClose
    <3>2. body.stream # 0 => Reaches(body.stream, body.final)
      <4>1. CASE Resends(c)
        BY <1>1, <1>4, <1>9, <2>2, <4>1 DEF Stands, RequestStands, IsClose, Resends
      <4>2. CASE SendsOn(c)
        <5>1. body.final = link[c].next
          BY <1>9, <2>2, <4>2 DEF SendsOn
        <5>2. ~Opens(c)
          BY <1>9, <2>2 DEF Opens
        <5> QED
          BY <1>7, <1>9, <2>1, <2>2, <5>1, <5>2
      <4> QED
        BY <1>4, <1>9, <2>2, <4>1, <4>2 DEF Opens
    <3> QED
      BY <3>1, <3>2 DEF Ending
  <2>3. ASSUME body.kind = "mark", body.stream # 0
        PROVE  ~Complete(sessions[body.stream]) /\ Sending(body.from)' /\ Sent(body.from)' = body
    <3>1. ~Complete(sessions[body.stream])
      BY <1>1, <1>8, <1>9, <2>1, <2>3 DEF Stands, CompletesAreLast
    <3> QED
      BY <1>1, <1>2, <1>9, <3>1
  <2> QED
    BY <1>1, <2>1, <2>2, <2>3, SameStreamsStand DEF RequestStands, SameStreams
<1>10. ASSUME NEW r \in requests, r.body.kind \in {"close", "mark"},
              new.body.kind \in {"close", "mark"}, new.body.stream # 0,
              r.body.stream = new.body.stream
       PROVE  /\ r.body.from = c
              /\ sessions[r.body.stream].key = <<c, suffix[c]>>
              /\ RequestStands(r.body)
  <2>1. ~Opens(c)
    BY <1>10 DEF Opens
  <2>2. sessions[r.body.stream].key = <<c, suffix[c]>> /\ r.body.stream \in DOMAIN sessions
    BY <1>7, <1>10, <2>1 DEF Reaches
  <2>3. OwnedRequest(r.body) /\ RequestStands(r.body)
    BY <1>1 DEF Owners, Stands
  <2> QED
    BY <1>10, <2>2, <2>3 DEF OwnedRequest, IsStreamOf
<1>11. ASSUME NEW r \in requests', NEW s \in requests'
       PROVE  NotBoth(r, s)
  <2> SUFFICES ASSUME r.body.kind = "close", s.body.kind = "mark",
                      r.body.stream = s.body.stream, r.body.stream # 0
               PROVE  FALSE
    BY DEF NotBoth
  <2>1. CASE r \in requests /\ s \in requests
    BY <1>1, <2>1 DEF Stands, NotBoth
  <2>2. CASE r = new /\ s \in requests
    <3>1. /\ s.body.from = c /\ sessions[s.body.stream].key = <<c, suffix[c]>>
          /\ RequestStands(s.body)
      BY <1>10, <2>2
    <3>2. ~(Sending(c) /\ Sent(c) = s.body)
      BY <1>4, <2>2
    <3>3. sessions[s.body.stream].key[2] < suffix[c]
      BY <3>1, <3>2 DEF RequestStands
    <3> QED
      BY <1>1, <3>1, <3>3
  <2>3. CASE r \in requests /\ s = new
    <3>1. r.body.from = c /\ RequestStands(r.body)
      BY <1>10, <2>3
    <3> QED
      BY <1>8, <2>3, <3>1 DEF RequestStands
  <2> QED
    BY <1>1, <1>11, <2>1, <2>2, <2>3
<1>12. EpochsStand'
  <2>1. CASE UNCHANGED epochs
    BY <1>1, <2>1, SameStreamsStand DEF Stands, EpochsStand
  <2>2. CASE Opens(c)
    <3>1. \A e \in Epoch : epochs'[e].expected > 0 => epochs'[e] = epochs[e]
      BY <1>1, <2>2 DEF Opens, FreshEpoch, IdleEpoch
    <3> QED
      BY <1>1, <3>1, SameStreamsStand DEF Stands, EpochsStand
  <2> QED
    BY <1>4, <2>1, <2>2 DEF Resends, SendsOn
<1>13. \A r \in requests : Sending(c) /\ Sent(c) = r.body => Sent(c)' = r.body
  BY <1>2, <1>4
<1>14. \A r \in requests' : r \in requests \/ RequestStands(r.body)'
  <2>1. ASSUME NEW r \in requests', r \notin requests
        PROVE  RequestStands(r.body)'
    BY <1>1, <1>9, <2>1
  <2> QED
    BY <2>1
<1>15. IsClose(c)' => RequestStands(Sent(c))'
  BY <1>2, <1>9 DEF Sent
<1> QED
  BY <1>1, <1>2, <1>5, <1>6, <1>11, <1>12, <1>13, <1>14, <1>15, OwnStands

\* Every step of a thread is one of these three.
LEMMA ThreadMoves ==
  ASSUME SyncInv, NEW c \in Client,
         Start(c) \/ ClientStep(c) \/ ChallengeFails(c) \/ ExchangeFails(c)
  PROVE  Moves(c)
BY StartStep, ExitStep, ReconnectStep, EstablishStep, LookStep, SendChunkStep, ReceiveStep,
   AttemptFailsStep, ChallengeFailsStep
   DEF ClientStep, Moves, RefusedAttempt, ExchangeFails

LEMMA ThreadStands ==
  ASSUME UploadInv, NEW c \in Client,
         Start(c) \/ ClientStep(c) \/ ChallengeFails(c) \/ ExchangeFails(c)
  PROVE  Stands' /\ UNCHANGED streamVars
<1>1. Moves(c)
  BY ThreadMoves DEF UploadInv
<1>2. UNCHANGED streamVars
  BY <1>1 DEF Moves, GoesOn, HangsUp, Sends
<1>3. Stands'
  BY <1>1, GoesOnStands, HangsUpStands, SendsStands DEF Moves
<1> QED
  BY <1>2, <1>3

\* A stop, a new sample, a lost copy and an expired epoch move nothing.
LEMMA QuietStands ==
  ASSUME UploadInv, origin = 0, origin' = 0, requests' \subseteq requests,
         UNCHANGED <<streamVars, waiting, reply, pc, suffix, link>>,
         \A e \in Epoch : /\ epochs'[e].expected = epochs[e].expected
                          /\ epochs'[e].last = epochs[e].last
                          /\ epochs'[e].answer = epochs[e].answer
  PROVE  Stands'
<1>1. WholeInv /\ Stands /\ SameStreams /\ Len(cache) \in Nat /\ cache' = cache
  BY WholeFacts DEF UploadInv, SameStreams
<1>2. PICK body : body = [kind |-> "none"]
  OBVIOUS
<1>3. Settler(body)
  BY <1>2 DEF Settler
<1>4. StreamsStand(body)
  <2>1. CountsAgree'
    BY <1>1 DEF WholeInv, StreamsInv, Saved, CountsAgree
  <2>2. Rises /\ Settles(body) /\ CompletesStay
    BY <1>1, <2>1, SameStreamsRise
  <2> QED
    BY <1>1, <2>2 DEF StreamsStand, WholeInv
<1>5. EpochsStand'
  BY <1>1, SameStreamsStand DEF Stands, EpochsStand
<1>6. RepliesStand'
  BY <1>1, SameStreamsStand DEF Stands, RepliesStand, Sending, Sent
<1> QED
  BY <1>3, <1>4, <1>5, <1>6, ServerStands DEF Stands

\* Every step keeps the invariant, lets no stream move back, and leaves a complete one as it
\* is.
LEMMA UploadNext ==
  ASSUME FilesAreWritten, NoneIsNoMap, UploadInv, origin = 0, origin' = 0, [SyncNext]_vars
  PROVE  UploadInv' /\ Rises /\ CompletesStay
<1>1. SyncInv' /\ Inv' /\ WholeInv
  BY SyncNextInv DEF UploadInv, SyncInv
<1>2. ASSUME UNCHANGED streamVars, Stands'
      PROVE  UploadInv' /\ Rises /\ CompletesStay
  <2>1. WholeInv' /\ CountsAgree'
    BY <1>1, <1>2 DEF WholeInv, StreamsInv, Saved, CountsAgree
  <2>2. Len(cache) \in Nat /\ cache' = cache
    BY <1>1, <1>2, WholeFacts
  <2>3. PICK body : body = [kind |-> "none"]
    OBVIOUS
  <2>4. Rises /\ CompletesStay
    BY <1>1, <1>2, <2>1, <2>2, SameStreamsRise
  <2> QED
    BY <1>1, <1>2, <2>1, <2>4 DEF UploadInv
<1>3. ASSUME NEW c \in Client,
             Start(c) \/ ClientStep(c) \/ ChallengeFails(c) \/ ExchangeFails(c)
      PROVE  UploadInv' /\ Rises /\ CompletesStay
  BY <1>2, <1>3, ThreadStands
<1>4. ASSUME UNCHANGED <<streamVars, waiting, reply, pc, suffix, link>>, requests' \subseteq requests,
             \A e \in Epoch : /\ epochs'[e].expected = epochs[e].expected
                              /\ epochs'[e].last = epochs[e].last
                              /\ epochs'[e].answer = epochs[e].answer
      PROVE  UploadInv' /\ Rises /\ CompletesStay
  BY <1>2, <1>4, QuietStands
<1>5. CASE \/ \E c \in Client : Stop(c)
           \/ \E req \in requests : LoseRequest(req)
           \/ Record
           \/ UNCHANGED vars
  <2>1. UNCHANGED <<serverVars, pc, suffix, link>> /\ requests' \subseteq requests
    BY <1>5 DEF Stop, LoseRequest, Record, vars
  <2> QED
    BY <1>4, <2>1
<1>6. ASSUME NEW e \in Epoch, Expire(e)
      PROVE  UploadInv' /\ Rises /\ CompletesStay
  <2>1. UNCHANGED <<streamVars, waiting, reply, pc, suffix, link, requests>>
    BY <1>6 DEF Expire, ExpireEpoch
  <2>2. \A f \in Epoch : /\ epochs'[f].expected = epochs[f].expected
                         /\ epochs'[f].last = epochs[f].last
                         /\ epochs'[f].answer = epochs[f].answer
    BY <1>1, <1>6 DEF Expire, ExpireEpoch, WholeInv, StreamsInv, Inv, TypeOK, ExchangesTypeOK, EpochState
  <2> QED
    BY <1>4, <2>1, <2>2
<1>7. ASSUME NEW req \in requests, Deliver(req)
      PROVE  UploadInv' /\ Rises /\ CompletesStay
  <2>1. Takes(req)
    BY <1>7 DEF Deliver, Takes, ProcessEnvelope, CrashInPush, CrashInPersist, Reload
  <2>2. ~CrashInPersist(req)
    BY DEF CrashInPersist, Fault, FilesAreWritten
  <2>3. WholeInv' /\ Stands' /\ StreamsStand(req.body)
    BY <1>7, <2>1, <2>2, EnvelopeStands, CrashInPushStands DEF Deliver
  <2> QED
    BY <1>1, <2>3 DEF UploadInv, StreamsStand
<1>8. CASE Restart
  BY <1>1, <1>8, CrashStands DEF UploadInv
<1> QED
  BY <1>3, <1>5, <1>6, <1>7, <1>8 DEF SyncNext

LEMMA UploadInit == SyncInit => UploadInv
<1> SUFFICES ASSUME SyncInit PROVE UploadInv
  OBVIOUS
<1>1. SyncInv /\ Inv
  BY SyncInitInv DEF SyncInv
<1>2. DOMAIN sessions = {} /\ sessions \in [DOMAIN sessions -> Session]
  BY DEF SyncInit, Init, NoSessions
<1>3. WholeInv
  BY <1>1, <1>2 DEF SyncInit, Init, WholeInv, StreamsInv, Saved, CountsAgree, Ledger, InOrder, Contiguous,
                    EndsInOrder, OwnSamples
<1>4. \A c \in Client : ~HasLink(c) /\ ~Sending(c)
  BY SyncConstants DEF SyncInit, HasLink, Sending
<1>5. \A e \in Epoch : ~(epochs[e].expected > 0)
  BY DEF SyncInit, Init, IdleEpoch
<1>6. Stands
  BY <1>2, <1>4, <1>5 DEF SyncInit, Stands, LinkStands, IsClose, RepliesStand, EpochsStand,
                          CompletesAreLast
<1> QED
  BY <1>1, <1>3, <1>6 DEF UploadInv

\* The second invariant: as long as the JSON files and the PCM are written and the cache
\* is not renumbered.  A segment file that cannot be created, a manifest that cannot be
\* written and a crash in the middle of a chunk are among the steps.
THEOREM UploadInvariance ==
  ASSUME FilesAreWritten, NoneIsNoMap
  PROVE  SyncSpec /\ [](origin = 0) => []UploadInv
<1>1. UploadInv /\ origin = 0 /\ (origin = 0)' /\ [SyncNext]_vars => UploadInv'
  BY UploadNext
<1> QED
  BY <1>1, UploadInit, PTL DEF SyncSpec

LEMMA AckedStand ==
  ASSUME UploadInv, NEW c \in Client, link[c] # None, link[c].stream # 0
  PROVE  /\ link[c].stream \in DOMAIN sessions
         /\ sessions[link[c].stream].key[1] = c
         /\ link[c].next <= ResumeSample(sessions[link[c].stream])
<1>1. HasLink(c)
  BY DEF UploadInv, SyncInv, ClientTypes, HasLink
<1>2. Reaches(link[c].stream, link[c].next)
  BY <1>1 DEF UploadInv, Stands, LinkStands
<1>3. IsStreamOf(link[c].stream, c)
  BY <1>1 DEF UploadInv, SyncInv, Owners
<1> QED
  BY <1>2, <1>3 DEF Reaches, IsStreamOf

\* What the server has acknowledged it has, whichever copies were lost, late or sent again
\* and however often it was restarted, as long as no write or flush of its JSON files and
\* its PCM fails: a client's stream is there, is that client's, and stands no lower than
\* the position the client goes on from.
THEOREM AcknowledgedIsStored ==
  ASSUME FilesAreWritten, NoneIsNoMap
  PROVE  SyncSpec /\ [](origin = 0) => []AckedIsStored
<1>1. UploadInv => AckedIsStored
  BY AckedStand DEF AckedIsStored
<1> QED
  BY <1>1, UploadInvariance, PTL

\* A stream a client was told about is in upload-sessions.json at any time, so a server
\* that is killed now finds it when it is started again.
THEOREM AcknowledgedStreamsAreSaved ==
  ASSUME FilesAreWritten, NoneIsNoMap
  PROVE  SyncSpec /\ [](origin = 0) => []AckedStreamsAreSaved
<1>1. ASSUME UploadInv
      PROVE  AckedStreamsAreSaved
  <2>1. Saved /\ DOMAIN sessions \in SUBSET Nat
    BY <1>1 DEF UploadInv, WholeInv, StreamsInv, Inv, TypeOK, SessionsTypeOK, IsSessionMap
  <2>2. sessions # None
    BY <2>1 DEF Saved, NoneIsNoMap
  <2>3. ASSUME NEW c \in Client, link[c] # None, link[c].stream # 0
        PROVE  savedSessions # None /\ link[c].stream \in DOMAIN savedSessions
    BY <1>1, <2>1, <2>2, <2>3, AckedStand DEF Saved
  <2> QED
    BY <2>3 DEF AckedStreamsAreSaved
<1> QED
  BY <1>1, UploadInvariance, PTL

\* The cache of the real clients' traffic is contiguous in every stream's part, as long as
\* no write or flush of the JSON files and the PCM fails.
THEOREM SyncStreamsStayContiguous ==
  ASSUME FilesAreWritten, NoneIsNoMap
  PROVE  SyncSpec /\ [](origin = 0) => []StreamsAreContiguous
<1>1. UploadInv /\ origin = 0 => StreamsAreContiguous
  BY LedgerIsContiguous DEF UploadInv, WholeInv, StreamsInv
<1> QED
  BY <1>1, UploadInvariance, PTL

\* A stream closed as complete holds exactly its recording from its source position on, all
\* of it its own client's: a late Close takes in nothing that a newer upload has written.
\* Where a flush of PCM fails a segment's end may be missing in its middle.
THEOREM CompleteStreamsStayWhole ==
  ASSUME FilesAreWritten, NoneIsNoMap
  PROVE  SyncSpec /\ [](origin = 0) => []CompleteStreamsAreWhole
<1>1. ASSUME UploadInv, origin = 0
      PROVE  CompleteStreamsAreWhole
  <2> SUFFICES ASSUME NEW i \in DOMAIN sessions, sessions[i].closed, ~sessions[i].incomplete,
                      NEW n \in (sessions[i].start + 1)..sessions[i].end
               PROVE  cache[origin + n] =
                        <<sessions[i].key[1], sessions[i].source + (n - sessions[i].start - 1)>>
    BY DEF CompleteStreamsAreWhole
  <2> DEFINE s == sessions[i]
  <2>1. /\ WholeInv /\ Len(cache) \in Nat /\ cache \in Seq(Client \X Nat)
        /\ s.start \in Nat /\ s.source \in Nat /\ (s.end # None => s.end \in Nat)
        /\ \A j \in DOMAIN sessions : j \in Nat /\ sessions[j].start \in Nat
    BY <1>1, WholeFacts DEF UploadInv
  <2>2. /\ s.end # None /\ s.end <= Len(cache)
        /\ \A j \in DOMAIN sessions : i < j => s.end <= sessions[j].start
    BY <2>1 DEF WholeInv, EndsInOrder, Complete
  <2>3. n \in Nat /\ s.start < n /\ n <= s.end
    BY <2>1, <2>2
  <2>4. \A j \in DOMAIN sessions : j > i => n <= sessions[j].start
    BY <2>1, <2>2, <2>3
  <2>5. InPart(sessions, cache, i, n) /\ n \in 1..Len(cache)
    BY <2>1, <2>2, <2>3, <2>4 DEF InPart
  <2>6. cache[n] \in Client \X Nat
    BY <2>1, <2>5
  <2>7. cache[n][1] = s.key[1] /\ cache[n][2] = s.source + (n - s.start - 1)
    BY <2>1, <2>3, <2>5 DEF WholeInv, OwnSamples, StreamsInv, Ledger, Contiguous
  <2> HIDE DEF s
  <2>8. origin + n = n
    BY <1>1, <2>3
  <2>9. cache[n] = <<s.key[1], s.source + (n - s.start - 1)>>
    BY <2>6, <2>7
  <2> QED
    BY <2>8, <2>9 DEF s
<1> QED
  BY <1>1, UploadInvariance, PTL

\* No step, a restart included, moves back the position an open stream stands at, as long
\* as no PCM that is counted fails to be written.
THEOREM PositionsStandOrRise ==
  ASSUME FilesAreWritten, NoneIsNoMap
  PROVE  SyncSpec /\ [](origin = 0) => PositionsNeverRewind
<1>1. UploadInv /\ origin = 0 /\ (origin = 0)' /\ [SyncNext]_vars =>
        [\A i \in DOMAIN sessions \cap DOMAIN sessions' :
           IsOpen(sessions[i]) => ResumeSample(sessions[i])' >= ResumeSample(sessions[i])]_vars
  BY UploadNext DEF Rises
<1> QED
  BY <1>1, UploadInvariance, PTL DEF PositionsNeverRewind, SyncSpec

\* A stream that was closed as complete stays as it is: no late copy, no Mark, no new logical
\* stream and no restart touches it.
THEOREM CompleteStreamsAreSettled ==
  ASSUME FilesAreWritten, NoneIsNoMap
  PROVE  SyncSpec /\ [](origin = 0) => CompleteStreamsStay
<1>1. UploadInv /\ origin = 0 /\ (origin = 0)' /\ [SyncNext]_vars =>
        [\A i \in DOMAIN sessions :
           sessions[i].closed /\ ~sessions[i].incomplete =>
             i \in DOMAIN sessions' /\ sessions'[i] = sessions[i]]_vars
  BY UploadNext DEF CompletesStay, Complete
<1> QED
  BY <1>1, UploadInvariance, PTL DEF CompleteStreamsStay, SyncSpec

-----------------------------------------------------------------------------
(* What implements UploadLog *)

(* The local window holds all that is ever recorded, so an upload never gives  *)
(* up a position and a client has one logical stream.  The rest bounds every   *)
(* position somebody names: it lies between the client's start and the end of  *)
(* the recording.                                                              *)

RecorderKeepsAll == LocalWindow >= MaxSample

Recorded(c, position) == start[c] <= position /\ position <= total

\* No message asks to give up a stream, or reaches beyond the recording.
Asks(body) ==
  /\ body.kind # "mark"
  /\ body.kind = "open" => body.source <= total
  /\ body.kind = "pcm" => body.start + body.count <= total

\* An answer offers a position of the asking client's recording.
Tells(body, m) ==
  /\ body.from \in Client /\ pc[body.from] # "off"
  /\ body.kind \in {"open", "pcm"} /\ m.status \in {"ok", "gap"} => Recorded(body.from, m.next)

Within(c) ==
  /\ suffix[c] = 0 /\ want[c] <= total /\ (seen[c] # None => seen[c] <= total)
  /\ HasLink(c) => Recorded(c, link[c].next)
  /\ Sending(c) => Asks(Sent(c))

Told(c) == Sending(c) /\ reply[c] # None /\ reply[c].code = 200 => Tells(Sent(c), reply[c].message)

\* Where a stream stands if the log holds all that was appended.
StandsAt(s, log) == Position(s, IF s.end = None THEN Len(log) ELSE s.end)

\* No stream stands beyond the recording, no key has two, and every sample belongs to one.
Kept(m, log) ==
  /\ \A i \in DOMAIN m : StandsAt(m[i], log) <= total
  /\ \A i, j \in DOMAIN m : m[i].key = m[j].key => i = j
  /\ \A n \in 1..Len(log) : \E i \in DOMAIN m : InPart(m, log, i, n)

RetainInv ==
  /\ retained = 0 /\ total <= MaxSample
  /\ \A c \in Client : Within(c) /\ Told(c)
  /\ \A req \in requests : Asks(req.body)
  /\ \A e \in Epoch : epochs[e].expected > 0 => Tells(epochs[e].last.body, epochs[e].answer)
  /\ Kept(sessions, cache)

LogInv == UploadInv /\ RetainInv

\* What the invariant says of one client.
LEMMA ClientFacts ==
  ASSUME LogInv, NEW c \in Client
  PROVE  /\ SyncInv /\ ClientTypes /\ Functions /\ ClientOK(c) /\ Within(c) /\ Told(c)
         /\ total \in Nat /\ retained = 0
         /\ waiting \in [Client -> Request \cup {None}]
         /\ Sending(c) => Sent(c) \in Message /\ Sent(c).from = c /\ waiting[c] \in Request
<1>1. SyncInv /\ ClientTypes
  BY DEF LogInv, UploadInv, SyncInv
<1>2. Functions /\ ClientOK(c) /\ total \in Nat
  BY <1>1, ClientTypesParts
<1>3. waiting \in [Client -> Request \cup {None}]
  BY <1>1 DEF SyncInv, Inv, TypeOK, ExchangesTypeOK
<1>4. Sending(c) => waiting[c] \in Request
  BY <1>2, <1>3 DEF ClientOK
<1>5. Sending(c) => Sent(c) \in Message /\ Sent(c).from = c
  BY <1>1, <1>4, RequestParts DEF SyncInv, Exchanges, Exchange, Sent
<1> QED
  BY <1>1, <1>2, <1>3, <1>4, <1>5 DEF LogInv, RetainInv

-----------------------------------------------------------------------------
(* The steps of a thread *)

\* Where nothing is ever given up, the upload floor is the start of the upload.
LEMMA FloorIsStart ==
  ASSUME LogInv, NEW c \in Client
  PROVE  UploadFloor(c) = start[c] /\ start[c] \in Nat /\ start[c] <= total
BY ClientFacts DEF UploadFloor, Larger, ClientTypes

LEMMA StartWithin ==
  ASSUME LogInv, NEW c \in Client, Start(c)
  PROVE  Within(c)'
<1>1. pc'[c] = "idle" /\ ~HasLink(c) /\ UNCHANGED <<suffix, link, want, seen, total>>
  BY ClientFacts DEF Start, Functions, ClientOK
<1> QED
  BY <1>1, ClientFacts DEF Within, HasLink, Sending

\* The Close of a session asks for nothing that is not recorded.
LEMMA ExitWithin ==
  ASSUME LogInv, NEW c \in Client, Exit(c)
  PROVE  Within(c)'
<1>1. UNCHANGED <<start, suffix, want, seen, total>>
  BY DEF Exit
<1>2. CASE link[c] = None
  <2>1. pc'[c] = "done" /\ UNCHANGED link
    BY <1>2, ClientFacts DEF Exit, Functions
  <2> QED
    BY <1>1, <2>1, ClientFacts DEF Within, HasLink, Sending, Recorded
<1>3. CASE link[c] # None
  <2>1. link'[c] = link[c] /\ waiting'[c].body.kind = "close"
    BY <1>3, ClientFacts DEF Exit, Send, Transmit, Functions
  <2>2. Asks(Sent(c))'
    BY <2>1 DEF Asks, Sent
  <2> QED
    BY <1>1, <2>1, <2>2, ClientFacts DEF Within, HasLink, Recorded
<1> QED
  BY <1>2, <1>3

LEMMA ReconnectWithin ==
  ASSUME LogInv, NEW c \in Client, Reconnect(c)
  PROVE  Within(c)'
<1>1. /\ pc'[c] = "challenge" /\ want'[c] = start[c] /\ seen'[c] = None /\ start[c] <= total
      /\ UNCHANGED <<suffix, link, total, start>>
  BY ClientFacts, FloorIsStart DEF Reconnect, Functions
<1> QED
  BY <1>1, ClientFacts DEF Within, HasLink, Sending, Recorded

\* A session begins at the position its client wants.
LEMMA EstablishWithin ==
  ASSUME LogInv, NEW c \in Client, Establish(c)
  PROVE  Within(c)'
<1>1. UNCHANGED <<start, suffix, want, seen, total>> /\ pc[c] = "challenge"
  BY DEF Establish
<1>2. /\ link'[c].next = want[c]
      /\ waiting'[c].body.kind = "open" /\ waiting'[c].body.source = want[c]
  BY ClientFacts DEF Establish, Send, Transmit, Functions
<1>3. start[c] <= want[c] /\ want[c] <= total
  BY <1>1, ClientFacts DEF ClientOK, Within, Functions
<1>4. Recorded(c, link[c].next)' /\ Asks(Sent(c))'
  BY <1>1, <1>2, <1>3 DEF Recorded, Asks, Sent
<1> QED
  BY <1>1, <1>4, ClientFacts DEF Within

\* A session within the recording has left nothing behind: the mark is not sent.
LEMMA LookWithin ==
  ASSUME LogInv, NEW c \in Client, Look(c)
  PROVE  Within(c)'
<1>1. HasLink(c) /\ Recorded(c, link[c].next) /\ link[c].next \in Nat
  BY ClientFacts DEF Look, Within, Functions, HasLink, Link
<1>2. ~LeftRetention(c)
  BY <1>1, ClientFacts, FloorIsStart DEF LeftRetention, Recorded
<1>3. /\ pc'[c] = "read" /\ seen'[c] = total /\ UNCHANGED <<start, suffix, link, want, total>>
  BY <1>2, ClientFacts DEF Look, Functions
<1>4. total <= total
  BY ClientFacts
<1> QED
  BY <1>3, <1>4, ClientFacts DEF Within, HasLink, Sending, Recorded

\* A chunk ends where the recording ended when it was looked at, or before.
LEMMA SendChunkWithin ==
  ASSUME LogInv, NEW c \in Client, SendChunk(c)
  PROVE  Within(c)'
<1>1. UNCHANGED <<start, suffix, want, seen, total>> /\ pc[c] = "read"
  BY DEF SendChunk
<1>2. CASE link[c].next >= retained /\ ~stopping[c]
  <2>1. /\ link'[c] = link[c] /\ waiting'[c].body.kind = "pcm"
        /\ waiting'[c].body.start = link[c].next
        /\ waiting'[c].body.count = Smaller(MaxChunk, seen[c] - link[c].next)
    BY <1>2, ClientFacts DEF SendChunk, Send, Transmit, Functions
  <2>2. HasLink(c) /\ seen[c] \in Nat /\ link[c].next < seen[c] /\ link[c].next \in Nat
        /\ seen[c] <= total
    BY <1>1, ClientFacts, ServerConstants DEF ClientOK, HasLink, Link, Within
  <2>3. link[c].next + Smaller(MaxChunk, seen[c] - link[c].next) <= total
    BY <2>2, ClientFacts, SyncConstants DEF Smaller
  <2>4. Asks(Sent(c))'
    BY <1>1, <2>1, <2>3 DEF Asks, Sent
  <2> QED
    BY <1>1, <2>1, <2>4, ClientFacts DEF Within, HasLink, Recorded
<1>3. CASE ~(link[c].next >= retained /\ ~stopping[c])
  <2>1. link'[c] = None /\ pc'[c] = "idle"
    BY <1>3, ClientFacts DEF SendChunk, LoseLink, Functions
  <2> QED
    BY <1>1, <2>1, ClientFacts, SyncConstants DEF Within, HasLink, Sending
<1> QED
  BY <1>2, <1>3

\* The position a session goes on from is one that the server has offered it.
LEMMA ReceiveWithin ==
  ASSUME LogInv, NEW c \in Client, Receive(c)
  PROVE  Within(c)'
<1>1. UNCHANGED <<start, want, seen, total>> /\ Sending(c) /\ reply[c] # None
  BY DEF Receive
<1> DEFINE m == reply[c].message
<1>2. Tells(Sent(c), m) /\ Asks(Sent(c)) /\ Sent(c).from = c
  BY <1>1, ClientFacts, UsableAnswer DEF Receive, Told, Within
<1>3. pc'[c] # "sending"
  BY <1>2, ClientFacts DEF Receive, GotOpen, GotPcm, LoseLink, Asks, Functions
<1>4. UNCHANGED suffix
  BY <1>2 DEF Receive, GotOpen, GotPcm, Asks
<1>5. HasLink(c)' => Recorded(c, link[c].next)'
  <2>1. CASE Sent(c).kind = "open" /\ GotOpen(c, m)
    <3>1. CASE m.status = "ok" /\ m.stream # 0
      <4>1. link'[c] = [Advanced(c) EXCEPT !.stream = m.stream, !.next = m.next]
        BY <2>1, <3>1, ClientFacts DEF GotOpen, Functions
      <4>2. link[c] \in Link
        BY <1>1, ClientFacts DEF ClientOK, HasLink
      <4>3. link'[c].next = m.next
        BY <4>1, <4>2 DEF Advanced, Link
      <4> QED
        BY <1>1, <1>2, <2>1, <3>1, <4>3 DEF Tells, Recorded
    <3>2. CASE ~(m.status = "ok" /\ m.stream # 0)
      <4>1. link'[c] = None
        BY <2>1, <3>2, ClientFacts DEF GotOpen, LoseLink, Functions
      <4> QED
        BY <4>1, SyncConstants DEF HasLink
    <3> QED
      BY <3>1, <3>2
  <2>2. CASE Sent(c).kind = "pcm" /\ GotPcm(c, m)
    <3>1. CASE link' = [link EXCEPT ![c] = [Advanced(c) EXCEPT !.next = m.next]]
               /\ m.status \in {"ok", "gap"}
      <4>1. link'[c] = [Advanced(c) EXCEPT !.next = m.next]
        BY <3>1, ClientFacts DEF Functions
      <4>2. link[c] \in Link
        BY <1>1, ClientFacts DEF ClientOK, HasLink
      <4>3. link'[c].next = m.next
        BY <4>1, <4>2 DEF Advanced, Link
      <4> QED
        BY <1>1, <1>2, <2>2, <3>1, <4>3 DEF Tells, Recorded
    <3>2. CASE LoseLink(c)
      <4>1. link'[c] = None
        BY <3>2, ClientFacts DEF LoseLink, Functions
      <4> QED
        BY <4>1, SyncConstants DEF HasLink
    <3> QED
      BY <2>2, <3>1, <3>2 DEF GotPcm
  <2>3. CASE UNCHANGED link
    BY <1>1, <2>3, ClientFacts DEF Within, HasLink, Recorded
  <2> QED
    BY <1>2, <2>1, <2>2, <2>3 DEF Receive, Asks
<1> QED
  BY <1>1, <1>3, <1>4, <1>5, ClientFacts DEF Within, Sending

\* The second attempt sends the same message, and a failed one leaves no session.
LEMMA AttemptWithin ==
  ASSUME LogInv, NEW c \in Client, Sending(c), AttemptFails(c)
  PROVE  Within(c)'
<1>1. UNCHANGED <<start, want, seen, total>> /\ Asks(Sent(c))
  BY ClientFacts DEF AttemptFails, Within
<1>2. CASE Transmit(c, Again(waiting[c])) /\ UNCHANGED <<link, suffix>>
  <2>1. waiting'[c].body = Sent(c)
    BY <1>2, ClientFacts DEF Transmit, Again, Sent, Request
  <2>2. Asks(Sent(c))'
    BY <1>1, <2>1 DEF Asks, Sent
  <2> QED
    BY <1>1, <1>2, <2>2, ClientFacts DEF Within, HasLink, Recorded
<1>3. CASE MessageFails(c)
  <2>1. UNCHANGED suffix /\ pc'[c] \in {"idle", "done"} /\ (link'[c] = link[c] \/ link'[c] = None)
    BY <1>1, <1>3, ClientFacts DEF MessageFails, LoseLink, Functions, Asks
  <2> QED
    BY <1>1, <2>1, ClientFacts, SyncConstants DEF Within, HasLink, Sending, Recorded
<1> QED
  BY <1>2, <1>3 DEF AttemptFails

LEMMA ChallengeFailsWithin ==
  ASSUME LogInv, NEW c \in Client, ChallengeFails(c)
  PROVE  Within(c)'
<1>1. /\ link'[c] = None /\ pc'[c] = "idle" /\ UNCHANGED <<start, suffix, want, seen, total>>
  BY ClientFacts DEF ChallengeFails, LoseLink, Functions
<1> QED
  BY <1>1, ClientFacts, SyncConstants DEF Within, HasLink, Sending

LEMMA OwnWithin ==
  ASSUME LogInv, NEW c \in Client,
         Start(c) \/ ClientStep(c) \/ ChallengeFails(c) \/ ExchangeFails(c)
  PROVE  Within(c)'
BY StartWithin, ExitWithin, ReconnectWithin, EstablishWithin, LookWithin, SendChunkWithin,
   ReceiveWithin, AttemptWithin, ChallengeFailsWithin
   DEF ClientStep, RefusedAttempt, ExchangeFails

\* What was told stays true of a client that stays on, and of a longer recording.
LEMMA TellsLater ==
  ASSUME LogInv, Onwards, total' \in Nat, total <= total', start' \in [Client -> Nat],
         NEW body, NEW m \in Response, Tells(body, m)
  PROVE  Tells(body, m)'
<1> DEFINE c == body.from
<1>1. c \in Client /\ pc[c] # "off"
  BY DEF Tells
<1>2. /\ pc'[c] # "off" /\ start'[c] = start[c] /\ start[c] \in Nat /\ total \in Nat
      /\ m.next \in Nat
  BY <1>1, ClientFacts DEF Onwards, Functions, Response
<1> QED
  BY <1>1, <1>2 DEF Tells, Recorded

\* A thread's step: the others are as they were, and no exchange of its own has an answer.
LEMMA ThreadWithin ==
  ASSUME LogInv, ClientTypes', NEW c \in Client,
         Start(c) \/ ClientStep(c) \/ ChallengeFails(c) \/ ExchangeFails(c)
  PROVE  RetainInv'
<1>1. Moves(c) /\ Functions /\ total \in Nat /\ retained = 0 /\ SyncInv
  BY ClientFacts, ThreadMoves
<1>2. UNCHANGED <<streamVars, total, retained>>
  BY <1>1 DEF Moves, GoesOn, HangsUp, Sends, Start, ClientStep, ChallengeFails, ExchangeFails,
     Exit, Reconnect, Establish, Look, SendChunk, Receive, RefusedAttempt, AttemptFails
<1>3. Others(c) /\ Within(c)'
  BY <1>1, OwnWithin DEF Moves, GoesOn, HangsUp, Sends
<1>4. Onwards
  BY <1>1, <1>3 DEF Moves, GoesOn, HangsUp, Sends, Sending, Others, Onwards, Functions
<1>5. start' \in [Client -> Nat] /\ total' \in Nat /\ total <= total'
  BY <1>1, <1>2 DEF ClientTypes
<1>6. ASSUME NEW d \in Client
      PROVE  Within(d)' /\ Told(d)'
  <2>1. CASE d = c
    <3>1. ~Sending(c)' \/ reply'[c] = None
      BY <1>1 DEF Moves, GoesOn, HangsUp, Sends, Sending
    <3> QED
      BY <1>3, <2>1, <3>1 DEF Told
  <2>2. CASE d # c
    <3>1. Within(d) /\ Told(d)
      BY ClientFacts
    <3>2. /\ pc'[d] = pc[d] /\ start'[d] = start[d] /\ suffix'[d] = suffix[d]
          /\ link'[d] = link[d] /\ want'[d] = want[d] /\ seen'[d] = seen[d]
          /\ waiting'[d] = waiting[d] /\ reply'[d] = reply[d]
      BY <1>3, <2>2 DEF Others
    <3>3. Within(d)'
      BY <1>2, <3>1, <3>2 DEF Within, HasLink, Recorded, Sending, Sent, Asks
    <3>4. ASSUME Sending(d), reply[d] # None, reply[d].code = 200,
                 NEW body, body = Sent(d), NEW m, m = reply[d].message
          PROVE  Tells(body, m)'
      <4>1. m \in Response
        BY <1>1, <3>4 DEF SyncInv, Exchanges, Answered
      <4>2. Tells(body, m)
        BY <3>1, <3>4 DEF Told
      <4> QED
        BY <1>4, <1>5, <4>1, <4>2, TellsLater
    <3>5. Told(d)'
      BY <3>2, <3>4 DEF Told, Sending, Sent
    <3> QED
      BY <3>3, <3>5
  <2> QED
    BY <2>1, <2>2
<1>7. ASSUME NEW req \in requests'
      PROVE  Asks(req.body)'
  <2>1. req \in requests \/ (Sending(c)' /\ req = waiting'[c])
    BY <1>1, <1>7 DEF Moves, GoesOn, HangsUp, Sends, Sending
  <2>2. CASE req \in requests
    <3>1. Asks(req.body)
      BY <2>2 DEF LogInv, RetainInv
    <3> QED
      BY <1>2, <3>1 DEF Asks
  <2>3. CASE Sending(c)' /\ req = waiting'[c]
    BY <1>3, <2>3 DEF Within, Sent
  <2> QED
    BY <2>1, <2>2, <2>3
<1>8. ASSUME NEW e \in Epoch, epochs'[e].expected > 0,
             NEW body, body = epochs'[e].last.body, NEW m, m = epochs'[e].answer
      PROVE  Tells(body, m)'
  <2>1. epochs'[e] = epochs[e] \/ epochs'[e] = FreshEpoch
    BY <1>1 DEF Moves, GoesOn, HangsUp, Sends, Resends, SendsOn, Opens, SyncInv, Inv, TypeOK,
                ExchangesTypeOK
  <2>2. epochs'[e] = epochs[e]
    BY <1>8, <2>1 DEF FreshEpoch, IdleEpoch
  <2>3. m \in Response /\ Tells(body, m)
    BY <1>1, <1>8, <2>2 DEF SyncInv, Exchanges, EpochsInUse, LogInv, RetainInv
  <2> QED
    BY <1>4, <1>5, <2>3, TellsLater
<1>9. Kept(sessions, cache)'
  BY <1>2 DEF LogInv, RetainInv, Kept, InPart
<1>10. retained' = 0 /\ total' <= MaxSample
  BY <1>1, <1>2 DEF LogInv, RetainInv
<1> QED
  BY <1>6, <1>7, <1>8, <1>9, <1>10 DEF RetainInv

-----------------------------------------------------------------------------
(* What the server does to the streams *)

\* The streams as the invariants describe them.
LEMMA StreamFacts ==
  ASSUME LogInv, origin = 0
  PROVE  /\ WholeInv /\ Inv /\ CacheTypeOK /\ Kept(sessions, cache) /\ KeysOK(sessions)
         /\ Len(cache) \in Nat /\ counted = Len(cache) /\ total \in Nat /\ issued \in Nat
         /\ cache \in Seq(Client \X Nat)
         /\ \A i \in DOMAIN sessions :
              /\ i \in 1..issued /\ i \in Nat /\ i # None /\ sessions[i] \in Session
              /\ sessions[i].start \in Nat /\ sessions[i].start <= Len(cache)
              /\ (IsOpen(sessions[i]) <=> sessions[i].end = None)
              /\ (IsOpen(sessions[i]) => active = i)
              /\ ResumeSample(sessions[i]) = StandsAt(sessions[i], cache)
              /\ ResumeSample(sessions[i]) \in Nat
         /\ active # None => active \in DOMAIN sessions /\ IsOpen(sessions[active])
<1>1. /\ WholeInv /\ Inv /\ CacheTypeOK /\ Kept(sessions, cache) /\ KeysOK(sessions) /\ total \in Nat
  BY DEF LogInv, UploadInv, SyncInv, RetainInv, Owners, ClientTypes, Inv, TypeOK
<1>2. /\ Len(cache) \in Nat /\ counted = Len(cache) /\ cache \in Seq(Client \X Nat)
      /\ issued \in Nat /\ DOMAIN sessions \subseteq 1..issued
      /\ \A i \in DOMAIN sessions :
           /\ i \in Nat /\ sessions[i] \in Session
           /\ sessions[i].start \in Nat /\ sessions[i].start <= Len(cache)
           /\ (IsOpen(sessions[i]) <=> sessions[i].end = None)
  BY <1>1, WholeFacts
<1>3. ASSUME NEW i \in DOMAIN sessions
      PROVE  /\ ResumeSample(sessions[i]) = StandsAt(sessions[i], cache)
             /\ ResumeSample(sessions[i]) \in Nat
  BY <1>1, <1>2, <1>3, WhereItStands DEF StandsAt
<1>4. /\ \A i \in DOMAIN sessions : i # None /\ (IsOpen(sessions[i]) => active = i)
      /\ active # None => active \in DOMAIN sessions /\ IsOpen(sessions[active])
  BY <1>1, <1>2, ServerConstants DEF Inv, OneOpenSession, TypeOK, SessionsTypeOK
<1> QED
  BY <1>1, <1>2, <1>3, <1>4

\* Every stream stands within its client's recording.
LEMMA StreamRecorded ==
  ASSUME LogInv, origin = 0, NEW i \in DOMAIN sessions
  PROVE  Recorded(sessions[i].key[1], ResumeSample(sessions[i]))
<1> DEFINE s == sessions[i]
           c == s.key[1]
           end == IF s.end = None THEN Len(cache) ELSE s.end
<1>1. /\ s \in Session /\ Len(cache) \in Nat /\ ResumeSample(s) = StandsAt(s, cache)
      /\ StandsAt(s, cache) <= total
  BY StreamFacts DEF Kept
<1>2. s.source >= start[c] /\ c \in Client
  BY <1>1, StreamFacts DEF KeysOK, IsKeyOf, Session, ClientKey
<1>3. start[c] \in Nat
  BY <1>2, ClientFacts DEF Functions
<1>4. end \in Nat /\ s.source \in Nat /\ s.start \in Nat
  BY <1>1 DEF Session
<1>5. StandsAt(s, cache) = s.source + SaturatingSub(end, s.start)
  BY DEF StandsAt, Position
<1> HIDE DEF end, s, c
<1>6. s.source <= s.source + SaturatingSub(end, s.start)
  BY <1>4 DEF SaturatingSub
<1>7. s.source + SaturatingSub(end, s.start) \in Nat
  BY <1>4 DEF SaturatingSub
<1>8. Recorded(c, ResumeSample(s))
  BY <1>1, <1>2, <1>3, <1>4, <1>5, <1>6, <1>7 DEF Recorded
<1> QED
  BY <1>8 DEF s, c

\* A new logical stream is the first of its client, stands where its recording begins,
\* and takes over the end of the log.
LEMMA KeptCreate ==
  ASSUME LogInv, origin = 0, NEW body \in Message, body.kind = "open", Asks(body), Creates(body)
  PROVE  Kept(sessions', cache)
<1> DEFINE id == issued + 1
<1>1. /\ DOMAIN sessions' = DOMAIN sessions \cup {id} /\ id \notin DOMAIN sessions
      /\ sessions'[id] = NewSession(body)
      /\ \A i \in DOMAIN sessions :
           sessions'[i] = IF i = active THEN CutOff(sessions[i]) ELSE sessions[i]
      /\ \A i \in DOMAIN sessions : i < id
  <2>1. id \notin DOMAIN sessions /\ id \in Nat /\ \A i \in DOMAIN sessions : i < id
    BY StreamFacts
  <2>2. active # id /\ sessions' = WithNewSession(body, id)
    BY <2>1, StreamFacts, ServerConstants DEF Creates
  <2> QED
    BY <2>1, <2>2 DEF WithNewSession
<1>2. body.source \in Nat /\ body.source <= total /\ total \in Nat /\ Len(cache) \in Nat
      /\ counted = Len(cache)
  BY MessageParts, StreamFacts DEF Asks
<1>3. /\ sessions'[id].key = body.key /\ sessions'[id].start = Len(cache)
      /\ sessions'[id].source = body.source /\ sessions'[id].end = None
  BY <1>1, <1>2 DEF NewSession
<1>4. ASSUME NEW i \in DOMAIN sessions
      PROVE  /\ sessions'[i].key = sessions[i].key /\ sessions'[i].start = sessions[i].start
             /\ StandsAt(sessions'[i], cache) = StandsAt(sessions[i], cache)
  <2> DEFINE s == sessions[i]
  <2>1. s \in Session /\ (i = active => s.end = None)
    BY <1>4, StreamFacts
  <2>2. CASE i # active
    BY <1>1, <2>2
  <2>3. CASE i = active
    <3>1. /\ sessions'[i].key = s.key /\ sessions'[i].start = s.start
          /\ sessions'[i].source = s.source /\ sessions'[i].end = Len(cache)
      BY <1>1, <1>2, <2>1, <2>3 DEF CutOff, Session
    <3>2. Len(cache) # None
      BY <1>2, ServerConstants
    <3> QED
      BY <2>1, <2>3, <3>1, <3>2 DEF StandsAt, Position
  <2> QED
    BY <2>2, <2>3
<1> HIDE DEF id
<1>5. StandsAt(sessions'[id], cache) <= total
  BY <1>2, <1>3 DEF StandsAt, Position, SaturatingSub
<1>6. \A i \in DOMAIN sessions' : StandsAt(sessions'[i], cache) <= total
  BY <1>1, <1>4, <1>5, StreamFacts DEF Kept
<1>7. ASSUME NEW i \in DOMAIN sessions', NEW j \in DOMAIN sessions',
             sessions'[i].key = sessions'[j].key
      PROVE  i = j
  <2>1. \A k \in DOMAIN sessions : sessions[k].key # body.key
    BY DEF Creates, CanCreate, KnownStreams
  <2> QED
    BY <1>1, <1>3, <1>4, <1>7, <2>1, StreamFacts DEF Kept
<1>8. ASSUME NEW n \in 1..Len(cache)
      PROVE  \E i \in DOMAIN sessions' : InPart(sessions', cache, i, n)
  <2>1. PICK i \in DOMAIN sessions : InPart(sessions, cache, i, n)
    BY StreamFacts DEF Kept
  <2>2. n <= Len(cache)
    BY <1>2
  <2>3. InPart(sessions', cache, i, n)
    BY <1>1, <1>3, <1>4, <2>1, <2>2 DEF InPart
  <2> QED
    BY <1>1, <2>3
<1> QED
  BY <1>6, <1>7, <1>8 DEF Kept

\* A chunk, or a part of it, carries the last stream on within its client's recording.
LEMMA KeptAppend ==
  ASSUME LogInv, origin = 0, NEW body \in Message, OwnedRequest(body), Asks(body),
         NEW n \in Nat, NEW log, Appends(body, n, log)
  PROVE  Kept(sessions, log)
<1> DEFINE own == body.stream
           s == sessions[own]
<1>1. body.kind = "pcm" /\ body.from \in Client /\ body.start \in Nat /\ body.count \in Nat
      /\ body.start + body.count <= total /\ n <= body.count
  <2>1. body.kind = "pcm" /\ n \in 0..body.count
    BY DEF Appends
  <2> QED
    BY <2>1, MessageParts DEF Asks
<1>2. own \in DOMAIN sessions /\ IsOpen(s)
  BY DEF Appends, PcmError
<1>3. /\ s \in Session /\ s.start \in Nat /\ s.start <= Len(cache) /\ s.end = None
      /\ Len(cache) \in Nat /\ counted = Len(cache) /\ total \in Nat
      /\ \A j \in DOMAIN sessions : j \in Nat /\ sessions[j].start \in Nat
  BY <1>2, StreamFacts
<1>4. \A j \in DOMAIN sessions : ~(own < j) /\ (j # own => sessions[j].end # None)
  BY <1>2, StreamFacts DEF WholeInv, StreamsInv, Ledger, InOrder
<1>5. Len(log) = Len(cache) + n
  <2>1. CacheTypeOK
    BY StreamFacts
  <2> QED
    BY <1>1, <2>1, AppendedSamples DEF Appends
<1>6. body.start = s.source + (Len(cache) - s.start)
  <2>1. body.start = Position(s, Len(cache))
    BY <1>3 DEF Appends, InPlace, ExpectedSample
  <2> HIDE DEF s
  <2> QED
    BY <1>3, <2>1, PositionMoves
<1>7. StandsAt(s, log) = s.source + (Len(cache) + n - s.start)
  <2>1. StandsAt(s, log) = Position(s, Len(cache) + n)
    BY <1>3, <1>5 DEF StandsAt
  <2> HIDE DEF s
  <2> QED
    BY <1>3, <2>1 DEF Position, SaturatingSub
<1>8. StandsAt(s, log) <= total
  <2>1. s.source \in Nat
    BY <1>3 DEF Session
  <2> HIDE DEF s
  <2> QED
    BY <1>1, <1>3, <1>6, <1>7, <2>1
<1>9. \A i \in DOMAIN sessions : StandsAt(sessions[i], log) <= total
  <2>1. \A i \in DOMAIN sessions : i # own => StandsAt(sessions[i], log) = StandsAt(sessions[i], cache)
    BY <1>4 DEF StandsAt
  <2> QED
    BY <1>8, <2>1, StreamFacts DEF Kept
<1>10. ASSUME NEW k \in 1..Len(log)
       PROVE  \E i \in DOMAIN sessions : InPart(sessions, log, i, k)
  <2>1. k \in Nat /\ k >= 1 /\ k <= Len(log)
    BY <1>3, <1>5
  <2>2. CASE k <= Len(cache)
    <3>1. k \in 1..Len(cache)
      BY <1>3, <2>1, <2>2
    <3>2. PICK i \in DOMAIN sessions : InPart(sessions, cache, i, k)
      BY <3>1, StreamFacts DEF Kept
    <3>3. InPart(sessions, log, i, k)
      BY <2>1, <3>2 DEF InPart
    <3> QED
      BY <3>3
  <2>3. CASE k > Len(cache)
    <3>1. s.start < k
      BY <1>3, <2>1, <2>3
    <3>2. \A j \in DOMAIN sessions : ~(j > own)
      BY <1>2, <1>3, <1>4
    <3>3. InPart(sessions, log, own, k)
      BY <2>1, <3>1, <3>2 DEF InPart
    <3> QED
      BY <1>2, <3>3
  <2> QED
    BY <1>3, <2>1, <2>2, <2>3
<1> QED
  BY <1>9, <1>10, StreamFacts DEF Kept

\* A Close ends its stream at a position the client has named.
LEMMA KeptEnd ==
  ASSUME LogInv, origin = 0, NEW body \in Message, Asks(body), RequestStands(body), Ends(body)
  PROVE  Kept(sessions', cache)
<1> DEFINE own == body.stream
           s == sessions[own]
<1>1. body.kind = "close" /\ own \in DOMAIN sessions /\ body.final = ExpectedSample(s)
  BY DEF Ends, Asks
<1>2. /\ s \in Session /\ own # 0 /\ Len(cache) \in Nat /\ Len(cache) # None /\ counted = Len(cache)
      /\ total \in Nat /\ ResumeSample(s) \in Nat /\ ResumeSample(s) = StandsAt(s, cache)
  BY <1>1, StreamFacts, ServerConstants
<1>3. /\ DOMAIN sessions' = DOMAIN sessions
      /\ \A i \in DOMAIN sessions \ {own} : sessions'[i] = sessions[i]
      /\ sessions'[own].key = s.key /\ sessions'[own].start = s.start
      /\ sessions'[own].source = s.source /\ sessions'[own].end = Len(cache)
  BY <1>1, <1>2 DEF Ends, EndSession, Session
<1>4. StandsAt(sessions'[own], cache) = body.final
  BY <1>1, <1>2, <1>3 DEF StandsAt, Position, ExpectedSample
<1>5. body.final <= ResumeSample(s) /\ body.final \in Nat
  BY <1>1, <1>2, MessageParts DEF RequestStands, Reaches
<1>6. StandsAt(s, cache) <= total
  BY <1>1, StreamFacts DEF Kept
<1> HIDE DEF s
<1>7. StandsAt(sessions'[own], cache) <= total
  BY <1>2, <1>4, <1>5, <1>6
<1>8. \A i \in DOMAIN sessions :
         sessions'[i].key = sessions[i].key /\ sessions'[i].start = sessions[i].start
  BY <1>3 DEF s
<1>9. \A i \in DOMAIN sessions' : StandsAt(sessions'[i], cache) <= total
  BY <1>3, <1>7, StreamFacts DEF Kept
<1> QED
  BY <1>3, <1>8, <1>9, StreamFacts DEF Kept, InPart

\* A restart finds the streams as they were.
LEMMA KeptReload ==
  ASSUME NoneIsNoMap, LogInv, origin = 0, NEW log, Len(log) \in Nat, Reload(Files, log),
         Kept(sessions, log)
  PROVE  Kept(sessions', cache')
<1>1. /\ sessions' = sessions \/ (DOMAIN sessions = {} /\ DOMAIN sessions' = {})
      /\ cache' = log
  BY StreamFacts, ReloadFinds DEF WholeInv, StreamsInv
<1>2. CASE DOMAIN sessions = {} /\ DOMAIN sessions' = {}
  BY <1>1, <1>2 DEF Kept
<1> QED
  BY <1>1, <1>2

LEMMA EnvelopeKept ==
  ASSUME FilesAreWritten, LogInv, origin = 0, NEW req \in requests, ProcessEnvelope(req)
  PROVE  Kept(sessions', cache')
<1> DEFINE body == req.body
<1>1. req \in Request /\ body \in Message /\ OwnedRequest(body) /\ Asks(body) /\ RequestStands(body)
  BY RequestParts DEF LogInv, UploadInv, SyncInv, ClientTypes, Owners, Stands, RetainInv
<1>2. CASE UNCHANGED streamVars
  BY <1>2, StreamFacts
<1>3. CASE body.kind = "open" /\ Creates(body)
  BY <1>1, <1>3, KeptCreate DEF Creates
<1>4. ASSUME NEW n \in Nat, Appends(body, n, cache'), UNCHANGED sessions
      PROVE  Kept(sessions', cache')
  <2>1. PICK log : log = cache'
    OBVIOUS
  <2> HIDE DEF body
  <2>2. Kept(sessions, log)
    BY <1>1, <1>4, <2>1, KeptAppend
  <2> QED
    BY <1>4, <2>1, <2>2
<1>5. CASE Ends(body)
  BY <1>1, <1>5, KeptEnd DEF Ends, EndSession
<1> QED
  BY <1>1, <1>2, <1>3, <1>4, <1>5, StreamFacts, StreamEffect DEF WholeInv, StreamsInv

-----------------------------------------------------------------------------
(* What the server tells *)

\* What a handler answers lies within its client's recording.
LEMMA AnswerTells ==
  ASSUME FilesAreWritten, LogInv, origin = 0, NEW req \in requests, ProcessEnvelope(req),
         IsNext(req), NEW m, m = epochs'[req.epoch].answer
  PROVE  Tells(req.body, m)
<1> DEFINE body == req.body
           own == body.stream
<1>1. /\ req \in Request /\ body \in Message /\ body.from \in Client /\ req.epoch \in Epoch
      /\ OwnedRequest(body) /\ Asks(body) /\ epochs \in [Epoch -> EpochState]
      /\ req.seq \in Nat /\ epochs[req.epoch].expected \in Nat
  BY RequestParts, MessageParts DEF LogInv, UploadInv, SyncInv, ClientTypes, Owners, RetainInv,
     Inv, TypeOK, ExchangesTypeOK, EpochState
<1>2. pc[body.from] # "off" /\ start[body.from] \in Nat /\ total \in Nat
  BY <1>1, ClientFacts DEF OwnedRequest, Functions
<1>3. ASSUME NEW r, Respond(req, r)
      PROVE  m = r
  BY <1>1, <1>3 DEF Respond
<1>4. Handle(req) /\ ~Fault("persist") /\ ~Fault("pcm")
  BY <1>1 DEF ProcessEnvelope, IsNext, Fault, FilesAreWritten, IsRetry
<1>5. ASSUME NEW error, m = Rejected(error)
      PROVE  Tells(body, m)
  <2>1. m.status = "rejected"
    BY <1>5 DEF Rejected
  <2> QED
    BY <1>1, <1>2, <2>1 DEF Tells
<1>6. CASE OpenOrResume(req)
  <2>1. body.kind = "open" /\ body.key[1] = body.from /\ body.source >= start[body.from]
        /\ body.source <= total
    BY <1>1, <1>6 DEF OpenOrResume, OwnedRequest, IsKeyOf, Asks
  <2>2. ASSUME NEW i \in KnownStreams(body.key), m = Ok(i, ResumeSample(sessions[i]))
        PROVE  Tells(body, m)
    <3>1. i \in DOMAIN sessions /\ sessions[i].key[1] = body.from /\ m.next = ResumeSample(sessions[i])
      BY <2>1, <2>2, ResponseParts DEF KnownStreams
    <3>2. Recorded(body.from, m.next)
      BY <3>1, StreamRecorded
    <3> QED
      BY <1>1, <1>2, <3>2 DEF Tells
  <2>3. ASSUME NEW i \in KnownStreams(body.key), Resume(req, i)
        PROVE  Tells(body, m)
    BY <1>3, <1>5, <2>2, <2>3 DEF Resume
  <2>4. ASSUME CreateStream(req)
        PROVE  Tells(body, m)
    <3>1. m = Ok(issued + 1, body.source)
      BY <1>3, <1>4, <2>4 DEF CreateStream, SaveSessions
    <3>2. m.next = body.source /\ body.source \in Nat
      BY <1>1, <2>1, <3>1, MessageParts, ResponseParts
    <3> QED
      BY <1>1, <1>2, <2>1, <3>2 DEF Tells, Recorded
  <2> QED
    BY <1>3, <1>4, <1>5, <1>6, <2>3, <2>4 DEF OpenOrResume, CreateCacheFails
<1>7. CASE PushPcm(req)
  <2> DEFINE fits == PcmError(body) = ""
  <2>1. body.kind = "pcm" /\ body.start \in Nat /\ body.count \in Nat
        /\ body.start + body.count <= total
    BY <1>1, <1>7, MessageParts DEF PushPcm, Asks
  <2>2. fits => own \in DOMAIN sessions /\ IsOpen(sessions[own])
    BY DEF PcmError
  <2> HIDE DEF fits
  <2>3. ASSUME fits
        PROVE  Recorded(body.from, ExpectedSample(sessions[own])) /\ ExpectedSample(sessions[own]) \in Nat
    <3>1. own \in DOMAIN sessions /\ sessions[own].end = None
      BY <2>2, <2>3, StreamFacts
    <3>2. ResumeSample(sessions[own]) = ExpectedSample(sessions[own])
      BY <3>1 DEF ResumeSample, ExpectedSample
    <3>3. sessions[own].key[1] = body.from
      BY <1>1, <2>1, <3>1 DEF OwnedRequest, IsStreamOf
    <3>4. ResumeSample(sessions[own]) \in Nat
      BY <3>1, StreamFacts
    <3>5. Recorded(sessions[own].key[1], ResumeSample(sessions[own]))
      BY <3>1, StreamRecorded
    <3> QED
      BY <3>2, <3>3, <3>4, <3>5
  <2>4. ASSUME fits, m = Gap(own, ExpectedSample(sessions[own]), "sample_gap")
        PROVE  Tells(body, m)
    <3>1. m.next = ExpectedSample(sessions[own])
      BY <2>4, ResponseParts
    <3>2. Recorded(body.from, m.next)
      BY <2>3, <2>4, <3>1
    <3> QED
      BY <1>1, <1>2, <3>2 DEF Tells
  <2>5. ASSUME fits, InPlace(body), m = Ok(own, body.start + body.count)
        PROVE  Tells(body, m)
    <3>1. \A at, position : Ok(at, position).next = position
      BY ResponseParts
    <3>2. m.next = body.start + body.count
      BY <2>5, <3>1
    <3>3. Recorded(body.from, body.start)
      BY <2>3, <2>5 DEF InPlace
    <3>4. Recorded(body.from, m.next)
      BY <1>2, <2>1, <3>2, <3>3 DEF Recorded
    <3> QED
      BY <1>1, <1>2, <3>4 DEF Tells
  <2> QED
    BY <1>3, <1>5, <1>7, <2>4, <2>5 DEF PushPcm, fits
<1>8. CASE body.kind \notin {"open", "pcm"}
  BY <1>1, <1>2, <1>8 DEF Tells
<1> QED
  BY <1>4, <1>6, <1>7, <1>8 DEF Handle, CloseStream, MarkIncomplete, Probe

\* The answers that were given before.
LEMMA ToldBefore ==
  ASSUME LogInv
  PROVE  /\ \A c \in Client :
              Sending(c) /\ reply[c] # None /\ reply[c].code = 200 => Tells(Sent(c), reply[c].message)
         /\ \A e \in Epoch : epochs[e].expected > 0 => Tells(epochs[e].last.body, epochs[e].answer)
BY DEF LogInv, RetainInv, Told

AllTold ==
  /\ \A c \in Client : Told(c)
  /\ \A e \in Epoch : epochs[e].expected > 0 => Tells(epochs[e].last.body, epochs[e].answer)

\* Tells speaks of the clients and the recorder only.
LEMMA TellsSame ==
  ASSUME UNCHANGED <<clientVars, recorderVars>>, NEW body, NEW m
  PROVE  Tells(body, m)' <=> Tells(body, m)
BY DEF Tells, Recorded

\* The cached answer is the one to this very message.
LEMMA EchoTells ==
  ASSUME LogInv, NEW req \in requests, Takes(req), Echoes(req)
  PROVE  AllTold'
<1>1. UNCHANGED <<epochs, clientVars, recorderVars, waiting>> /\ SyncInv /\ req.epoch \in Epoch
  BY RequestParts DEF Takes, Echoes, LogInv, UploadInv, SyncInv, ClientTypes
<1>2. ASSUME NEW c \in Client, Sending(c), reply'[c] # None, reply'[c].code = 200
      PROVE  Tells(Sent(c), reply'[c].message)
  <2>1. CASE reply'[c] = reply[c]
    BY <1>2, <2>1, ToldBefore
  <2>2. CASE /\ waiting[c] = req /\ epochs[req.epoch].live /\ IsRetry(req)
             /\ reply'[c].message = epochs[req.epoch].answer
    <3>1. Sent(c) = req.body
      BY <1>1, <2>2, WaitingFor
    <3>2. epochs[req.epoch].last.body = Sent(c)
      BY <2>2, <3>1 DEF IsRetry
    <3>3. epochs[req.epoch].expected > 0
      <4>1. epochs[req.epoch].expected \in Nat /\ req.seq \in Nat
        BY <1>1, RequestParts DEF SyncInv, ClientTypes, Inv, TypeOK, ExchangesTypeOK, EpochState
      <4> QED
        BY <2>2, <4>1 DEF IsRetry
    <3> QED
      BY <1>1, <2>2, <3>2, <3>3, ToldBefore
  <2>3. \/ reply'[c] = reply[c]
        \/ waiting[c] = req /\ reply'[c].code # 200
        \/ /\ waiting[c] = req /\ epochs[req.epoch].live /\ IsRetry(req)
           /\ reply'[c].message = epochs[req.epoch].answer
    BY AnswerReaches DEF Echoes
  <2> QED
    BY <1>2, <2>1, <2>2, <2>3
<1>3. \A c \in Client : Told(c)'
  BY <1>1, <1>2, TellsSame DEF Told, Sending, Sent
<1>4. ASSUME NEW e \in Epoch, epochs'[e].expected > 0,
             NEW body, body = epochs'[e].last.body, NEW m, m = epochs'[e].answer
      PROVE  Tells(body, m)'
  BY <1>1, <1>4, ToldBefore, TellsSame
<1> QED
  BY <1>3, <1>4 DEF AllTold

\* A new answer is the one that AnswerTells speaks of.
LEMMA CountsTell ==
  ASSUME LogInv, NEW req \in requests, Takes(req), NEW m \in Response, Respond(req, m),
         Tells(req.body, m)
  PROVE  AllTold'
<1>1. /\ UNCHANGED <<clientVars, recorderVars, waiting>> /\ SyncInv /\ req.epoch \in Epoch
      /\ epochs \in [Epoch -> EpochState]
  BY RequestParts DEF Takes, LogInv, UploadInv, SyncInv, ClientTypes, Inv, TypeOK, ExchangesTypeOK
<1>2. /\ epochs'[req.epoch].last.body = req.body /\ epochs'[req.epoch].answer = m
      /\ \A e \in Epoch : e # req.epoch => epochs'[e] = epochs[e]
  BY <1>1 DEF Respond
<1>3. ASSUME NEW e \in Epoch, epochs'[e].expected > 0
      PROVE  Tells(epochs'[e].last.body, epochs'[e].answer)
  <2>1. CASE e = req.epoch
    BY <1>2, <2>1
  <2>2. CASE e # req.epoch
    BY <1>2, <1>3, <2>2, ToldBefore
  <2> QED
    BY <2>1, <2>2
<1>4. ASSUME NEW c \in Client, Sending(c), reply'[c] # None, reply'[c].code = 200
      PROVE  Tells(Sent(c), reply'[c].message)
  <2>1. CASE waiting[c] = req
    <3>1. Sent(c) = req.body /\ reply'[c].message = m
      BY <1>1, <2>1, WaitingFor, AnswerReaches DEF Respond
    <3> QED
      BY <3>1
  <2>2. CASE waiting[c] # req
    <3>1. reply'[c] = reply[c]
      BY <2>2, AnswerReaches DEF Respond
    <3> QED
      BY <1>4, <3>1, ToldBefore
  <2> QED
    BY <2>1, <2>2
<1>5. \A c \in Client : Told(c)'
  BY <1>1, <1>4, TellsSame DEF Told, Sending, Sent
<1>6. ASSUME NEW e \in Epoch, epochs'[e].expected > 0,
             NEW body, body = epochs'[e].last.body, NEW a, a = epochs'[e].answer
      PROVE  Tells(body, a)'
  BY <1>1, <1>3, <1>6, TellsSame
<1> QED
  BY <1>5, <1>6 DEF AllTold

\* A step that the clients do not take leaves the rest of the invariant as it is.
LEMMA OutsideRetains ==
  ASSUME LogInv, UNCHANGED <<clientVars, recorderVars, waiting>>, requests' \subseteq requests,
         AllTold', Kept(sessions, cache)'
  PROVE  RetainInv'
<1>1. \A c \in Client : Within(c)'
  BY DEF LogInv, RetainInv, Within, HasLink, Recorded, Sending, Sent, Asks
<1>2. \A req \in requests' : Asks(req.body)'
  BY DEF LogInv, RetainInv, Asks
<1>3. retained' = 0 /\ total' <= MaxSample
  BY DEF LogInv, RetainInv
<1> QED
  BY <1>1, <1>2, <1>3 DEF RetainInv, AllTold

LEMMA EnvelopeRetains ==
  ASSUME FilesAreWritten, LogInv, origin = 0, NEW req \in requests, Takes(req),
         ProcessEnvelope(req)
  PROVE  RetainInv'
<1>1. req \in Request /\ SyncInv /\ epochs \in [Epoch -> EpochState]
  BY DEF LogInv, UploadInv, SyncInv, ClientTypes, Inv, TypeOK, ExchangesTypeOK
<1>2. AllTold'
  <2>1. CASE Echoes(req)
    BY <2>1, EchoTells
  <2>2. ASSUME NEW m \in Response, Counts(req, m)
        PROVE  AllTold'
    <3>1. m = epochs'[req.epoch].answer
      BY <1>1, <2>2, RequestParts DEF Counts, Respond
    <3>2. Tells(req.body, m)
      BY <2>2, <3>1, AnswerTells DEF Counts
    <3> QED
      BY <2>2, <3>2, CountsTell DEF Counts
  <2> QED
    BY <1>1, <2>1, <2>2, EnvelopeEffect
<1>3. Kept(sessions, cache)'
  <2>1. Kept(sessions', cache')
    BY EnvelopeKept
  <2>2. total' = total
    BY DEF Takes
  <2> QED
    BY <2>1, <2>2 DEF Kept, StandsAt, Position, InPart
<1>4. UNCHANGED <<clientVars, recorderVars, waiting>> /\ requests' \subseteq requests
  BY DEF Takes
<1> QED
  BY <1>2, <1>3, <1>4, OutsideRetains

\* A restart, with part of a chunk on disk or none, tells nobody anything.
LEMMA ReloadRetains ==
  ASSUME NoneIsNoMap, LogInv, origin = 0, NEW log, Len(log) \in Nat, Reload(Files, log),
         Kept(sessions, log), UNCHANGED <<clientVars, recorderVars>>, requests' \subseteq requests
  PROVE  RetainInv'
<1>1. UNCHANGED <<waiting, reply>>
  BY DEF Reload
<1>2. AllTold'
  <2>1. \A e \in Epoch : ~(epochs'[e].expected > 0)
    BY DEF Reload, IdleEpoch
  <2>2. \A c \in Client : Told(c)'
    BY <1>1, ToldBefore, TellsSame DEF Told, Sending, Sent
  <2> QED
    BY <2>1, <2>2 DEF AllTold
<1>3. Kept(sessions, cache)'
  <2>1. Kept(sessions', cache')
    BY KeptReload
  <2> QED
    BY <2>1 DEF Kept, StandsAt, Position, InPart
<1> QED
  BY <1>1, <1>2, <1>3, OutsideRetains

-----------------------------------------------------------------------------
(* The invariant of the upload that retains everything *)

\* A stop, a new sample, a lost copy and an expired epoch keep it: a longer recording
\* bounds no less.
LEMMA QuietRetains ==
  ASSUME LogInv, total' \in Nat, total <= total', total' <= MaxSample, retained' = 0,
         UNCHANGED <<streamVars, waiting, reply, pc, start, suffix, link, want, seen>>,
         requests' \subseteq requests,
         \A e \in Epoch : /\ epochs'[e].expected = epochs[e].expected
                          /\ epochs'[e].last = epochs[e].last
                          /\ epochs'[e].answer = epochs[e].answer
  PROVE  RetainInv'
<1>1. /\ SyncInv /\ ClientTypes /\ requests \subseteq Request /\ total \in Nat
      /\ RetainInv /\ sessions = sessions' /\ cache = cache'
      /\ IsSessionMap(sessions) /\ cache \in Seq(Client \X Nat)
  BY DEF LogInv, UploadInv, SyncInv, ClientTypes, Inv, TypeOK, SessionsTypeOK, CacheTypeOK
<1>2. Onwards /\ start' \in [Client -> Nat]
  BY <1>1 DEF Onwards, ClientTypes
<1>3. ASSUME NEW body \in Message, Asks(body)
      PROVE  Asks(body)'
  <2>1. body.kind = "open" => body.source \in Nat
    BY MessageParts
  <2>2. body.kind = "pcm" => body.start \in Nat /\ body.count \in Nat
    BY MessageParts
  <2> QED
    BY <1>1, <1>3, <2>1, <2>2 DEF Asks
<1>4. ASSUME NEW c \in Client
      PROVE  Within(c)'
  <2>1. Within(c) /\ Functions
    BY ClientFacts
  <2>2. HasLink(c)' => Recorded(c, link[c].next)'
    BY <1>1, <2>1 DEF Within, HasLink, Recorded, Functions, Link
  <2>3. ASSUME Sending(c), NEW body, body = Sent(c)
        PROVE  Asks(body)'
    BY <1>3, <2>1, <2>3, ClientFacts DEF Within
  <2>4. Sending(c)' => Asks(Sent(c))'
    BY <2>3 DEF Sending, Sent
  <2>5. suffix'[c] = 0 /\ want'[c] <= total' /\ (seen'[c] # None => seen'[c] <= total')
    BY <1>1, <2>1 DEF Within, Functions
  <2> QED
    BY <2>2, <2>4, <2>5 DEF Within
<1>5. ASSUME NEW c \in Client
      PROVE  Told(c)'
  <2>1. ASSUME Sending(c), reply[c] # None, reply[c].code = 200,
               NEW body, body = Sent(c), NEW m, m = reply[c].message
        PROVE  Tells(body, m)'
    <3>1. m \in Response /\ Tells(body, m)
      BY <1>1, <2>1, ToldBefore DEF SyncInv, Exchanges, Answered
    <3> QED
      BY <1>2, <3>1, TellsLater
  <2> QED
    BY <2>1 DEF Told, Sending, Sent
<1>6. ASSUME NEW e \in Epoch, epochs'[e].expected > 0,
             NEW body, body = epochs'[e].last.body, NEW m, m = epochs'[e].answer
      PROVE  Tells(body, m)'
  <2>1. m \in Response /\ Tells(body, m)
    BY <1>1, <1>6, ToldBefore DEF SyncInv, Exchanges, EpochsInUse
  <2> QED
    BY <1>2, <2>1, TellsLater
<1>7. \A req \in requests' : Asks(req.body)'
  <2>1. ASSUME NEW req \in requests', NEW body, body = req.body
        PROVE  Asks(body)'
    <3>1. body \in Message /\ Asks(body)
      BY <1>1, <2>1, RequestParts DEF RetainInv
    <3> QED
      BY <1>3, <3>1
  <2> QED
    BY <2>1
<1>8. \A i \in DOMAIN sessions : StandsAt(sessions[i], cache) \in Nat
  <2>1. ASSUME NEW s \in Session
        PROVE  StandsAt(s, cache) \in Nat
    <3>1. Len(cache) \in Nat /\ s.source \in Nat /\ s.start \in Nat
      BY <1>1 DEF Session
    <3>2. (IF s.end = None THEN Len(cache) ELSE s.end) \in Nat
      BY <1>1 DEF Session
    <3> QED
      BY <3>1, <3>2 DEF StandsAt, Position, SaturatingSub
  <2> QED
    BY <1>1, <2>1 DEF IsSessionMap
<1>9. Kept(sessions, cache)'
  <2>1. \A i \in DOMAIN sessions : StandsAt(sessions[i], cache) <= total'
    BY <1>1, <1>8 DEF RetainInv, Kept
  <2>2. \A i \in DOMAIN sessions' : StandsAt(sessions[i], cache)' <= total'
    BY <1>1, <2>1 DEF StandsAt, Position
  <2> QED
    BY <1>1, <2>2 DEF RetainInv, Kept, InPart
<1> QED
  BY <1>4, <1>5, <1>6, <1>7, <1>9 DEF RetainInv

\* The recorder gives nothing up.
LEMMA RecordRetains ==
  ASSUME RecorderKeepsAll, LogInv, Record
  PROVE  RetainInv'
<1>1. total \in Nat /\ retained = 0 /\ total < MaxSample /\ total' = total + 1
      /\ retained' \in retained..(retained + SaturatingSub(total' - retained, LocalWindow))
  BY DEF Record, LogInv, UploadInv, SyncInv, ClientTypes, RetainInv
<1>2. SaturatingSub(total' - retained, LocalWindow) = 0
  BY <1>1, SyncConstants DEF SaturatingSub, RecorderKeepsAll
<1>3. retained' = 0 /\ total' \in Nat /\ total <= total' /\ total' <= MaxSample
  BY <1>1, <1>2, SyncConstants
<1> QED
  BY <1>3, QuietRetains DEF Record

LEMMA LogNextInv ==
  ASSUME FilesAreWritten, NoneIsNoMap, RecorderKeepsAll, LogInv, origin = 0, origin' = 0,
         [SyncNext]_vars
  PROVE  LogInv'
<1>1. UploadInv' /\ ClientTypes' /\ WholeInv
  BY UploadNext DEF LogInv, UploadInv, SyncInv
<1> SUFFICES RetainInv'
  BY <1>1 DEF LogInv
<1>2. total \in Nat /\ total <= total /\ total <= MaxSample /\ retained = 0
      /\ epochs \in [Epoch -> EpochState]
  BY DEF LogInv, RetainInv, UploadInv, SyncInv, ClientTypes, Inv, TypeOK, ExchangesTypeOK
<1>3. ASSUME NEW c \in Client,
             Start(c) \/ ClientStep(c) \/ ChallengeFails(c) \/ ExchangeFails(c)
      PROVE  RetainInv'
  BY <1>1, <1>3, ThreadWithin
<1>4. CASE \/ \E c \in Client : Stop(c)
           \/ \E req \in requests : LoseRequest(req)
           \/ UNCHANGED vars
  <2>1. UNCHANGED <<serverVars, recorderVars, pc, start, suffix, link, want, seen>>
        /\ requests' \subseteq requests
    BY <1>4 DEF Stop, LoseRequest, vars
  <2> QED
    BY <1>2, <2>1, QuietRetains
<1>5. ASSUME NEW e \in Epoch, Expire(e)
      PROVE  RetainInv'
  <2>1. UNCHANGED <<streamVars, waiting, reply, clientVars, recorderVars, requests>>
    BY <1>5 DEF Expire, ExpireEpoch
  <2>2. \A f \in Epoch : /\ epochs'[f].expected = epochs[f].expected
                         /\ epochs'[f].last = epochs[f].last
                         /\ epochs'[f].answer = epochs[f].answer
    BY <1>2, <1>5 DEF Expire, ExpireEpoch, EpochState
  <2> QED
    BY <1>2, <2>1, <2>2, QuietRetains
<1>6. ASSUME NEW req \in requests, Deliver(req)
      PROVE  RetainInv'
  <2>1. Takes(req)
    BY <1>6 DEF Deliver, Takes, ProcessEnvelope, CrashInPush, CrashInPersist, Reload
  <2>2. ~CrashInPersist(req)
    BY DEF CrashInPersist, Fault, FilesAreWritten
  <2>3. CASE CrashInPush(req)
    <3> DEFINE body == req.body
    <3>1. req \in Request /\ body \in Message /\ OwnedRequest(body) /\ Asks(body)
      BY RequestParts DEF LogInv, UploadInv, SyncInv, ClientTypes, Owners, RetainInv
    <3>2. PICK count \in Nat : \E log : Appends(body, count, log) /\ Reload(Files, log)
      BY <1>1, <2>3, <3>1, PushFinds
    <3>3. PICK log : Appends(body, count, log) /\ Reload(Files, log)
      BY <3>2
    <3> HIDE DEF body
    <3>4. Kept(sessions, log)
      BY <3>1, <3>3, KeptAppend
    <3>5. Len(log) \in Nat
      BY <1>1, <3>1, <3>3, AppendedStands
    <3> QED
      BY <2>1, <3>3, <3>4, <3>5, ReloadRetains DEF Takes
  <2> QED
    BY <1>6, <2>1, <2>2, <2>3, EnvelopeRetains DEF Deliver
<1>7. CASE Restart
  <2>1. Reload(Files, cache) /\ UNCHANGED <<clientVars, requests, recorderVars>>
    BY <1>1, <1>7, RestartFinds DEF Restart
  <2> QED
    BY <2>1, StreamFacts, ReloadRetains
<1>8. CASE Record
  BY <1>8, RecordRetains
<1> QED
  BY <1>3, <1>4, <1>5, <1>6, <1>7, <1>8 DEF SyncNext

LEMMA LogInitInv == SyncInit => LogInv
<1> SUFFICES ASSUME SyncInit PROVE LogInv
  OBVIOUS
<1>1. UploadInv
  BY UploadInit
<1>2. DOMAIN sessions = {} /\ Len(cache) = 0
  BY DEF SyncInit, Init, NoSessions
<1>3. \A c \in Client : ~HasLink(c) /\ ~Sending(c)
  BY SyncConstants DEF SyncInit, HasLink, Sending
<1>4. \A e \in Epoch : ~(epochs[e].expected > 0)
  BY DEF SyncInit, Init, IdleEpoch
<1>5. ASSUME NEW c \in Client
      PROVE  Within(c) /\ Told(c)
  <2>1. suffix[c] = 0 /\ want[c] = 0 /\ seen[c] = None /\ total = 0
    BY DEF SyncInit
  <2> QED
    BY <1>3, <2>1 DEF Within, Told
<1>6. Kept(sessions, cache)
  BY <1>2 DEF Kept
<1>7. retained = 0 /\ total <= MaxSample /\ requests = {}
  BY SyncConstants DEF SyncInit
<1> QED
  BY <1>1, <1>4, <1>5, <1>6, <1>7 DEF LogInv, RetainInv

\* The third invariant: where the recorder retains everything, every position anybody names
\* lies within the recording it is of, and each client has one logical stream.
THEOREM LogInvariance ==
  ASSUME FilesAreWritten, NoneIsNoMap, RecorderKeepsAll
  PROVE  SyncSpec /\ [](origin = 0) => []LogInv
<1>1. LogInv /\ origin = 0 /\ (origin = 0)' /\ [SyncNext]_vars => LogInv'
  BY LogNextInv
<1> QED
  BY <1>1, LogInitInv, PTL DEF SyncSpec

-----------------------------------------------------------------------------
(* No sample twice *)

\* A client's one stream is the only one that holds samples of it, and it holds them in
\* the order they were recorded in.
LEMMA StoredInOrder ==
  ASSUME LogInv, origin = 0, NEW i \in 1..Len(cache), NEW j \in 1..Len(cache), i < j,
         cache[i][1] = cache[j][1]
  PROVE  cache[i][2] < cache[j][2]
<1>1. PICK k \in DOMAIN sessions : InPart(sessions, cache, k, i)
  BY StreamFacts DEF Kept
<1>2. PICK l \in DOMAIN sessions : InPart(sessions, cache, l, j)
  BY StreamFacts DEF Kept
<1>3. i \in Nat /\ j \in Nat
  OBVIOUS
<1>4. cache[i][1] = sessions[k].key[1] /\ cache[j][1] = sessions[l].key[1]
  BY <1>1, <1>2, <1>3, StreamFacts DEF WholeInv, OwnSamples
<1>5. ASSUME NEW n \in DOMAIN sessions
      PROVE  sessions[n].key = <<sessions[n].key[1], 0>>
  <2>1. sessions[n].key \in Client \X Nat
    BY StreamFacts DEF Session, ClientKey
  <2>2. sessions[n].key[2] <= suffix[sessions[n].key[1]] /\ suffix[sessions[n].key[1]] = 0
    BY <2>1, StreamFacts, ClientFacts DEF KeysOK, IsKeyOf, Within
  <2> QED
    BY <2>1, <2>2
<1>6. k = l
  <2>1. sessions[k].key = sessions[l].key
    BY <1>4, <1>5
  <2> QED
    BY <2>1, StreamFacts DEF Kept
<1>7. /\ cache[i][2] = sessions[k].source + (i - sessions[k].start - 1)
      /\ cache[j][2] = sessions[k].source + (j - sessions[k].start - 1)
  BY <1>1, <1>2, <1>3, <1>6, StreamFacts DEF WholeInv, StreamsInv, Ledger, Contiguous
<1>8. sessions[k].source \in Nat /\ sessions[k].start \in Nat
  BY StreamFacts DEF Session
<1> QED
  BY <1>3, <1>7, <1>8

\* Every sample the server has acknowledged is in its cache, and none is there twice or
\* before an earlier one of its recording, over lost, late and repeated messages, expired
\* epochs, chunks cut short by a crash or at a segment boundary, and restarts: the retries
\* of send_message against the position check of push_pcm.  Writes of the JSON files and
\* of PCM succeed: a chunk of which a failed write has left a part is stored twice.
THEOREM RecordingIsStoredOnce ==
  ASSUME FilesAreWritten, NoneIsNoMap, RecorderKeepsAll
  PROVE  SyncSpec /\ [](origin = 0) => []StoredOnce
<1>1. LogInv /\ origin = 0 => NoSampleTwice
  BY StoredInOrder DEF NoSampleTwice
<1>2. UploadInv => AckedIsStored
  BY AckedStand DEF AckedIsStored
<1>3. LogInv /\ origin = 0 => StoredOnce
  BY <1>1, <1>2 DEF LogInv, StoredOnce
<1> QED
  BY <1>3, LogInvariance, PTL

-----------------------------------------------------------------------------
(* The upload is a log with one writer *)

\* The absence of a writer is no writer.
NoneIsNoWriter == None \notin [client : Client, next : Nat]

\* Steps that touch no stream are not seen in the log.
LEMMA SameWriter ==
  ASSUME UNCHANGED <<sessions, active, cache, origin, counted>>
  PROVE  UNCHANGED Log!logVars
BY DEF Log!logVars, Writer, ExpectedSample, Position

\* A new logical stream is the first of its client: nothing in the log is that client's.
LEMMA CreateTakesOver ==
  ASSUME NoneIsNoWriter, LogInv, origin = 0, origin' = 0, NEW body \in Message, body.kind = "open",
         OwnedRequest(body), Creates(body)
  PROVE  Log!TakeOver
<1> DEFINE id == issued + 1
           c == body.key[1]
<1>1. /\ active' = id /\ UNCHANGED <<cache, counted>> /\ id \in Nat /\ id # None
      /\ sessions' = WithNewSession(body, id)
  BY StreamFacts, ServerConstants DEF Creates
<1>2. /\ sessions'[id].key = body.key /\ sessions'[id].source = body.source
      /\ sessions'[id].start = Len(cache)
  BY <1>1, StreamFacts DEF WithNewSession, NewSession
<1>3. /\ c = body.from /\ c \in Client /\ body.key = <<c, 0>> /\ body.source \in Nat
  <2>1. body.key \in Client \X Nat /\ body.source \in Nat
    BY MessageParts DEF ClientKey
  <2>2. c = body.from /\ body.key[2] <= suffix[c] /\ suffix[c] = 0
    BY <2>1, ClientFacts DEF OwnedRequest, IsKeyOf, Within
  <2> QED
    BY <2>1, <2>2
<1> HIDE DEF id
<1>4. ExpectedSample(sessions[active])' = body.source
  <2>1. counted' = Len(cache) /\ Len(cache) \in Nat
    BY <1>1, StreamFacts
  <2> QED
    BY <1>1, <1>2, <1>3, <2>1 DEF ExpectedSample, Position, SaturatingSub
<1>5. Writer' = [client |-> c, next |-> body.source]
  BY <1>1, <1>2, <1>4 DEF Writer
<1>6. Writer' # None
  BY <1>3, <1>5 DEF NoneIsNoWriter
<1>7. ASSUME NEW n \in 1..Len(cache)
      PROVE  cache[n][1] # c
  <2>1. PICK i \in DOMAIN sessions : InPart(sessions, cache, i, n)
    BY StreamFacts DEF Kept
  <2>2. cache[n][1] = sessions[i].key[1]
    BY <2>1, StreamFacts DEF WholeInv, OwnSamples
  <2>3. sessions[i].key # <<c, 0>>
    BY <1>3 DEF Creates, CanCreate, KnownStreams
  <2>4. sessions[i].key = <<sessions[i].key[1], 0>>
    <3>1. sessions[i].key \in Client \X Nat
      BY StreamFacts DEF Session, ClientKey
    <3>2. sessions[i].key[2] <= suffix[sessions[i].key[1]] /\ suffix[sessions[i].key[1]] = 0
      BY <3>1, StreamFacts, ClientFacts DEF KeysOK, IsKeyOf, Within
    <3> QED
      BY <3>1, <3>2
  <2> QED
    BY <2>2, <2>3, <2>4
<1> HIDE DEF c
<1> QED
  BY <1>1, <1>5, <1>6, <1>7 DEF Log!TakeOver

\* A chunk, or the part of it that reached the disk, is the writer's next run.
LEMMA AppendExtends ==
  ASSUME NoneIsNoWriter, LogInv, origin = 0, origin' = 0, NEW body \in Message, OwnedRequest(body),
         NEW n \in Nat, Appends(body, n, cache'), CountsAgree', UNCHANGED active,
         active # None => sessions' = sessions
  PROVE  Log!LogNext
<1> DEFINE own == body.stream
           s == sessions[own]
<1>1. body.kind = "pcm" /\ own \in DOMAIN sessions /\ IsOpen(s)
  BY DEF Appends, PcmError
<1>2. /\ body.from \in Client /\ body.start \in Nat /\ body.count \in Nat /\ s.key[1] = body.from
      /\ active = own /\ active # None /\ sessions' = sessions
  BY <1>1, StreamFacts, MessageParts DEF OwnedRequest, IsStreamOf
<1>3. /\ s \in Session /\ s.start \in Nat /\ s.start <= Len(cache) /\ Len(cache) \in Nat
      /\ counted = Len(cache)
  BY <1>1, StreamFacts
<1>4. cache' = cache \o Samples(body.from, body.start, n) /\ body.start = ExpectedSample(s)
  BY DEF Appends, InPlace
<1>5. Len(cache') = Len(cache) + n
  <2>1. CacheTypeOK
    BY StreamFacts
  <2> QED
    BY <1>2, <1>4, <2>1, AppendedSamples
<1>6. counted' = Len(cache) + n
  BY <1>3, <1>5 DEF CountsAgree
<1>7. ExpectedSample(s) = s.source + (Len(cache) - s.start)
  BY <1>3 DEF ExpectedSample, Position, SaturatingSub
<1>8. ExpectedSample(sessions[active])' = s.source + (Len(cache) + n - s.start)
  <2>1. ExpectedSample(sessions[active])' = s.source + SaturatingSub(Len(cache) + n, s.start)
    BY <1>2, <1>6 DEF ExpectedSample, Position, SaturatingSub
  <2> HIDE DEF s
  <2>2. SaturatingSub(Len(cache) + n, s.start) = Len(cache) + n - s.start
    BY <1>3 DEF SaturatingSub
  <2> QED
    BY <2>1, <2>2
<1>9. s.source \in Nat
  BY <1>3 DEF Session
<1>10. ExpectedSample(sessions[active])' = body.start + n
  BY <1>3, <1>4, <1>7, <1>8, <1>9
<1>11. Writer = [client |-> body.from, next |-> body.start]
  BY <1>2, <1>4 DEF Writer
<1>12. Writer' = [client |-> body.from, next |-> body.start + n]
  BY <1>2, <1>10 DEF Writer
<1>13. Writer # None
  BY <1>2, <1>11 DEF NoneIsNoWriter
<1>14. Log!Run(body.from, body.start, n) = Samples(body.from, body.start, n)
  BY DEF Log!Run, Samples
<1> HIDE DEF s, own
<1>15. Log!Extend(n)
  BY <1>4, <1>11, <1>12, <1>13, <1>14 DEF Log!Extend
<1>16. n \in 0..(Len(cache') - Len(cache))
  BY <1>3, <1>5
<1> QED
  BY <1>15, <1>16 DEF Log!LogNext

\* The writer whose stream ends is gone; the end of a stream that was cut off before is not
\* seen.
LEMMA EndReleases ==
  ASSUME LogInv, origin = 0, NEW body, Ends(body)
  PROVE  Log!LogNext \/ UNCHANGED Log!logVars
<1>1. UNCHANGED <<cache, origin, counted>> /\ active' = IF active = body.stream THEN None ELSE active
  BY DEF Ends, EndSession
<1>2. CASE active = body.stream
  <2>1. Writer' = None
    BY <1>1, <1>2 DEF Writer
  <2> QED
    BY <1>1, <2>1 DEF Log!LogNext, Log!Release
<1>3. CASE active # body.stream
  <2>1. active # None => sessions'[active] = sessions[active]
    BY <1>3, StreamFacts DEF Ends, EndSession
  <2>2. Writer' = Writer
    BY <1>1, <1>3, <2>1 DEF Writer, ExpectedSample, Position
  <2> QED
    BY <1>1, <2>2 DEF Log!logVars
<1> QED
  BY <1>2, <1>3

\* A restart finds the same writer.
LEMMA ReloadWriter ==
  ASSUME NoneIsNoMap, LogInv, Inv', origin = 0, NEW log, Reload(Files, log)
  PROVE  /\ active' = active /\ cache' = log /\ (active # None => sessions' = sessions)
         /\ CountsAgree'
<1>1. /\ sessions' = sessions \/ (DOMAIN sessions = {} /\ DOMAIN sessions' = {})
      /\ cache' = log /\ CountsAgree'
  BY StreamFacts, ReloadFinds DEF WholeInv, StreamsInv, Saved
<1>2. active # None => active \in DOMAIN sessions /\ IsOpen(sessions[active])
  BY StreamFacts
<1>3. active' # None => active' \in DOMAIN sessions' /\ IsOpen(sessions'[active'])
  BY DEF Inv, OneOpenSession, TypeOK, SessionsTypeOK
<1>4. \A i \in DOMAIN sessions : IsOpen(sessions[i]) => active = i
  BY StreamFacts
<1>5. \A i \in DOMAIN sessions' : IsOpen(sessions'[i]) => active' = i
  BY DEF Inv, OneOpenSession
<1> QED
  BY <1>1, <1>2, <1>3, <1>4, <1>5

\* Every step of the upload is one of the log, or none.
LEMMA LogStep ==
  ASSUME FilesAreWritten, NoneIsNoMap, NoneIsNoWriter, LogInv, Inv', origin = 0, origin' = 0,
         [SyncNext]_vars
  PROVE  Log!LogNext \/ UNCHANGED Log!logVars
<1>1. UploadInv /\ SyncInv
  BY DEF LogInv, UploadInv
<1>2. ASSUME UNCHANGED streamVars
      PROVE  UNCHANGED Log!logVars
  BY <1>2, SameWriter
<1>3. ASSUME NEW c \in Client,
             Start(c) \/ ClientStep(c) \/ ChallengeFails(c) \/ ExchangeFails(c)
      PROVE  UNCHANGED Log!logVars
  BY <1>1, <1>2, <1>3, ThreadStands
<1>4. CASE \/ \E c \in Client : Stop(c)
           \/ \E req \in requests : LoseRequest(req)
           \/ \E e \in Epoch : Expire(e)
           \/ Record
           \/ UNCHANGED vars
  <2>1. UNCHANGED streamVars
    BY <1>4 DEF Stop, LoseRequest, Expire, ExpireEpoch, Record, vars
  <2> QED
    BY <1>2, <2>1
<1>5. ASSUME NEW req \in requests, Deliver(req)
      PROVE  Log!LogNext \/ UNCHANGED Log!logVars
  <2> DEFINE body == req.body
  <2>1. req \in Request /\ body \in Message /\ OwnedRequest(body)
    BY <1>1, RequestParts DEF SyncInv, ClientTypes, Owners
  <2>2. ~CrashInPersist(req)
    BY DEF CrashInPersist, Fault, FilesAreWritten
  <2>3. CASE ProcessEnvelope(req)
    <3>1. CASE body.kind = "open" /\ Creates(body)
      <4>1. Log!TakeOver
        BY <2>1, <3>1, CreateTakesOver
      <4> QED
        BY <4>1 DEF Log!LogNext
    <3>2. ASSUME NEW n \in Nat, Appends(body, n, cache'), UNCHANGED <<sessions, active>>
          PROVE  Log!LogNext
      <4>1. CountsAgree'
        BY <2>1, <2>3, StreamFacts, SavedEffect DEF WholeInv, StreamsInv, Saved
      <4> HIDE DEF body
      <4> QED
        BY <2>1, <3>2, <4>1, AppendExtends
    <3>3. CASE Ends(body)
      BY <3>3, EndReleases
    <3> QED
      BY <1>2, <2>1, <2>3, <3>1, <3>2, <3>3, StreamFacts, StreamEffect DEF WholeInv, StreamsInv
  <2>4. CASE CrashInPush(req)
    <3>1. PICK count \in Nat : \E log : Appends(body, count, log) /\ Reload(Files, log)
      BY <2>1, <2>4, StreamFacts, PushFinds
    <3>2. PICK log : Appends(body, count, log) /\ Reload(Files, log)
      BY <3>1
    <3>3. /\ active' = active /\ cache' = log /\ (active # None => sessions' = sessions)
          /\ CountsAgree'
      BY <3>2, ReloadWriter
    <3>4. Appends(body, count, cache')
      BY <3>2, <3>3
    <3> HIDE DEF body
    <3> QED
      BY <2>1, <3>3, <3>4, AppendExtends
  <2> QED
    BY <1>5, <2>2, <2>3, <2>4 DEF Deliver
<1>6. CASE Restart
  <2>1. Reload(Files, cache)
    BY <1>6, StreamFacts, RestartFinds
  <2>2. /\ active' = active /\ cache' = cache /\ (active # None => sessions' = sessions)
        /\ CountsAgree'
    BY <2>1, ReloadWriter
  <2>3. counted' = counted
    BY <2>2, StreamFacts DEF CountsAgree
  <2> QED
    BY <2>2, <2>3 DEF Log!logVars, Writer, ExpectedSample, Position
<1> QED
  BY <1>3, <1>4, <1>5, <1>6 DEF SyncNext

\* The upload is the log that UploadLog describes: its active stream is the one writer,
\* who appends a gapless run of its own recording; a message, a retry, a chunk cut short by
\* a crash or at a segment boundary and a restart each take over, extend, release or are not
\* seen.  Writes of the JSON files and of PCM succeed.
THEOREM UploadImplementsLog ==
  ASSUME FilesAreWritten, NoneIsNoMap, NoneIsNoWriter, RecorderKeepsAll
  PROVE  SyncSpec /\ [](origin = 0) => ImplementsLog
<1>1. LogInv /\ LogInv' /\ origin = 0 /\ (origin = 0)' /\ [SyncNext]_vars
        => [Log!LogNext]_(Log!logVars)
  <2>1. LogInv' => Inv'
    BY DEF LogInv, UploadInv, SyncInv
  <2> QED
    BY <2>1, LogStep
<1>2. SyncInit => Log!LogInit
  BY DEF SyncInit, Init, Log!LogInit, Writer
<1> QED
  BY <1>1, <1>2, LogInvariance, PTL DEF SyncSpec, ImplementsLog, Log!LogSpec

=============================================================================
