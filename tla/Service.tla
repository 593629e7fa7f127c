------------------------------- MODULE Service -------------------------------
(***************************************************************************)
(* One process of echoclip_server around its StreamManager: how a request  *)
(* is admitted, which locks challenge, process_envelope and                *)
(* reset_upload_key take and in which order, the table of epochs, the key  *)
(* in memory and in its file, and the service loop that reboots within the *)
(* process.                                                                *)
(*                                                                         *)
(* Each turn of the service loop makes credentials, epoch table and        *)
(* StreamManager anew: they are indexed by the turn ("server").  A request *)
(* that is processed on a blocking thread goes on when its connection is   *)
(* gone, with what its own server has left to it.  What a message does to  *)
(* the streams, and which sequence numbers an epoch takes, is the matter   *)
(* of UploadServer; here it is taken or it is not.                         *)
(***************************************************************************)
EXTENDS Naturals, FiniteSets

CONSTANTS
  None,
  Slot,            \* requests under way are told apart by their slot, a number
  Peer,            \* addresses they come from
  Kinds,           \* which requests are made, of RequestKind
  Breaks,          \* kinds of requests whose connection may break
  MaxRequests,     \* max_requests_per_minute_per_ip
  MaxConnections,  \* max_connections_per_ip
  MaxPending,      \* max_pending_challenges
  Minute,          \* the length of a rate window
  Ttl,             \* challenge_ttl_seconds
  Idle,            \* epoch_idle_seconds
  ReplacesAtOnce,  \* rename replaces a file (Unix), or it is removed first
  FaultKinds,      \* which faults happen
  MaxArrivals, MaxTime, MaxServers, MaxFaults  \* bounds

RequestKind == {"challenge", "envelope", "reset"}
FaultKind == {"write", "replace", "crash"}

ASSUME ServiceConstants ==
  /\ Kinds \subseteq RequestKind /\ Breaks \subseteq {"envelope", "reset"}
  /\ FaultKinds \subseteq FaultKind /\ ReplacesAtOnce \in BOOLEAN
  /\ {MaxRequests, MaxConnections, MaxPending, Minute, Ttl, Idle} \subseteq Nat
  /\ {MaxArrivals, MaxTime, MaxFaults} \subseteq Nat /\ MaxServers \in Nat \ {0}
  /\ Slot \subseteq Nat /\ None \notin Nat

VARIABLES
  now,       \* unix_seconds_now
  phase,     \* the server listens ("up") or shuts down ("stopping")
  server,    \* which turn of the service loop it is
  key,       \* UploadCredentials of each server, by the number of their key
  readers,   \* slots that keep a read lock on them
  writer,    \* the slot that holds their write lock
  table,     \* EpochMap of each server: the epochs in it
  tableLock, \* the slot that holds its lock
  epoch,     \* EpochState of every epoch so far, by its number
  keyFile,   \* the key in upload.key_file, None while there is no such file
  keys,      \* how many keys have been generated
  window,    \* request_rate
  inFlight,  \* in_flight
  request,   \* what is under way in each slot
  arrivals, faults

lockVars  == <<readers, writer, tableLock>>
keyVars   == <<key, keyFile, keys>>
epochVars == <<table, epoch>>
entryVars == <<window, inFlight, arrivals>>
turnVars  == <<phase, server>>
vars == <<now, turnVars, keyVars, lockVars, epochVars, entryVars, request, faults>>

-----------------------------------------------------------------------------
(* Requests *)

Free == [at |-> "free"]
IsBusy(r) == request[r] # Free

\* A new request takes the first slot that is free.
IsNew(r) == ~IsBusy(r) /\ \A q \in Slot : q < r => IsBusy(q)

\* A request of a kind, with the guard of enter_upload_request and an open
\* connection; "key" and "epoch" are those an envelope is sealed under.
Begun(kind, peer, at, k, e) ==
  [at |-> at, kind |-> kind, peer |-> peer, server |-> server, key |-> k, epoch |-> e,
   time |-> 0, left |-> {}, connected |-> TRUE]

Goes(r, at) == request' = [request EXCEPT ![r].at = at]

\* Mutant of Leaves: the guard is given back although a broken connection has
\* given it back before.
LeavesTwice(r) == request[r].kind # "reset"

\* The guard is dropped with the handler: at the end, or when the connection
\* breaks.
Leaves(r) == request[r].kind # "reset" /\ request[r].connected

GiveBack(p) == inFlight' = [inFlight EXCEPT ![p] = IF @ = 0 THEN 0 ELSE @ - 1]

Finish(r) ==
  /\ request' = [request EXCEPT ![r] = Free]
  /\ IF Leaves(r) THEN GiveBack(request[r].peer) ELSE UNCHANGED inFlight

Unread(r) == readers' = [readers EXCEPT ![request[r].server] = @ \ {r}]

Fault(kind) ==
  /\ kind \in FaultKinds /\ faults < MaxFaults
  /\ faults' = faults + 1

-----------------------------------------------------------------------------
(* Admission *)

NoWindow == [start |-> 0, count |-> 0]

\* request_rate with this request counted: a window that has passed is forgotten.
Counted(p) ==
  IF window[p].count > 0 /\ now - window[p].start < Minute
  THEN [window[p] EXCEPT !.count = @ + 1]
  ELSE [start |-> now, count |-> 1]

MayEnter(p) == Counted(p).count <= MaxRequests /\ inFlight[p] < MaxConnections

\* enter_upload_request.  Refused requests count as well; a body that is too
\* large or malformed is refused behind the same guard.
Arrive(r, kind, p) ==
  /\ phase = "up" /\ IsNew(r) /\ arrivals < MaxArrivals
  /\ arrivals' = arrivals + 1
  /\ window' = [window EXCEPT ![p] = Counted(p)]
  /\ \/ UNCHANGED <<inFlight, request>>
     \/ /\ MayEnter(p)
        /\ inFlight' = [inFlight EXCEPT ![p] = @ + 1]
        /\ \E k \in 1..keys :
             \/ /\ kind = "challenge"
                /\ request' = [request EXCEPT ![r] = Begun(kind, p, "challenge", k, None)]
             \/ /\ kind = "envelope"
                /\ \E e \in DOMAIN epoch :
                     request' = [request EXCEPT ![r] = Begun(kind, p, "envelope", k, e)]
  /\ UNCHANGED <<now, turnVars, keyVars, lockVars, epochVars, faults>>

\* The control interface has no such limits.
Control(r, p) ==
  /\ phase = "up" /\ IsNew(r) /\ arrivals < MaxArrivals
  /\ arrivals' = arrivals + 1
  /\ request' = [request EXCEPT ![r] = Begun("reset", p, "write file", None, None)]
  /\ UNCHANGED <<now, turnVars, keyVars, lockVars, epochVars, window, inFlight, faults>>

\* The peer gives up.  The handler is dropped where it waits for its blocking
\* thread; the thread is not.
Break(r) ==
  /\ IsBusy(r) /\ request[r].kind \in Breaks /\ request[r].connected
  /\ request' = [request EXCEPT ![r].connected = FALSE]
  /\ IF request[r].kind = "reset" THEN UNCHANGED inFlight ELSE GiveBack(request[r].peer)
  /\ UNCHANGED <<now, turnVars, keyVars, lockVars, epochVars, window, arrivals, faults>>

-----------------------------------------------------------------------------
(* Challenges *)

\* Mutant of Keeps: the credentials are copied and their lock is let go.
KeepsNothing(r) == UNCHANGED readers

\* The read lock on the credentials is kept to the end of the request.
Keeps(r) == readers' = [readers EXCEPT ![request[r].server] = @ \cup {r}]

\* Both kinds of requests compare their key id under the read lock.
CheckKey(r, from, to) ==
  LET s == request[r].server IN
  /\ request[r].at = from
  /\ writer[s] = None
  /\ \/ request[r].key # key[s] /\ Finish(r) /\ UNCHANGED readers
     \/ /\ request[r].key = key[s]
        /\ Keeps(r)
        /\ request' = [request EXCEPT ![r].at = to, ![r].time = now]
        /\ UNCHANGED inFlight
  /\ UNCHANGED <<now, turnVars, keyVars, writer, tableLock, epochVars, window, arrivals, faults>>

EnterChallenge(r) == CheckKey(r, "challenge", "lock table")

LockTable(r) ==
  LET s == request[r].server IN
  /\ request[r].at = "lock table" /\ tableLock[s] = None
  /\ tableLock' = [tableLock EXCEPT ![s] = r]
  /\ request' = [request EXCEPT ![r].at = "sweep", ![r].left = table[s]]
  /\ UNCHANGED <<now, turnVars, keyVars, readers, writer, epochVars, entryVars, faults>>

Expired(e, time) ==
  IF epoch[e].active THEN epoch[e].seen + Idle < time ELSE epoch[e].expires < time

\* retain looks at each epoch under its lock, with the table locked.
Sweep(r, e) ==
  /\ request[r].at = "sweep" /\ e \in request[r].left
  /\ epoch[e].holder = None
  /\ request' = [request EXCEPT ![r].left = @ \ {e}]
  /\ table' = [table EXCEPT ![request[r].server] =
                 IF Expired(e, request[r].time) THEN @ \ {e} ELSE @]
  /\ UNCHANGED <<now, turnVars, keyVars, lockVars, epoch, entryVars, faults>>

NewEpoch(r) ==
  [expires |-> request[r].time + Ttl, seen |-> request[r].time, active |-> FALSE,
   holder |-> None, key |-> request[r].key]

Issue(r) ==
  LET s == request[r].server
      e == Cardinality(DOMAIN epoch) + 1
  IN
  /\ request[r].at = "sweep" /\ request[r].left = {}
  /\ \/ Cardinality(table[s]) >= MaxPending /\ UNCHANGED epochVars
     \/ /\ Cardinality(table[s]) < MaxPending
        /\ epoch' = [i \in 1..e |-> IF i = e THEN NewEpoch(r) ELSE epoch[i]]
        /\ table' = [table EXCEPT ![s] = @ \cup {e}]
  /\ tableLock' = [tableLock EXCEPT ![s] = None]
  /\ Unread(r) /\ Finish(r)
  /\ UNCHANGED <<now, turnVars, keyVars, writer, window, arrivals, faults>>

-----------------------------------------------------------------------------
(* Envelopes *)

EnterEnvelope(r) == CheckKey(r, "envelope", "look up")

Rejected(r) == Unread(r) /\ Finish(r)

\* The table's lock is let go before the epoch's is taken.
LookUp(r) ==
  LET s == request[r].server IN
  /\ request[r].at = "look up" /\ tableLock[s] = None
  /\ \/ request[r].epoch \notin table[s] /\ Rejected(r)
     \/ /\ request[r].epoch \in table[s]
        /\ Goes(r, "lock epoch") /\ UNCHANGED <<readers, inFlight>>
  /\ UNCHANGED <<now, turnVars, keyVars, writer, tableLock, epochVars, window, arrivals, faults>>

IsExpired(e) == Expired(e, now)

LockEpoch(r) ==
  LET e == request[r].epoch IN
  /\ request[r].at = "lock epoch" /\ epoch[e].holder = None
  /\ \/ IsExpired(e) /\ Rejected(r) /\ UNCHANGED epoch
     \/ /\ ~IsExpired(e)
        /\ epoch' = [epoch EXCEPT ![e].holder = r]
        /\ request' = [request EXCEPT ![r].at = "handle", ![r].time = now]
        /\ UNCHANGED <<readers, inFlight>>
  /\ UNCHANGED <<now, turnVars, keyVars, writer, tableLock, table, window, arrivals, faults>>

\* The message is handled or answered again, which keeps its epoch alive, or it is
\* refused for its sequence number or its seal.
Handle(r) ==
  LET e == request[r].epoch IN
  /\ request[r].at = "handle"
  /\ \/ epoch' = [epoch EXCEPT ![e].active = TRUE, ![e].seen = request[r].time,
                               ![e].holder = None]
     \/ epoch' = [epoch EXCEPT ![e].holder = None]
  /\ Rejected(r)
  /\ UNCHANGED <<now, turnVars, keyVars, writer, tableLock, table, window, arrivals, faults>>

-----------------------------------------------------------------------------
(* reset_upload_key *)

\* The replacement is written beside the key file.
WriteFile(r) ==
  /\ request[r].at = "write file"
  /\ \/ /\ keys' = keys + 1
        /\ request' = [request EXCEPT ![r].at = "first lock", ![r].key = keys']
        /\ UNCHANGED <<inFlight, faults>>
     \/ Fault("write") /\ Finish(r) /\ UNCHANGED keys
  /\ UNCHANGED <<now, turnVars, key, keyFile, lockVars, epochVars, window, arrivals>>

\* Mutant of ResetLocks: the table is locked before the credentials.
ResetLocksReversed == [first |-> "table", second |-> "credentials"]

ResetLocks == [first |-> "credentials", second |-> "table"]

Acquire(r, what) ==
  LET s == request[r].server IN
  \/ /\ what = "credentials" /\ writer[s] = None /\ readers[s] = {}
     /\ writer' = [writer EXCEPT ![s] = r] /\ UNCHANGED tableLock
  \/ /\ what = "table" /\ tableLock[s] = None
     /\ tableLock' = [tableLock EXCEPT ![s] = r] /\ UNCHANGED writer

LockForReset(r) ==
  /\ \/ request[r].at = "first lock" /\ Acquire(r, ResetLocks.first) /\ Goes(r, "second lock")
     \/ request[r].at = "second lock" /\ Acquire(r, ResetLocks.second) /\ Goes(r, "replace")
  /\ UNCHANGED <<now, turnVars, keyVars, readers, epochVars, entryVars, faults>>

\* The key in memory, and the table of epochs.
NewCredentials(r) ==
  /\ key' = [key EXCEPT ![request[r].server] = request[r].key]
  /\ table' = [table EXCEPT ![request[r].server] = {}]

\* Mutant of Replaced: an error of replace_key_file is not looked at.
ReplacedAnyway(r) ==
  /\ NewCredentials(r)
  /\ \/ keyFile' = request[r].key /\ UNCHANGED faults
     \/ Fault("replace") /\ UNCHANGED keyFile

\* Under both locks: the file first, then the credentials and the table.
Replaced(r) ==
  \/ keyFile' = request[r].key /\ NewCredentials(r) /\ UNCHANGED faults
  \/ /\ Fault("replace")
     /\ keyFile' \in IF ReplacesAtOnce THEN {keyFile} ELSE {keyFile, None}
     /\ UNCHANGED <<key, table>>

Replace(r) ==
  LET s == request[r].server IN
  /\ request[r].at = "replace"
  /\ Replaced(r)
  /\ writer' = [writer EXCEPT ![s] = None]
  /\ tableLock' = [tableLock EXCEPT ![s] = None]
  /\ Finish(r)
  /\ UNCHANGED <<now, turnVars, keys, readers, epoch, window, arrivals>>

-----------------------------------------------------------------------------
(* The service loop *)

\* serve_once: a key file that is not there is made; the rest begins empty.
Serve ==
  LET s == server + 1 IN
  /\ server < MaxServers
  /\ server' = s /\ phase' = "up"
  /\ keys' = IF keyFile = None THEN keys + 1 ELSE keys
  /\ keyFile' = IF keyFile = None THEN keys' ELSE keyFile
  /\ key' = [key EXCEPT ![s] = keyFile']
  /\ window' = [p \in Peer |-> NoWindow]
  /\ inFlight' = [p \in Peer |-> 0]

\* echoclip reboot
Shutdown ==
  /\ phase = "up" /\ server < MaxServers
  /\ phase' = "stopping"
  /\ UNCHANGED <<now, server, keyVars, lockVars, epochVars, entryVars, request, faults>>

\* The listeners end when their connections have.
Reboot ==
  /\ phase = "stopping"
  /\ \A r \in Slot : IsBusy(r) => ~request[r].connected
  /\ Serve
  /\ UNCHANGED <<now, lockVars, epochVars, request, arrivals, faults>>

\* The process dies and is started again.
Crash ==
  /\ Fault("crash")
  /\ Serve
  /\ request' = [r \in Slot |-> Free]
  /\ readers' = [s \in 1..MaxServers |-> {}]
  /\ writer' = [s \in 1..MaxServers |-> None]
  /\ tableLock' = [s \in 1..MaxServers |-> None]
  /\ epoch' = [e \in DOMAIN epoch |-> [epoch[e] EXCEPT !.holder = None]]
  /\ UNCHANGED <<now, table, arrivals>>

Tick ==
  /\ now < MaxTime
  /\ now' = now + 1
  /\ UNCHANGED <<turnVars, keyVars, lockVars, epochVars, entryVars, request, faults>>

Init ==
  /\ now = 0 /\ phase = "up" /\ server = 1
  /\ keys = 1 /\ keyFile = 1
  /\ key = [s \in 1..MaxServers |-> IF s = 1 THEN 1 ELSE None]
  /\ readers = [s \in 1..MaxServers |-> {}]
  /\ writer = [s \in 1..MaxServers |-> None]
  /\ tableLock = [s \in 1..MaxServers |-> None]
  /\ table = [s \in 1..MaxServers |-> {}]
  /\ epoch = [e \in {} |-> None]
  /\ window = [p \in Peer |-> NoWindow]
  /\ inFlight = [p \in Peer |-> 0]
  /\ request = [r \in Slot |-> Free]
  /\ arrivals = 0 /\ faults = 0

Step(r) ==
  \/ EnterChallenge(r) \/ LockTable(r) \/ Issue(r)
  \/ \E e \in DOMAIN epoch : Sweep(r, e)
  \/ EnterEnvelope(r) \/ LookUp(r) \/ LockEpoch(r) \/ Handle(r)
  \/ WriteFile(r) \/ LockForReset(r) \/ Replace(r)

Next ==
  \/ \E r \in Slot, p \in Peer, kind \in Kinds :
       IF kind = "reset" THEN Control(r, p) ELSE Arrive(r, kind, p)
  \/ \E r \in Slot : Step(r) \/ Break(r)
  \/ Shutdown \/ Reboot \/ Crash \/ Tick

Spec == Init /\ [][Next]_vars

\* As long as a request can go on, some request does.  No more is needed: each
\* step takes its request forward, and arrivals are bounded.
FairSpec == Spec /\ WF_vars(\E r \in Slot : Step(r))

-----------------------------------------------------------------------------
(* Properties *)

Places ==
  {"challenge", "lock table", "sweep", "envelope", "look up", "lock epoch", "handle",
   "write file", "first lock", "second lock", "replace"}

IsRequest(q) ==
  /\ q.at \in Places /\ q.kind \in RequestKind /\ q.peer \in Peer
  /\ q.server \in 1..server /\ q.key \in 1..keys \cup {None}
  /\ q.epoch \in DOMAIN epoch \cup {None}
  /\ q.time \in 0..now /\ q.left \subseteq DOMAIN epoch /\ q.connected \in BOOLEAN

Entered(p) ==
  {r \in Slot : IsBusy(r) /\ request[r].kind # "reset" /\ request[r].connected
                /\ request[r].peer = p}

\* Every variable has its type, and in_flight counts the connections it limits.
TypeOK ==
  /\ now \in 0..MaxTime /\ phase \in {"up", "stopping"} /\ server \in 1..MaxServers
  /\ keyFile \in 1..keys \cup {None}
  /\ \A s \in 1..MaxServers :
       /\ key[s] \in 1..keys \cup {None} /\ table[s] \subseteq DOMAIN epoch
       /\ readers[s] \subseteq Slot /\ {writer[s], tableLock[s]} \subseteq Slot \cup {None}
       /\ writer[s] # None => readers[s] = {}
       /\ Cardinality(table[s]) <= MaxPending
  /\ \A r \in Slot : IsBusy(r) => IsRequest(request[r])
  /\ \A e \in DOMAIN epoch : epoch[e].holder \in Slot \cup {None}
  /\ \A p \in Peer :
       inFlight[p] = Cardinality(Entered(p)) /\ inFlight[p] <= MaxConnections

\* docs/REALTIME_SERVER_SYNC_DESIGN 9: reset key replaces the key on disk and in
\* memory as one.  A restart that finds another key than the server had, or none
\* and makes one, would lock every client out.
KeyIsOnDisk == writer[server] = None => keyFile = key[server]

\* deploy/server/README: the old key is void at once.  No message is handled under
\* it after the reset, however far its request had come, and none of its epochs
\* is left to a client, not even one a challenge was about to issue.
OldKeyIsDead ==
  \A s \in 1..server :
    /\ \A e \in table[s] : epoch[e].key = key[s]
    /\ \A r \in Slot : request[r].at = "handle" /\ request[r].server = s
                         => request[r].key = key[s]

\* A message is handled only in an epoch the table still has: between the look-up
\* and the epoch's lock, a sweep or a reset may take it out.
HandledInTheTable ==
  \A r \in Slot : request[r].at = "handle" => request[r].epoch \in table[request[r].server]

\* A message is handled under the key and in an epoch that the server has.
HandledAsAdmitted == OldKeyIsDead /\ HandledInTheTable

\* docs/REALTIME_SERVER_SYNC_DESIGN 6.2: an instance keeps one recorder.  A message
\* is handled by the StreamManager that serves, not by one whose cache its
\* successor has opened.
OneManager == \A r \in Slot : request[r].at = "handle" => request[r].server = server

\* Credentials, table and epochs are locked in one order: no requests wait
\* for each other, and all come to an end.
RequestsEnd == []<>(\A r \in Slot : ~IsBusy(r))

=============================================================================
