---------------------------- MODULE Service_proofs ----------------------------
(***************************************************************************)
(* What the order of the locks in challenge, process_envelope and          *)
(* reset_upload_key is for: no message is handled under a key or in an     *)
(* epoch that is gone, and what in_flight counts is what it limits; for    *)
(* any number of requests, servers and faults.                             *)
(***************************************************************************)
EXTENDS Service, FiniteSetTheorems, TLAPS

Server == 1..MaxServers

ARequest ==
  [at : Places, kind : RequestKind, peer : Peer, server : Nat, key : Nat \cup {None},
   epoch : Nat \cup {None}, time : Nat, left : SUBSET Nat, connected : BOOLEAN]

AnEpoch ==
  [expires : Nat, seen : Nat, active : BOOLEAN, holder : Nat \cup {None},
   key : Nat \cup {None}]

Types ==
  /\ now \in Nat /\ server \in Server
  /\ key \in [Server -> Nat \cup {None}]
  /\ keys \in Nat /\ keyFile \in Nat \cup {None}
  /\ readers \in [Server -> SUBSET Slot]
  /\ writer \in [Server -> Slot \cup {None}]
  /\ tableLock \in [Server -> Slot \cup {None}]
  /\ table \in [Server -> SUBSET Nat]
  /\ \E n \in Nat : epoch \in [1..n -> AnEpoch]
  /\ request \in [Slot -> ARequest \cup {Free}]

\* The places at which a request keeps a read lock on the credentials, having found
\* its key to be theirs.
Reading == {"lock table", "sweep", "look up", "lock epoch", "handle"}

(* What a request q of slot r relies on.  An envelope that has been looked   *)
(* up is in an epoch of the table, or in one that a sweep has taken out; and *)
(* that one has expired for good, for only a message handled in it would     *)
(* give it more time.                                                        *)
Relies(r, q) ==
  q # Free =>
    /\ q.server <= server /\ q.server \in Server /\ q.time <= now
    /\ q.at \in Reading => r \in readers[q.server] /\ q.key = key[q.server]
    /\ q.at = "sweep" => q.left \subseteq DOMAIN epoch
    /\ q.at = "replace" \/ q.at = "second lock" => writer[q.server] = r
    /\ q.at = "lock epoch" =>
         /\ q.epoch \in DOMAIN epoch
         /\ \A s \in Server : q.epoch \in table[s] => s = q.server
         /\ q.epoch \in table[q.server] \/ Expired(q.epoch, now)
    /\ q.at = "handle" =>
         q.epoch \in table[q.server] /\ epoch[q.epoch].holder = r

Locked == \A s \in Server : writer[s] # None => readers[s] = {}

\* Tables belong to one server each, and hold epochs of its key.
Tables ==
  /\ \A s \in Server : \A e \in table[s] :
       /\ e \in DOMAIN epoch /\ epoch[e].key = key[s]
       /\ s <= server
       /\ \A u \in Server : e \in table[u] => u = s
  /\ \A s \in Server : s > server => table[s] = {}

Inv == Types /\ Locked /\ Tables /\ \A r \in Slot : Relies(r, request[r])

-----------------------------------------------------------------------------
(* Requests as records *)

\* What is common to the constants of the proofs.
LEMMA Numbers ==
  ASSUME ServiceConstants
  PROVE  /\ MaxServers \in Nat /\ Ttl \in Nat /\ Idle \in Nat /\ MaxTime \in Nat
         /\ Slot \subseteq Nat /\ None \notin Nat /\ None \notin Slot
BY DEF ServiceConstants

LEMMA Successor == \A n \in Nat : n <= n /\ n <= n + 1 /\ n + 1 \in Nat
OBVIOUS

\* A request goes on to its next place.
LEMMA GoesType ==
  ASSUME Types, NEW r \in Slot, request[r] # Free, NEW at \in Places, Goes(r, at)
  PROVE  /\ request' \in [Slot -> ARequest \cup {Free}]
         /\ \A q \in Slot \ {r} : request'[q] = request[q]
         /\ request[r] \in ARequest /\ request'[r] \in ARequest
         /\ request'[r] = [request[r] EXCEPT !.at = at]
<1>1. request[r] \in ARequest /\ request \in [Slot -> ARequest \cup {Free}]
  BY DEF Types
<1>2. request' = [request EXCEPT ![r] = [request[r] EXCEPT !.at = at]]
  BY DEF Goes
<1>3. [request[r] EXCEPT !.at = at] \in ARequest
  BY <1>1 DEF ARequest
<1> QED
  BY <1>1, <1>2, <1>3

\* A request ends.
LEMMA FinishType ==
  ASSUME Types, NEW r \in Slot, Finish(r)
  PROVE  /\ request' \in [Slot -> ARequest \cup {Free}]
         /\ \A q \in Slot \ {r} : request'[q] = request[q]
         /\ request'[r] = Free
BY DEF Types, Finish

\* An epoch that has expired stays so.
LEMMA StaysExpired ==
  ASSUME ServiceConstants, NEW e \in DOMAIN epoch, epoch[e] \in AnEpoch,
         NEW time \in Nat, NEW later \in Nat, time <= later, Expired(e, time)
  PROVE  Expired(e, later)
<1>1. epoch[e].seen \in Nat /\ epoch[e].expires \in Nat
  BY DEF AnEpoch
<1> QED
  BY <1>1, Numbers DEF Expired

\* A step that changes neither tables nor epochs nor keys and gives up no lock leaves
\* the others as they are; only what the request itself relies on is to be shown.
LEMMA QuietStep ==
  ASSUME ServiceConstants, Inv, Types', Locked', NEW r \in Slot,
         UNCHANGED <<server, key, table, epoch>>, now' = now,
         \A q \in Slot \ {r} : request'[q] = request[q],
         \A s \in Server : \A q \in Slot \ {r} :
           /\ q \in readers[s] => q \in readers'[s]
           /\ writer[s] = q => writer'[s] = q,
         Relies(r, request[r])'
  PROVE  Inv'
<1>1. Tables'
  BY DEF Inv, Tables
<1>2. ASSUME NEW q \in Slot \ {r}
      PROVE  Relies(q, request[q])'
  <2>1. Relies(q, request[q]) /\ request'[q] = request[q]
    BY <1>2 DEF Inv
  <2> SUFFICES ASSUME request[q] # Free
               PROVE  Relies(q, request[q])'
    BY <2>1 DEF Relies
  <2>2. request[q].server \in Server
    BY <2>1 DEF Relies
  <2>3. /\ q \in readers[request[q].server] => q \in readers'[request[q].server]
        /\ writer[request[q].server] = q => writer'[request[q].server] = q
    BY <1>2, <2>2
  <2>4. Expired(request[q].epoch, now)' <=> Expired(request[q].epoch, now)
    BY <2>1 DEF Expired
  <2> QED
    BY <2>1, <2>2, <2>3, <2>4 DEF Relies
<1> QED
  BY <1>1, <1>2 DEF Inv

LEMMA IsUnderWay ==
  ASSUME NEW r \in Slot, request[r].at \in Places
  PROVE  request[r] # Free
<1>1. Free.at = "free" /\ "free" \notin Places
  BY DEF Places, Free
<1> QED
  BY <1>1

\* What is known of a request under way.
LEMMA UnderWay ==
  ASSUME ServiceConstants, Inv, NEW r \in Slot, request[r].at \in Places
  PROVE  /\ request[r] # Free /\ request[r] \in ARequest /\ Relies(r, request[r])
         /\ request[r].server \in Server /\ request[r].server <= server
         /\ request[r].time \in Nat /\ request[r].time <= now /\ now \in Nat
<1>1. request[r] # Free
  BY IsUnderWay
<1>2. request[r] \in ARequest /\ Relies(r, request[r]) /\ now \in Nat
  BY <1>1 DEF Inv, Types
<1> QED
  BY <1>1, <1>2 DEF Relies, ARequest

-----------------------------------------------------------------------------
(* Steps that leave tables, epochs and keys alone *)

\* A request begins outside all locks.
Entrances == {"challenge", "envelope", "write file"}

LEMMA BegunType ==
  ASSUME ServiceConstants, Types, NEW of \in RequestKind, NEW p \in Peer, NEW at \in Entrances,
         NEW k \in Nat \cup {None}, NEW e \in Nat \cup {None}
  PROVE  /\ Begun(of, p, at, k, e) \in ARequest
         /\ Begun(of, p, at, k, e).at \in Entrances
         /\ Begun(of, p, at, k, e).server = server
         /\ Begun(of, p, at, k, e).time = 0
<1>1. server \in Nat /\ at \in Places
  <2>1. at \in Places
    BY DEF Entrances, Places
  <2> QED
    BY <2>1, Numbers DEF Types, Server
<1>2. 0 \in Nat /\ {} \in SUBSET Nat /\ TRUE \in BOOLEAN
  OBVIOUS
<1>3. Begun(of, p, at, k, e) \in ARequest
  BY <1>1, <1>2, Zenon DEF Begun, ARequest
<1> QED
  BY <1>3 DEF Begun

LEMMA ArriveStep ==
  ASSUME ServiceConstants, Inv, NEW r \in Slot, NEW kind \in Kinds, NEW p \in Peer,
         Arrive(r, kind, p) \/ Control(r, p)
  PROVE  Inv'
<1>1. UNCHANGED <<now, turnVars, keyVars, lockVars, epochVars>> /\ request[r] = Free
  BY DEF Arrive, Control, IsNew, IsBusy
<1>2. PICK of \in RequestKind, at \in Entrances, k \in Nat \cup {None}, e \in Nat \cup {None} :
        \/ request' = request
        \/ request' = [request EXCEPT ![r] = Begun(of, p, at, k, e)]
  <2>1. /\ keys \in Nat /\ \A e \in DOMAIN epoch : e \in Nat
        /\ kind \in RequestKind /\ "reset" \in RequestKind
    <3>1. kind \in RequestKind /\ "reset" \in RequestKind
      BY DEF ServiceConstants, RequestKind
    <3>2. keys \in Nat /\ \E n \in Nat : epoch \in [1..n -> AnEpoch]
      BY DEF Inv, Types
    <3>3. \A e \in DOMAIN epoch : e \in Nat
      BY <3>2
    <3> QED
      BY <3>1, <3>2, <3>3
  <2>2. CASE Control(r, p)
    BY <2>1, <2>2 DEF Control, Entrances
  <2>3. CASE Arrive(r, kind, p)
    <3>1. \A k \in 1..keys : k \in Nat
      BY <2>1
    <3> QED
      BY <2>1, <2>3, <3>1 DEF Arrive, Entrances
  <2> QED
    BY <2>2, <2>3
<1>3. CASE request' = request
  <2>1. Types' /\ Locked' /\ Relies(r, request[r])'
    BY <1>1, <1>3 DEF Inv, Types, Locked, Relies, turnVars, keyVars, lockVars, epochVars
  <2> QED
    BY <1>1, <1>3, <2>1, QuietStep DEF turnVars, keyVars, lockVars, epochVars
<1>4. CASE request' = [request EXCEPT ![r] = Begun(of, p, at, k, e)]
  <2>1. PICK begun \in ARequest :
          /\ begun = Begun(of, p, at, k, e)
          /\ begun.at \in Entrances /\ begun.server = server /\ begun.time = 0
    BY BegunType DEF Inv
  <2>2. request' = [request EXCEPT ![r] = begun]
    BY <1>4, <2>1
  <2>3. Types' /\ Locked'
    BY <1>1, <2>2 DEF Inv, Types, Locked, turnVars, keyVars, lockVars, epochVars
  <2>4. request'[r] = begun /\ \A q \in Slot \ {r} : request'[q] = request[q]
    BY <2>2 DEF Inv, Types
  <2>5. Relies(r, begun)'
    <3>1. /\ begun.at \notin Reading /\ begun.at # "sweep" /\ begun.at # "lock epoch"
          /\ begun.at # "handle" /\ begun.at # "second lock" /\ begun.at # "replace"
      BY <2>1 DEF Entrances, Reading
    <3>2. server' = server /\ server \in Server /\ now' \in Nat /\ server \in Nat
      BY <1>1, Numbers DEF Inv, Types, turnVars, Server
    <3>3. begun.server <= server' /\ begun.server \in Server /\ begun.time <= now'
      BY <2>1, <3>2
    <3> QED
      BY <3>1, <3>3 DEF Relies
  <2> QED
    BY <1>1, <2>3, <2>4, <2>5, QuietStep DEF turnVars, keyVars, lockVars, epochVars
<1> QED
  BY <1>2, <1>3, <1>4

LEMMA BreakStep ==
  ASSUME ServiceConstants, Inv, NEW r \in Slot, Break(r)
  PROVE  Inv'
<1>1. UNCHANGED <<now, turnVars, keyVars, lockVars, epochVars>> /\ request[r] # Free
  BY DEF Break, IsBusy
<1> PICK q \in ARequest : q = request[r]
  BY <1>1 DEF Inv, Types
<1> DEFINE new == [q EXCEPT !.connected = FALSE]
<1>2. q \in ARequest /\ Relies(r, q) /\ q # Free
  BY <1>1 DEF Inv
<1>3. request' = [request EXCEPT ![r] = new]
  BY DEF Break
<1>4. /\ new \in ARequest /\ new.at = q.at /\ new.server = q.server /\ new.time = q.time
      /\ new.key = q.key /\ new.left = q.left /\ new.epoch = q.epoch
  BY <1>2 DEF ARequest
<1> HIDE DEF new
<1>5. request'[r] = new /\ \A s \in Slot \ {r} : request'[s] = request[s]
  BY <1>3 DEF Inv, Types
<1>6. Types' /\ Locked'
  BY <1>1, <1>3, <1>4 DEF Inv, Types, Locked, turnVars, keyVars, lockVars, epochVars
<1>7. Expired(q.epoch, now)' <=> Expired(q.epoch, now)
  BY <1>1, Zenon DEF Expired, epochVars
<1>8. Relies(r, request[r])'
  BY <1>1, <1>2, <1>4, <1>5, <1>7 DEF Relies, turnVars, keyVars, lockVars, epochVars
<1> QED
  BY <1>1, <1>5, <1>6, <1>8, QuietStep DEF turnVars, keyVars, lockVars, epochVars

\* The end of a request that gives its read lock back.
LEMMA RejectedStep ==
  ASSUME ServiceConstants, Inv, NEW r \in Slot, Finish(r),
         UNCHANGED <<now, turnVars, keyVars, writer, tableLock, epochVars>>,
         Unread(r) \/ UNCHANGED readers, request[r] # Free
  PROVE  Inv'
<1>1. /\ request' \in [Slot -> ARequest \cup {Free}] /\ request'[r] = Free
      /\ \A q \in Slot \ {r} : request'[q] = request[q]
  BY FinishType DEF Inv
<1>2. readers' \in [Server -> SUBSET Slot] /\ \A s \in Server : readers'[s] \subseteq readers[s]
      /\ \A q \in Slot \ {r} : q \in readers[s] => q \in readers'[s]
  BY DEF Unread, Inv, Types
<1>3. Types'
  BY <1>1, <1>2 DEF Inv, Types, turnVars, keyVars, epochVars
<1>4. Locked'
  BY <1>2 DEF Inv, Locked
<1>5. Relies(r, request[r])'
  BY <1>1 DEF Relies
<1> QED
  BY <1>1, <1>2, <1>3, <1>4, <1>5, QuietStep DEF turnVars, keyVars, epochVars

LEMMA CheckKeyStep ==
  ASSUME ServiceConstants, Inv, NEW r \in Slot, EnterChallenge(r) \/ EnterEnvelope(r)
  PROVE  Inv'
<1>1. PICK from \in {"challenge", "envelope"}, to \in {"lock table", "look up"} :
        CheckKey(r, from, to)
  BY DEF EnterChallenge, EnterEnvelope
<1>2. request[r] # Free
  <2>1. request[r].at = from
    BY <1>1 DEF CheckKey
  <2> QED
    BY <1>1, <2>1, IsUnderWay DEF Places
<1> PICK q \in ARequest : q = request[r]
  BY <1>2 DEF Inv, Types
<1> DEFINE new == request'[r]
<1>3. q \in ARequest /\ Relies(r, q) /\ q # Free
  BY <1>2 DEF Inv
<1>4. CASE Finish(r) /\ UNCHANGED readers
  BY <1>1, <1>2, <1>4, RejectedStep DEF CheckKey
<1>5. CASE /\ q.key = key[q.server] /\ Keeps(r)
           /\ request' = [request EXCEPT ![r].at = to, ![r].time = now]
  <2>1. q.server \in Server /\ writer[q.server] = None
        /\ UNCHANGED <<now, turnVars, keyVars, writer, tableLock, epochVars>>
    BY <1>1, <1>2, <1>3 DEF CheckKey, Relies
  <2>2. /\ new.at = to /\ new.server = q.server /\ new.time = now /\ new.key = q.key
        /\ \A s \in Slot \ {r} : request'[s] = request[s]
    BY <1>3, <1>5 DEF Inv, Types, ARequest
  <2>3. new \in ARequest /\ request' \in [Slot -> ARequest \cup {Free}]
    <3>1. now \in Nat /\ to \in Places
      BY DEF Inv, Types, Places
    <3> QED
      BY <1>3, <1>5, <3>1 DEF Inv, Types, ARequest
  <2>4. readers' \in [Server -> SUBSET Slot] /\ r \in readers'[q.server]
        /\ \A s \in Server : /\ readers[s] \subseteq readers'[s]
                             /\ s # q.server => readers'[s] = readers[s]
    BY <1>5, <2>1 DEF Keeps, Inv, Types
  <2>5. Types'
    BY <2>1, <2>3, <2>4 DEF Inv, Types, turnVars, keyVars, epochVars
  <2>6. Locked'
    BY <2>1, <2>4 DEF Inv, Locked
  <2>7. Relies(r, request[r])'
    <3>1. /\ new.at # "sweep" /\ new.at # "lock epoch" /\ new.at # "handle"
          /\ new.at # "second lock" /\ new.at # "replace"
      BY <2>2
    <3>2. /\ new.server = q.server /\ new.key = q.key /\ new.time = now /\ now' = now
          /\ r \in readers'[q.server] /\ q.key = key'[q.server]
          /\ server' = server /\ now \in Nat
      BY <1>5, <2>1, <2>2, <2>4 DEF Inv, Types, turnVars, keyVars
    <3>3. q.server <= server /\ q.server \in Server
      BY <1>3 DEF Relies
    <3>4. PICK n : n = new
      OBVIOUS
    <3>5. n.server <= server' /\ n.server \in Server /\ n.time <= now'
      <4>1. n.server = q.server /\ n.time = now
        BY <3>2, <3>4
      <4>2. now' = now /\ now \in Nat /\ server' = server
        BY <3>2
      <4>3. now <= now'
        BY <4>2, Successor
      <4>4. q.server <= server'
        BY <3>3, <4>2
      <4> QED
        BY <3>3, <4>1, <4>3, <4>4
    <3>6. r \in readers'[n.server] /\ n.key = key'[n.server]
      BY <3>2, <3>4
    <3>7. Relies(r, n)'
      BY <3>1, <3>4, <3>5, <3>6 DEF Relies
    <3> QED
      BY <3>4, <3>7
  <2> QED
    BY <2>1, <2>2, <2>4, <2>5, <2>6, <2>7, QuietStep DEF turnVars, keyVars, epochVars
<1> QED
  BY <1>1, <1>4, <1>5 DEF CheckKey

LEMMA LockTableStep ==
  ASSUME ServiceConstants, Inv, NEW r \in Slot, LockTable(r)
  PROVE  Inv'
<1>1. /\ request[r].at = "lock table" /\ tableLock' = [tableLock EXCEPT ![request[r].server] = r]
      /\ request' = [request EXCEPT ![r].at = "sweep", ![r].left = table[request[r].server]]
      /\ UNCHANGED <<now, turnVars, keyVars, readers, writer, epochVars, entryVars, faults>>
  BY DEF LockTable
<1> PICK q \in ARequest : q = request[r]
  BY <1>1, UnderWay DEF Places
<1>2. /\ q # Free /\ Relies(r, q) /\ q.server \in Server
      /\ q.server <= server /\ q.time <= now /\ q.at = "lock table"
  BY <1>1, UnderWay DEF Places
<1>3. PICK new \in ARequest :
        /\ request' = [request EXCEPT ![r] = new]
        /\ new.at = "sweep" /\ new.left = table[q.server] /\ new.server = q.server
        /\ new.time = q.time /\ new.key = q.key /\ new.epoch = q.epoch
  <2>1. table[q.server] \in SUBSET Nat /\ "sweep" \in Places
    BY <1>2 DEF Inv, Types, Places
  <2>2. [q EXCEPT !.at = "sweep", !.left = table[q.server]] \in ARequest
    BY <2>1 DEF ARequest
  <2>3. PICK new \in ARequest : new = [q EXCEPT !.at = "sweep", !.left = table[q.server]]
    BY <2>2
  <2>4. request' = [request EXCEPT ![r] = new]
    BY <1>1, <2>3
  <2>5. /\ new.at = "sweep" /\ new.left = table[q.server] /\ new.server = q.server
        /\ new.time = q.time /\ new.key = q.key /\ new.epoch = q.epoch
    BY <2>3 DEF ARequest
  <2> QED
    BY <2>4, <2>5
<1>4. Types' /\ Locked'
  <2>1. tableLock' \in [Server -> Slot \cup {None}]
    BY <1>1 DEF Inv, Types
  <2>2. request' \in [Slot -> ARequest \cup {Free}]
    BY <1>3 DEF Inv, Types
  <2> QED
    BY <1>1, <2>1, <2>2 DEF Inv, Types, Locked, turnVars, keyVars, epochVars
<1>5. request'[r] = new /\ \A s \in Slot \ {r} : request'[s] = request[s]
  BY <1>3 DEF Inv, Types
<1>6. new.left \subseteq DOMAIN epoch'
  BY <1>1, <1>2, <1>3 DEF Inv, Tables, epochVars
<1>7. r \in readers'[new.server] /\ new.key = key'[new.server]
  BY <1>1, <1>2, <1>3 DEF Relies, Reading, keyVars
<1>8. new.server <= server' /\ new.server \in Server /\ new.time <= now'
  BY <1>1, <1>2, <1>3 DEF turnVars
<1>9. Relies(r, new)'
  BY <1>3, <1>6, <1>7, <1>8 DEF Relies
<1> QED
  BY <1>1, <1>4, <1>5, <1>9, QuietStep DEF turnVars, keyVars, epochVars

LEMMA LookUpStep ==
  ASSUME ServiceConstants, Inv, NEW r \in Slot, LookUp(r)
  PROVE  Inv'
<1>1. /\ request[r].at = "look up"
      /\ UNCHANGED <<now, turnVars, keyVars, writer, tableLock, epochVars>>
  BY DEF LookUp
<1>2. request[r] # Free
  BY <1>1, UnderWay DEF Places
<1>3. CASE Rejected(r)
  BY <1>1, <1>2, <1>3, RejectedStep DEF Rejected
<1>4. CASE /\ request[r].epoch \in table[request[r].server]
           /\ Goes(r, "lock epoch") /\ UNCHANGED <<readers, inFlight>>
  <2> PICK q \in ARequest : q = request[r]
    BY <1>1, UnderWay DEF Places
  <2>1. /\ q # Free /\ Relies(r, q) /\ q.server \in Server
        /\ q.server <= server /\ q.time <= now /\ q.at = "look up"
    BY <1>1, UnderWay DEF Places
  <2>2. PICK new \in ARequest :
          /\ request' = [request EXCEPT ![r] = new]
          /\ new.at = "lock epoch" /\ new.server = q.server
          /\ new.time = q.time /\ new.key = q.key /\ new.epoch = q.epoch
    <3>1. "lock epoch" \in Places
      BY DEF Places
    <3>2. [q EXCEPT !.at = "lock epoch"] \in ARequest
      BY <3>1 DEF ARequest
    <3> QED
      BY <1>4, <3>1, <3>2 DEF ARequest, Goes
  <2>3. Types' /\ Locked'
    BY <1>1, <1>4, <2>2 DEF Inv, Types, Locked, turnVars, keyVars, epochVars
  <2>4. request'[r] = new /\ \A s \in Slot \ {r} : request'[s] = request[s]
    BY <2>2 DEF Inv, Types
  <2>5. /\ new.epoch \in DOMAIN epoch' /\ new.epoch \in table'[new.server]
        /\ \A s \in Server : new.epoch \in table'[s] => s = new.server
    BY <1>1, <1>4, <2>1, <2>2 DEF Inv, Tables, epochVars
  <2>6. r \in readers'[new.server] /\ new.key = key'[new.server]
    BY <1>1, <1>4, <2>1, <2>2 DEF Relies, Reading, keyVars
  <2>7. new.server <= server' /\ new.server \in Server /\ new.time <= now'
    BY <1>1, <2>1, <2>2 DEF turnVars
  <2>8. Relies(r, new)'
    BY <2>2, <2>5, <2>6, <2>7 DEF Relies
  <2> QED
    BY <1>1, <1>4, <2>3, <2>4, <2>8, QuietStep DEF turnVars, keyVars, epochVars
<1> QED
  BY <1>3, <1>4 DEF LookUp

LEMMA WriteFileStep ==
  ASSUME ServiceConstants, Inv, NEW r \in Slot, WriteFile(r)
  PROVE  Inv'
<1>1. /\ request[r].at = "write file"
      /\ UNCHANGED <<now, turnVars, key, keyFile, lockVars, epochVars>>
  BY DEF WriteFile
<1> PICK q \in ARequest : q = request[r]
  BY <1>1, UnderWay DEF Places
<1>2. /\ q # Free /\ q.server \in Server /\ q.server <= server /\ q.time <= now
  BY <1>1, UnderWay DEF Places
<1>3. \/ Finish(r) /\ keys' = keys
      \/ /\ keys' = keys + 1
         /\ request' = [request EXCEPT ![r].at = "first lock", ![r].key = keys']
  BY DEF WriteFile
<1>4. CASE Finish(r) /\ keys' = keys
  <2>1. UNCHANGED <<now, turnVars, keyVars, writer, tableLock, epochVars, readers>>
    BY <1>1, <1>4 DEF keyVars, lockVars
  <2> QED
    BY <1>2, <1>4, <2>1, RejectedStep
<1>5. CASE /\ keys' = keys + 1
           /\ request' = [request EXCEPT ![r].at = "first lock", ![r].key = keys']
  <2>1. keys' \in Nat /\ "first lock" \in Places
    <3>1. keys \in Nat
      BY DEF Inv, Types
    <3>2. "first lock" \in Places
      BY DEF Places
    <3>3. keys' = keys + 1
      BY <1>5
    <3> QED
      BY <3>1, <3>2, <3>3, Successor
  <2>2. [q EXCEPT !.at = "first lock", !.key = keys'] \in ARequest
    BY <2>1 DEF ARequest
  <2>3. PICK new \in ARequest : new = [q EXCEPT !.at = "first lock", !.key = keys']
    BY <2>2
  <2>4. request' = [request EXCEPT ![r] = new]
    BY <1>5, <2>3
  <2>5. new.at = "first lock" /\ new.server = q.server /\ new.time = q.time
    BY <2>3 DEF ARequest
  <2>6. Types' /\ Locked'
    BY <1>1, <2>1, <2>4 DEF Inv, Types, Locked, turnVars, lockVars, epochVars
  <2>7. request'[r] = new /\ \A s \in Slot \ {r} : request'[s] = request[s]
    BY <2>4 DEF Inv, Types
  <2>8. new.server <= server' /\ new.server \in Server /\ new.time <= now'
    BY <1>1, <1>2, <2>5 DEF turnVars
  <2>9. new.at \notin Reading
    BY <2>5 DEF Reading
  <2>10. Relies(r, new)'
    BY <2>5, <2>8, <2>9 DEF Relies
  <2> QED
    BY <1>1, <2>6, <2>7, <2>10, QuietStep DEF turnVars, lockVars, epochVars
<1> QED
  BY <1>3, <1>4, <1>5

LEMMA LockForResetStep ==
  ASSUME ServiceConstants, Inv, NEW r \in Slot, LockForReset(r)
  PROVE  Inv'
<1>1. PICK from \in {"first lock", "second lock"}, to \in {"second lock", "replace"} :
        /\ request[r].at = from /\ Goes(r, to)
        /\ \/ from = "first lock" /\ Acquire(r, "credentials")
           \/ from = "second lock" /\ Acquire(r, "table")
  BY DEF LockForReset, ResetLocks
<1>2. UNCHANGED <<now, turnVars, keyVars, readers, epochVars>>
  BY DEF LockForReset
<1> PICK q \in ARequest : q = request[r]
  BY <1>1, UnderWay DEF Places
<1>3. /\ q # Free /\ Relies(r, q) /\ q.server \in Server
      /\ q.server <= server /\ q.time <= now
  BY <1>1, UnderWay DEF Places
<1>4. PICK new \in ARequest :
        /\ request' = [request EXCEPT ![r] = new]
        /\ new.at = to /\ new.server = q.server /\ new.time = q.time
  <2>1. to \in Places
    BY DEF Places
  <2>2. [q EXCEPT !.at = to] \in ARequest
    BY <2>1 DEF ARequest
  <2> QED
    BY <1>1, <2>2 DEF ARequest, Goes
<1>5. /\ writer' \in [Server -> Slot \cup {None}]
      /\ tableLock' \in [Server -> Slot \cup {None}]
      /\ \A s \in Server : writer'[s] # None => readers[s] = {}
      /\ \A s \in Server : writer[s] # None => writer'[s] = writer[s]
      /\ writer'[q.server] = r
  <2>1. CASE from = "first lock" /\ Acquire(r, "credentials")
    <3>1. /\ writer[q.server] = None /\ readers[q.server] = {}
          /\ writer' = [writer EXCEPT ![q.server] = r] /\ UNCHANGED tableLock
      BY <2>1 DEF Acquire
    <3> QED
      BY <1>3, <3>1 DEF Inv, Types, Locked
  <2>2. CASE from = "second lock" /\ Acquire(r, "table")
    <3>1. tableLock' = [tableLock EXCEPT ![q.server] = r] /\ UNCHANGED writer
      BY <2>2 DEF Acquire
    <3>2. writer[q.server] = r
      BY <1>1, <1>3, <2>2 DEF Relies
    <3> QED
      BY <3>1, <3>2 DEF Inv, Types, Locked
  <2> QED
    BY <1>1, <2>1, <2>2
<1>6. Types' /\ Locked'
  BY <1>2, <1>4, <1>5 DEF Inv, Types, Locked, turnVars, keyVars, epochVars
<1>7. request'[r] = new /\ \A s \in Slot \ {r} : request'[s] = request[s]
  BY <1>4 DEF Inv, Types
<1>8. new.server <= server' /\ new.server \in Server /\ new.time <= now'
  BY <1>2, <1>3, <1>4 DEF turnVars
<1>9. new.at \notin Reading /\ new.at # "sweep" /\ new.at # "lock epoch" /\ new.at # "handle"
  BY <1>4 DEF Reading
<1>10. Relies(r, new)'
  BY <1>4, <1>5, <1>8, <1>9 DEF Relies
<1>11. \A s \in Server : \A t \in Slot \ {r} :
         /\ t \in readers[s] => t \in readers'[s]
         /\ writer[s] = t => writer'[s] = t
  BY <1>2, <1>5, Numbers
<1> QED
  BY <1>2, <1>6, <1>7, <1>10, <1>11, QuietStep DEF turnVars, keyVars, epochVars

-----------------------------------------------------------------------------
(* Steps that change tables, epochs or keys *)

\* What a step of r may do to an epoch e: not put it into a table again; take it out of
\* one only if no request reads there any more, or if it has expired and nobody else
\* holds it; give it more time only while it is in a table; and leave it to its holder.
Spares(r, e) ==
  /\ \A s \in Server : e \in table'[s] => e \in table[s]
  /\ \A s \in Server :
       e \in table[s] /\ e \notin table'[s] =>
         readers[s] = {} \/ (Expired(e, now)' /\ epoch[e].holder \in {None, r})
  /\ Expired(e, now) => Expired(e, now)' \/ \E s \in Server : e \in table[s]
  /\ epoch[e].holder \notin {None, r} => epoch'[e].holder = epoch[e].holder

LEMMA EpochStep ==
  ASSUME ServiceConstants, Inv, Types', Locked', Tables', NEW r \in Slot,
         UNCHANGED <<server, now>>,
         \A q \in Slot \ {r} : request'[q] = request[q],
         \A s \in Server : \A q \in Slot \ {r} :
           /\ q \in readers[s] => q \in readers'[s]
           /\ writer[s] = q => writer'[s] = q,
         \A s \in Server : readers[s] # {} => key'[s] = key[s],
         DOMAIN epoch \subseteq DOMAIN epoch',
         \A e \in DOMAIN epoch : Spares(r, e),
         Relies(r, request[r])'
  PROVE  Inv'
<1>1. ASSUME NEW t \in Slot \ {r}, request[t] # Free
      PROVE  Relies(t, request[t])'
  <2> PICK q \in ARequest : q = request[t]
    BY <1>1 DEF Inv, Types
  <2>1. Relies(t, q) /\ q # Free /\ request'[t] = q /\ t # None
    BY <1>1, Numbers DEF Inv
  <2>2. q.server \in Server /\ q.server <= server' /\ q.time <= now'
    BY <2>1 DEF Relies
  <2>3. q.at \in Reading => /\ t \in readers'[q.server] /\ q.key = key'[q.server]
                          /\ readers[q.server] # {}
    BY <2>1, <2>2 DEF Relies
  <2>4. q.at = "sweep" => q.left \subseteq DOMAIN epoch'
    BY <2>1 DEF Relies
  <2>5. q.at = "replace" \/ q.at = "second lock" => writer'[q.server] = t
    <3>1. q.at = "replace" \/ q.at = "second lock" => writer[q.server] = t
      BY <2>1 DEF Relies
    <3>2. writer[q.server] = t => writer'[q.server] = t
      BY <2>2
    <3> QED
      BY <3>1, <3>2
  <2>6. ASSUME q.at = "lock epoch"
        PROVE  /\ q.epoch \in DOMAIN epoch'
               /\ \A s \in Server : q.epoch \in table'[s] => s = q.server
               /\ q.epoch \in table'[q.server] \/ Expired(q.epoch, now)'
    <3>1. /\ q.epoch \in DOMAIN epoch
          /\ \A s \in Server : q.epoch \in table[s] => s = q.server
          /\ q.epoch \in table[q.server] \/ Expired(q.epoch, now)
      BY <2>1, <2>6 DEF Relies
    <3>2. readers[q.server] # {}
      BY <2>3, <2>6 DEF Reading
    <3>3. PICK e \in DOMAIN epoch : e = q.epoch
      BY <3>1
    <3>4. Spares(r, e)
      OBVIOUS
    <3>5. e \in table'[q.server] \/ Expired(e, now)'
      BY <2>2, <3>1, <3>2, <3>3, <3>4 DEF Spares
    <3>6. \A s \in Server : e \in table'[s] => s = q.server
      BY <3>1, <3>3, <3>4 DEF Spares
    <3> QED
      BY <3>1, <3>3, <3>5, <3>6
  <2>7. ASSUME q.at = "handle"
        PROVE  q.epoch \in table'[q.server] /\ epoch'[q.epoch].holder = t
    <3>1. q.epoch \in table[q.server] /\ epoch[q.epoch].holder = t
      BY <2>1, <2>7 DEF Relies
    <3>2. readers[q.server] # {}
      BY <2>3, <2>7 DEF Reading
    <3>3. Spares(r, q.epoch)
      BY <2>2, <3>1 DEF Inv, Tables
    <3> QED
      BY <2>1, <2>2, <3>1, <3>2, <3>3 DEF Spares
  <2>8. Relies(t, q)'
    BY <2>2, <2>3, <2>4, <2>5, <2>6, <2>7 DEF Relies
  <2> QED
    BY <2>1, <2>8
<1>2. ASSUME NEW t \in Slot \ {r}, request[t] = Free
      PROVE  Relies(t, request[t])'
  BY <1>2 DEF Relies
<1> QED
  BY <1>1, <1>2 DEF Inv

\* What a sweep takes out of the table has expired, and nobody holds it.
LEMMA SweepStep ==
  ASSUME ServiceConstants, Inv, NEW r \in Slot, NEW e \in DOMAIN epoch, Sweep(r, e)
  PROVE  Inv'
<1>1. /\ request[r].at = "sweep" /\ epoch[e].holder = None
      /\ request' = [request EXCEPT ![r].left = @ \ {e}]
      /\ table' = [table EXCEPT ![request[r].server] =
                      IF Expired(e, request[r].time) THEN @ \ {e} ELSE @]
      /\ UNCHANGED <<now, turnVars, keyVars, lockVars, epoch, entryVars, faults>>
  BY DEF Sweep
<1> PICK q \in ARequest : q = request[r]
  BY <1>1, UnderWay DEF Places
<1>2. /\ q # Free /\ Relies(r, q) /\ q.server \in Server /\ q.at = "sweep"
      /\ q.server <= server /\ q.time <= now /\ q.time \in Nat /\ now \in Nat
  BY <1>1, UnderWay DEF Places
<1>3. PICK new \in ARequest :
        /\ request' = [request EXCEPT ![r] = new]
        /\ new.at = "sweep" /\ new.left \subseteq q.left /\ new.server = q.server
        /\ new.time = q.time /\ new.key = q.key
  <2>1. q.left \ {e} \in SUBSET Nat
    BY DEF ARequest
  <2>2. PICK new \in ARequest : new = [q EXCEPT !.left = @ \ {e}]
    BY <2>1 DEF ARequest
  <2>3. request' = [request EXCEPT ![r] = new]
    BY <1>1, <2>2
  <2>4. /\ new.at = q.at /\ new.left \subseteq q.left /\ new.server = q.server
        /\ new.time = q.time /\ new.key = q.key
    BY <2>2 DEF ARequest
  <2> QED
    BY <1>2, <2>3, <2>4
<1>4. /\ table' \in [Server -> SUBSET Nat]
      /\ \A s \in Server : table'[s] \subseteq table[s]
      /\ \A s \in Server, i \in Nat : i \in table[s] /\ i \notin table'[s] =>
            i = e /\ Expired(e, q.time)
  BY <1>1 DEF Inv, Types
<1>5. Types' /\ Locked'
  <2>1. request' \in [Slot -> ARequest \cup {Free}]
    BY <1>3 DEF Inv, Types
  <2> QED
    BY <1>1, <1>4, <2>1 DEF Inv, Types, Locked, turnVars, keyVars, lockVars
<1>6. Tables'
  BY <1>1, <1>4 DEF Inv, Tables, turnVars, keyVars
<1>7. request'[r] = new /\ \A s \in Slot \ {r} : request'[s] = request[s]
  BY <1>3 DEF Inv, Types
<1>8. Relies(r, new)'
  <2>1. new.server <= server' /\ new.server \in Server /\ new.time <= now'
    BY <1>1, <1>2, <1>3 DEF turnVars
  <2>2. r \in readers'[new.server] /\ new.key = key'[new.server]
    BY <1>1, <1>2, <1>3 DEF Relies, Reading, keyVars, lockVars
  <2>3. new.left \subseteq DOMAIN epoch'
    BY <1>1, <1>2, <1>3 DEF Relies
  <2> QED
    BY <1>3, <2>1, <2>2, <2>3 DEF Relies
<1>9. ASSUME NEW i \in DOMAIN epoch
      PROVE  Spares(r, i)
  <2>1. epoch[i] \in AnEpoch /\ i \in Nat
    BY DEF Inv, Types
  <2>2. Expired(i, now) => Expired(i, now)'
    BY <1>1, Zenon DEF Expired
  <2>3. Expired(i, q.time) => Expired(i, now)
    BY <1>2, <2>1, StaysExpired
  <2>4. epoch[i].holder \notin {None, r} => epoch'[i].holder = epoch[i].holder
    BY <1>1
  <2> QED
    BY <1>1, <1>4, <2>1, <2>2, <2>3, <2>4 DEF Spares
<1> QED
  BY <1>1, <1>5, <1>6, <1>7, <1>8, <1>9, EpochStep DEF turnVars, keyVars, lockVars

LEMMA LockEpochStep ==
  ASSUME ServiceConstants, Inv, NEW r \in Slot, LockEpoch(r)
  PROVE  Inv'
<1>1. /\ request[r].at = "lock epoch" /\ epoch[request[r].epoch].holder = None
      /\ UNCHANGED <<now, turnVars, keyVars, writer, tableLock, table>>
  BY DEF LockEpoch
<1> PICK q \in ARequest : q = request[r]
  BY <1>1, UnderWay DEF Places
<1>2. /\ q # Free /\ Relies(r, q) /\ q.server \in Server /\ q.at = "lock epoch"
      /\ q.server <= server /\ q.time <= now /\ now \in Nat /\ request[r] # Free
  BY <1>1, UnderWay DEF Places
<1>3. CASE Rejected(r) /\ UNCHANGED epoch
  <2>1. UNCHANGED <<now, turnVars, keyVars, writer, tableLock, epochVars>>
    BY <1>1, <1>3 DEF epochVars
  <2> QED
    BY <1>2, <1>3, <2>1, RejectedStep DEF Rejected
<1>4. CASE /\ ~IsExpired(request[r].epoch)
           /\ epoch' = [epoch EXCEPT ![request[r].epoch].holder = r]
           /\ request' = [request EXCEPT ![r].at = "handle", ![r].time = now]
           /\ UNCHANGED <<readers, inFlight>>
  <2> DEFINE e == q.epoch
  <2>1. /\ e \in DOMAIN epoch /\ e \in table[q.server] /\ r \in readers[q.server]
        /\ q.key = key[q.server]
    BY <1>2, <1>4 DEF Relies, Reading, IsExpired
  <2>2. PICK n \in Nat : epoch \in [1..n -> AnEpoch] /\ e \in 1..n
    BY <2>1 DEF Inv, Types
  <2>3. /\ epoch' \in [1..n -> AnEpoch] /\ epoch'[e].holder = r
        /\ \A i \in 1..n : /\ epoch'[i].key = epoch[i].key
                           /\ epoch'[i].active = epoch[i].active
                           /\ epoch'[i].seen = epoch[i].seen
                           /\ epoch'[i].expires = epoch[i].expires
                           /\ i # e => epoch'[i] = epoch[i]
    <3>1. PICK held \in AnEpoch :
            held = [epoch[e] EXCEPT !.holder = r]
      BY <2>2, Numbers DEF AnEpoch
    <3>2. epoch' = [epoch EXCEPT ![e] = held]
      BY <1>4, <3>1
    <3>3. /\ held.key = epoch[e].key /\ held.active = epoch[e].active
          /\ held.seen = epoch[e].seen /\ held.expires = epoch[e].expires
          /\ held.holder = r
      BY <2>2, <3>1 DEF AnEpoch
    <3> QED
      BY <2>2, <3>1, <3>2, <3>3
  <2>4. PICK new \in ARequest :
          /\ request' = [request EXCEPT ![r] = new]
          /\ new.at = "handle" /\ new.server = q.server
          /\ new.time = now /\ new.key = q.key /\ new.epoch = q.epoch
    <3>1. "handle" \in Places
      BY DEF Places
    <3>2. PICK new \in ARequest : new = [q EXCEPT !.at = "handle", !.time = now]
      BY <1>2, <3>1 DEF ARequest
    <3>3. request' = [request EXCEPT ![r] = new]
      BY <1>4, <3>2
    <3>4. /\ new.at = "handle" /\ new.server = q.server
          /\ new.time = now /\ new.key = q.key /\ new.epoch = q.epoch
      BY <3>2 DEF ARequest
    <3> QED
      BY <3>3, <3>4
  <2>5. Types' /\ Locked'
    <3>1. request' \in [Slot -> ARequest \cup {Free}]
      BY <2>4 DEF Inv, Types
    <3>2. \E m \in Nat : epoch' \in [1..m -> AnEpoch]
      BY <2>3
    <3> QED
      BY <1>1, <1>4, <3>1, <3>2 DEF Inv, Types, Locked, turnVars, keyVars
  <2>6. Tables'
    BY <1>1, <2>2, <2>3 DEF Inv, Tables, turnVars, keyVars
  <2>7. request'[r] = new /\ \A s \in Slot \ {r} : request'[s] = request[s]
    BY <2>4 DEF Inv, Types
  <2>8. Relies(r, new)'
    <3>1. new.server <= server' /\ new.server \in Server
      BY <1>1, <1>2, <2>4 DEF turnVars
    <3>2. new.time <= now'
      BY <1>1, <1>2, <2>4, Successor
    <3>3. r \in readers'[new.server] /\ new.key = key'[new.server]
      BY <1>1, <1>4, <2>1, <2>4 DEF keyVars
    <3>4. new.epoch \in table'[new.server] /\ epoch'[new.epoch].holder = r
      BY <1>1, <2>1, <2>3, <2>4
    <3> QED
      BY <2>4, <3>1, <3>2, <3>3, <3>4 DEF Relies
  <2>9. ASSUME NEW i \in DOMAIN epoch
        PROVE  Spares(r, i)
    <3>1. i \in 1..n
      BY <2>2
    <3>2. now' = now /\ table' = table
      BY <1>1
    <3>3. Expired(i, now) => Expired(i, now)'
      BY <2>3, <3>1, <3>2 DEF Expired
    <3>4. epoch[i].holder \notin {None, r} => epoch'[i].holder = epoch[i].holder
      BY <1>1, <2>3, <3>1
    <3> QED
      BY <3>2, <3>3, <3>4 DEF Spares
  <2>10. DOMAIN epoch \subseteq DOMAIN epoch'
    BY <2>2, <2>3
  <2> QED
    BY <1>1, <1>4, <2>5, <2>6, <2>7, <2>8, <2>9, <2>10, EpochStep DEF turnVars, keyVars
<1> QED
  BY <1>3, <1>4 DEF LockEpoch

LEMMA HandleStep ==
  ASSUME ServiceConstants, Inv, NEW r \in Slot, Handle(r)
  PROVE  Inv'
<1>1. /\ request[r].at = "handle" /\ Unread(r) /\ Finish(r)
      /\ UNCHANGED <<now, turnVars, keyVars, writer, tableLock, table>>
  BY DEF Handle, Rejected
<1> PICK q \in ARequest : q = request[r]
  BY <1>1, UnderWay DEF Places
<1>2. /\ q # Free /\ Relies(r, q) /\ q.server \in Server /\ q.at = "handle"
      /\ q.time \in Nat
  BY <1>1, UnderWay DEF Places
<1> DEFINE e == q.epoch
<1>3. e \in table[q.server] /\ e \in DOMAIN epoch /\ epoch[e].holder = r
  BY <1>2 DEF Relies, Inv, Tables
<1>4. PICK n \in Nat : epoch \in [1..n -> AnEpoch] /\ e \in 1..n
  BY <1>3 DEF Inv, Types
<1>5. PICK left \in AnEpoch : epoch' = [epoch EXCEPT ![e] = left] /\ left.key = epoch[e].key
  <2>1. \/ epoch' = [epoch EXCEPT ![e] = [epoch[e] EXCEPT !.active = TRUE, !.seen = q.time,
                                                         !.holder = None]]
        \/ epoch' = [epoch EXCEPT ![e] = [epoch[e] EXCEPT !.holder = None]]
    BY DEF Handle
  <2>2. [epoch[e] EXCEPT !.active = TRUE, !.seen = q.time, !.holder = None] \in AnEpoch
    <3>1. PICK time \in Nat : time = q.time
      BY <1>2
    <3>2. PICK old \in AnEpoch : old = epoch[e]
      BY <1>4
    <3>3. [old EXCEPT !.active = TRUE, !.seen = time, !.holder = None] \in AnEpoch
      BY DEF AnEpoch
    <3> QED
      BY <3>1, <3>2, <3>3
  <2>3. [epoch[e] EXCEPT !.active = TRUE, !.seen = q.time, !.holder = None].key = epoch[e].key
    BY <1>4 DEF AnEpoch
  <2>4. [epoch[e] EXCEPT !.holder = None] \in AnEpoch
    BY <1>4 DEF AnEpoch
  <2>5. [epoch[e] EXCEPT !.holder = None].key = epoch[e].key
    BY <1>4 DEF AnEpoch
  <2>6. CASE epoch' = [epoch EXCEPT ![e] = [epoch[e] EXCEPT !.active = TRUE, !.seen = q.time,
                                                          !.holder = None]]
    BY <2>2, <2>3, <2>6
  <2>7. CASE epoch' = [epoch EXCEPT ![e] = [epoch[e] EXCEPT !.holder = None]]
    BY <2>4, <2>5, <2>7
  <2> QED
    BY <2>1, <2>6, <2>7
<1>6. /\ epoch' \in [1..n -> AnEpoch]
      /\ \A i \in 1..n : /\ epoch'[i].key = epoch[i].key
                         /\ i # e => epoch'[i] = epoch[i]
  BY <1>4, <1>5
<1>7. /\ request' \in [Slot -> ARequest \cup {Free}] /\ request'[r] = Free
      /\ \A s \in Slot \ {r} : request'[s] = request[s]
  BY <1>1, FinishType DEF Inv
<1>8. /\ readers' \in [Server -> SUBSET Slot]
      /\ \A s \in Server : readers'[s] \subseteq readers[s]
      /\ \A s \in Server : \A t \in Slot \ {r} : t \in readers[s] => t \in readers'[s]
  BY <1>1 DEF Unread, Inv, Types
<1>9. Types' /\ Locked'
  <2>1. \E m \in Nat : epoch' \in [1..m -> AnEpoch]
    BY <1>6
  <2> QED
    BY <1>1, <1>7, <1>8, <2>1 DEF Inv, Types, Locked, turnVars, keyVars
<1>10. Tables'
  BY <1>1, <1>4, <1>6 DEF Inv, Tables, turnVars, keyVars
<1>11. Relies(r, request[r])'
  BY <1>7 DEF Relies
<1>12. ASSUME NEW i \in DOMAIN epoch
       PROVE  Spares(r, i)
  <2>1. i \in 1..n /\ now' = now /\ table' = table
    BY <1>1, <1>4
  <2>2. CASE i = e
    BY <1>2, <1>3, <2>1, <2>2 DEF Spares
  <2>3. CASE i # e
    <3>1. epoch'[i] = epoch[i]
      BY <1>6, <2>1, <2>3
    <3>2. Expired(i, now) => Expired(i, now)'
      BY <2>1, <3>1 DEF Expired
    <3> QED
      BY <2>1, <3>1, <3>2 DEF Spares
  <2> QED
    BY <2>2, <2>3
<1>13. DOMAIN epoch \subseteq DOMAIN epoch'
  BY <1>4, <1>6
<1> QED
  BY <1>1, <1>7, <1>8, <1>9, <1>10, <1>11, <1>12, <1>13, EpochStep DEF turnVars, keyVars

LEMMA ReplaceStep ==
  ASSUME ServiceConstants, Inv, NEW r \in Slot, Replace(r)
  PROVE  Inv'
<1>1. /\ request[r].at = "replace" /\ Replaced(r) /\ Finish(r)
      /\ writer' = [writer EXCEPT ![request[r].server] = None]
      /\ tableLock' = [tableLock EXCEPT ![request[r].server] = None]
      /\ UNCHANGED <<now, turnVars, keys, readers, epoch>>
  BY DEF Replace
<1> PICK q \in ARequest : q = request[r]
  BY <1>1, UnderWay DEF Places
<1>2. /\ q.server \in Server /\ writer[q.server] = r /\ readers[q.server] = {}
  <2>1. /\ q # Free /\ Relies(r, q) /\ q.server \in Server /\ q.at = "replace"
    BY <1>1, UnderWay DEF Places
  <2>2. writer[q.server] = r
    BY <2>1 DEF Relies
  <2> QED
    BY <2>1, <2>2, Numbers DEF Inv, Locked
<1>3. /\ key' \in [Server -> Nat \cup {None}] /\ keyFile' \in Nat \cup {None}
      /\ table' \in [Server -> SUBSET Nat]
      /\ \A s \in Server \ {q.server} : key'[s] = key[s] /\ table'[s] = table[s]
      /\ \/ key' = key /\ table' = table
         \/ table'[q.server] = {}
  <2>1. CASE keyFile' = request[r].key /\ NewCredentials(r)
    <3>1. q.key \in Nat \cup {None}
      BY DEF ARequest
    <3> QED
      BY <1>2, <2>1, <3>1 DEF NewCredentials, Inv, Types
  <2>2. CASE /\ keyFile' \in IF ReplacesAtOnce THEN {keyFile} ELSE {keyFile, None}
             /\ UNCHANGED <<key, table>>
    <3>1. keyFile' \in Nat \cup {None}
      BY <2>2 DEF Inv, Types
    <3> QED
      BY <2>2, <3>1 DEF Inv, Types
  <2> QED
    BY <1>1, <2>1, <2>2 DEF Replaced
<1>4. /\ request' \in [Slot -> ARequest \cup {Free}] /\ request'[r] = Free
      /\ \A s \in Slot \ {r} : request'[s] = request[s]
  BY <1>1, FinishType DEF Inv
<1>5. Types'
  <2>1. writer' \in [Server -> Slot \cup {None}] /\ tableLock' \in [Server -> Slot \cup {None}]
    BY <1>1 DEF Inv, Types
  <2> QED
    BY <1>1, <1>3, <1>4, <2>1 DEF Inv, Types, turnVars
<1>6. Locked'
  BY <1>1, <1>2 DEF Inv, Types, Locked
<1>7. Tables'
  BY <1>1, <1>2, <1>3 DEF Inv, Tables, turnVars
<1>8. Relies(r, request[r])'
  BY <1>4 DEF Relies
<1>9. ASSUME NEW i \in DOMAIN epoch
      PROVE  Spares(r, i)
  <2>1. Expired(i, now) => Expired(i, now)'
    BY <1>1 DEF Expired
  <2> QED
    BY <1>1, <1>2, <1>3, <2>1 DEF Spares
<1>10. \A s \in Server : readers[s] # {} => key'[s] = key[s]
  BY <1>2, <1>3
<1>11. UNCHANGED <<server, now>> /\ DOMAIN epoch \subseteq DOMAIN epoch'
  BY <1>1 DEF turnVars
<1>12. ASSUME NEW s \in Server, NEW t \in Slot \ {r}
       PROVE  /\ t \in readers[s] => t \in readers'[s]
              /\ writer[s] = t => writer'[s] = t
  <2>1. readers' = readers
    BY <1>1
  <2>2. writer[s] = t => s # q.server
    BY <1>2
  <2> QED
    BY <1>1, <2>1, <2>2 DEF Inv, Types
<1>13. \A t \in Slot \ {r} : request'[t] = request[t]
  BY <1>4
<1> QED
  BY <1>5, <1>6, <1>7, <1>8, <1>9, <1>10, <1>11, <1>12, <1>13, EpochStep

\* The epochs a challenge leaves: those there are, and perhaps one more of its server
\* and under its key.
LEMMA IssueStep ==
  ASSUME ServiceConstants, Inv, NEW r \in Slot, Issue(r)
  PROVE  Inv'
<1> DEFINE e == Cardinality(DOMAIN epoch) + 1
<1>1. /\ request[r].at = "sweep" /\ Unread(r) /\ Finish(r)
      /\ tableLock' = [tableLock EXCEPT ![request[r].server] = None]
      /\ UNCHANGED <<now, turnVars, keyVars, writer>>
      /\ \/ UNCHANGED epochVars
         \/ /\ epoch' = [i \in 1..e |-> IF i = e THEN NewEpoch(r) ELSE epoch[i]]
            /\ table' = [table EXCEPT ![request[r].server] = @ \cup {e}]
  BY DEF Issue
<1> PICK q \in ARequest : q = request[r]
  BY <1>1, UnderWay DEF Places
<1>2. /\ q # Free /\ Relies(r, q) /\ q.server \in Server /\ q.at = "sweep"
      /\ q.time \in Nat /\ q.server <= server
  BY <1>1, UnderWay DEF Places
<1>3. q.key = key[q.server]
  BY <1>2 DEF Relies, Reading
<1>4. PICK n \in Nat : epoch \in [1..n -> AnEpoch]
  BY DEF Inv, Types
<1>5. e = n + 1
  <2>1. DOMAIN epoch = 1..n
    BY <1>4
  <2>2. Cardinality(1..n) = IF 1 > n THEN 0 ELSE n - 1 + 1
    BY <1>4, FS_Interval
  <2>3. Cardinality(1..n) = n
    BY <1>4, <2>2
  <2> QED
    BY <2>1, <2>3
<1>6. NewEpoch(r) \in AnEpoch /\ NewEpoch(r).key = q.key
  <2>1. PICK time \in Nat : time = q.time
    BY <1>2
  <2>2. time + Ttl \in Nat
    BY Numbers
  <2>3. PICK of \in Nat \cup {None} : of = q.key
    BY DEF ARequest
  <2>4. [expires |-> time + Ttl, seen |-> time, active |-> FALSE, holder |-> None, key |-> of]
          \in AnEpoch
    BY <2>2 DEF AnEpoch
  <2> QED
    BY <2>1, <2>3, <2>4 DEF NewEpoch
<1>7. /\ request' \in [Slot -> ARequest \cup {Free}] /\ request'[r] = Free
      /\ \A s \in Slot \ {r} : request'[s] = request[s]
  BY <1>1, FinishType DEF Inv
<1>8. /\ readers' \in [Server -> SUBSET Slot]
      /\ \A s \in Server : readers'[s] \subseteq readers[s]
      /\ \A s \in Server : \A t \in Slot \ {r} : t \in readers[s] => t \in readers'[s]
  BY <1>1 DEF Unread, Inv, Types
<1>9. tableLock' \in [Server -> Slot \cup {None}]
  BY <1>1 DEF Inv, Types
<1>10. Locked'
  BY <1>1, <1>8 DEF Inv, Locked
<1>11. Relies(r, request[r])'
  BY <1>7 DEF Relies
<1>12. CASE UNCHANGED epochVars
  <2>1. Types' /\ Tables'
    BY <1>1, <1>7, <1>8, <1>9, <1>12 DEF Inv, Types, Tables, turnVars, keyVars, epochVars
  <2>2. ASSUME NEW i \in DOMAIN epoch
        PROVE  Spares(r, i)
    BY <1>1, <1>12 DEF Spares, Expired, epochVars
  <2> QED
    BY <1>1, <1>7, <1>8, <1>10, <1>11, <1>12, <2>1, <2>2, EpochStep
    DEF turnVars, keyVars, epochVars
<1>13. CASE /\ epoch' = [i \in 1..e |-> IF i = e THEN NewEpoch(r) ELSE epoch[i]]
            /\ table' = [table EXCEPT ![request[r].server] = @ \cup {e}]
  <2>1. PICK new \in AnEpoch : new = NewEpoch(r) /\ new.key = key[q.server]
    BY <1>3, <1>6
  <2>2. /\ epoch' \in [1..(n + 1) -> AnEpoch]
        /\ \A i \in 1..n : epoch'[i] = epoch[i]
        /\ epoch'[n + 1] = new
    BY <1>4, <1>5, <1>13, <2>1
  <2>3. table' = [table EXCEPT ![q.server] = @ \cup {n + 1}] /\ n + 1 \in Nat /\ n + 1 \notin 1..n
    <3>1. table' = [table EXCEPT ![q.server] = @ \cup {e}]
      BY <1>13
    <3>2. n + 1 \in Nat /\ n + 1 \notin 1..n
      BY <1>4
    <3> HIDE DEF e
    <3> QED
      BY <1>5, <3>1, <3>2
  <2>4. /\ table' \in [Server -> SUBSET Nat]
        /\ \A s \in Server, i \in 1..n : i \in table'[s] <=> i \in table[s]
        /\ \A s \in Server : n + 1 \in table'[s] <=> s = q.server
        /\ \A s \in Server : table'[s] \subseteq table[s] \cup {n + 1}
    BY <1>2, <1>4, <2>3 DEF Inv, Types, Tables
  <2>5. Types'
    <3>1. \E m \in Nat : epoch' \in [1..m -> AnEpoch]
      BY <2>2, <2>3
    <3> QED
      BY <1>1, <1>7, <1>8, <1>9, <2>4, <3>1 DEF Inv, Types, turnVars, keyVars
  <2>6. Tables'
    <3>1. ASSUME NEW s \in Server, NEW i \in table'[s]
          PROVE  /\ i \in DOMAIN epoch' /\ epoch'[i].key = key'[s]
                 /\ s <= server'
                 /\ \A u \in Server : i \in table'[u] => u = s
      <4>1. CASE i = n + 1
        <5>1. s = q.server
          BY <2>4, <3>1, <4>1
        <5> QED
          BY <1>1, <1>2, <2>1, <2>2, <2>4, <4>1, <5>1 DEF turnVars, keyVars
      <4>2. CASE i # n + 1
        <5>1. i \in table[s]
          BY <2>4, <3>1, <4>2
        <5>2. i \in 1..n
          BY <1>4, <5>1 DEF Inv, Tables
        <5> QED
          BY <1>1, <2>2, <2>4, <5>1, <5>2 DEF Inv, Tables, turnVars, keyVars
      <4> QED
        BY <4>1, <4>2
    <3>2. ASSUME NEW s \in Server, s > server'
          PROVE  table'[s] = {}
      <4>1. s # q.server /\ table[s] = {}
        BY <1>1, <1>2, <3>2, Numbers DEF Inv, Types, Tables, Server, turnVars
      <4> QED
        BY <2>3, <4>1 DEF Inv, Types
    <3> QED
      BY <3>1, <3>2 DEF Tables
  <2>7. ASSUME NEW i \in DOMAIN epoch
        PROVE  Spares(r, i)
    <3>1. i \in 1..n /\ epoch'[i] = epoch[i] /\ now' = now
      BY <1>1, <1>4, <2>2
    <3>2. Expired(i, now) => Expired(i, now)'
      BY <3>1 DEF Expired
    <3> QED
      BY <2>4, <3>1, <3>2 DEF Spares
  <2>8. DOMAIN epoch \subseteq DOMAIN epoch'
    BY <1>4, <2>2
  <2> QED
    BY <1>1, <1>7, <1>8, <1>10, <1>11, <2>5, <2>6, <2>7, <2>8, EpochStep DEF turnVars, keyVars
<1> QED
  BY <1>1, <1>12, <1>13

-----------------------------------------------------------------------------
(* The server, the clock, and the theorem *)

LEMMA InitInv ==
  ASSUME ServiceConstants, Init
  PROVE  Inv
<1>1. 1 \in Server /\ server = 1
  BY DEF ServiceConstants, Server, Init
<1>2. \A r \in Slot : request[r] = Free
  BY DEF Init
<1>3. \E n \in Nat : epoch \in [1..n -> AnEpoch]
  <2>1. epoch \in [1..0 -> AnEpoch]
    BY DEF Init
  <2> QED
    BY <2>1
<1>4. \A s \in Server : table[s] = {} /\ readers[s] = {}
  BY DEF Init, Server
<1>5. Types
  BY <1>1, <1>3 DEF Init, Types, Server
<1>6. Locked /\ Tables
  BY <1>4 DEF Locked, Tables
<1> QED
  BY <1>2, <1>5, <1>6 DEF Inv, Relies

\* Time passes, or the server is asked to stop.
LEMMA TickStep ==
  ASSUME ServiceConstants, Inv, Tick \/ Shutdown
  PROVE  Inv'
<1>1. /\ UNCHANGED <<server, keyVars, lockVars, epochVars, request>>
      /\ now' = now \/ now' = now + 1
  BY DEF Tick, Shutdown, turnVars
<1>2. now \in Nat /\ now' \in Nat /\ now <= now'
  <2>1. now \in Nat
    BY DEF Inv, Types
  <2> QED
    BY <1>1, <2>1, Successor
<1>3. Types' /\ Locked' /\ Tables'
  BY <1>1, <1>2 DEF Inv, Types, Locked, Tables, keyVars, lockVars, epochVars
<1>4. ASSUME NEW r \in Slot, request[r] # Free
      PROVE  Relies(r, request[r])'
  <2> PICK q \in ARequest : q = request[r]
    BY <1>4 DEF Inv, Types
  <2>1. Relies(r, q) /\ q # Free /\ request'[r] = q
    BY <1>1, <1>4 DEF Inv
  <2>2. q.time \in Nat /\ q.time <= now
    BY <2>1 DEF Relies, ARequest
  <2>3. q.time <= now'
    BY <1>2, <2>2
  <2>4. q.epoch \in DOMAIN epoch /\ Expired(q.epoch, now) => Expired(q.epoch, now)'
    <3> SUFFICES ASSUME q.epoch \in DOMAIN epoch, Expired(q.epoch, now)
                 PROVE  Expired(q.epoch, now)'
      OBVIOUS
    <3>1. epoch[q.epoch] \in AnEpoch
      BY DEF Inv, Types
    <3>2. PICK later \in Nat : later = now'
      BY <1>2
    <3>3. Expired(q.epoch, later)
      BY <1>2, <3>1, <3>2, StaysExpired
    <3>4. epoch' = epoch
      BY <1>1 DEF epochVars
    <3> QED
      BY <3>2, <3>3, <3>4, Zenon DEF Expired
  <2>5. Relies(r, q)'
    BY <1>1, <2>1, <2>3, <2>4 DEF Relies, keyVars, lockVars, epochVars
  <2> QED
    BY <2>1, <2>5
<1>5. ASSUME NEW r \in Slot, request[r] = Free
      PROVE  Relies(r, request[r])'
  BY <1>1, <1>5 DEF Relies
<1> QED
  BY <1>3, <1>4, <1>5 DEF Inv

\* A new server has an empty table of its own and does not touch its predecessors'.
LEMMA ServeType ==
  ASSUME ServiceConstants, Inv, Serve
  PROVE  /\ server' = server + 1 /\ server' \in Server /\ server <= server' /\ server \in Nat
         /\ keys' \in Nat /\ keyFile' \in Nat \cup {None}
         /\ key' \in [Server -> Nat \cup {None}]
         /\ \A s \in Server : s <= server => key'[s] = key[s] /\ s <= server'
         /\ \A s \in Server : s > server' => s > server
<1>1. server' = server + 1 /\ server < MaxServers
  BY DEF Serve
<1>2. server \in Nat /\ server \in Server
  BY Numbers DEF Inv, Types, Server
<1>3. server' \in Server /\ server <= server'
  BY <1>1, <1>2, Numbers DEF Server
<1>4. keys' \in Nat /\ keyFile' \in Nat \cup {None}
  <2>1. keys \in Nat /\ keyFile \in Nat \cup {None}
    BY DEF Inv, Types
  <2>2. keys + 1 \in Nat
    BY <2>1, Successor
  <2>3. keys' \in Nat
    BY <2>1, <2>2 DEF Serve
  <2> QED
    BY <2>1, <2>3 DEF Serve
<1>5. key' = [key EXCEPT ![server + 1] = keyFile']
  BY DEF Serve
<1>6. /\ key' \in [Server -> Nat \cup {None}]
      /\ \A s \in Server : s # server + 1 => key'[s] = key[s]
  BY <1>4, <1>5 DEF Inv, Types
<1>7. \A s \in Server : /\ s <= server => s # server + 1 /\ s <= server'
                        /\ s > server' => s > server
  <2>1. \A s \in Server : s \in Nat
    BY Numbers DEF Server
  <2> QED
    BY <1>1, <1>2, <2>1
<1>8. ASSUME NEW s \in Server, s <= server
      PROVE  key'[s] = key[s] /\ s <= server'
  <2>1. s # server + 1 /\ s <= server'
    BY <1>7, <1>8
  <2> QED
    BY <1>6, <2>1
<1>9. ASSUME NEW s \in Server, s > server'
      PROVE  s > server
  BY <1>7, <1>9
<1>10. key' \in [Server -> Nat \cup {None}]
  BY <1>6
<1> QED
  BY <1>1, <1>2, <1>3, <1>4, <1>8, <1>9, <1>10

LEMMA RebootStep ==
  ASSUME ServiceConstants, Inv, Reboot
  PROVE  Inv'
<1>1. /\ Serve /\ UNCHANGED <<now, lockVars, epochVars, request>>
  BY DEF Reboot
<1>2. /\ server' = server + 1 /\ server' \in Server /\ server <= server' /\ server \in Nat
      /\ keys' \in Nat /\ keyFile' \in Nat \cup {None}
      /\ key' \in [Server -> Nat \cup {None}]
      /\ \A s \in Server : s <= server => key'[s] = key[s] /\ s <= server'
      /\ \A s \in Server : s > server' => s > server
  BY <1>1, ServeType
<1>3. Types' /\ Locked'
  BY <1>1, <1>2 DEF Inv, Types, Locked, lockVars, epochVars
<1>4. Tables'
  <2>1. ASSUME NEW s \in Server, NEW e \in table[s]
        PROVE  /\ e \in DOMAIN epoch' /\ epoch'[e].key = key'[s] /\ s <= server'
               /\ \A u \in Server : e \in table[u] => u = s
    <3>1. /\ e \in DOMAIN epoch /\ epoch[e].key = key[s] /\ s <= server
          /\ \A u \in Server : e \in table[u] => u = s
      BY <2>1 DEF Inv, Tables
    <3>2. key'[s] = key[s] /\ s <= server'
      BY <1>2, <3>1
    <3> QED
      BY <1>1, <3>1, <3>2 DEF epochVars
  <2>2. ASSUME NEW s \in Server, s > server'
        PROVE  table[s] = {}
    BY <1>2, <2>2 DEF Inv, Tables
  <2> QED
    BY <1>1, <2>1, <2>2 DEF Tables, epochVars
<1>5. ASSUME NEW r \in Slot, request[r] # Free
      PROVE  Relies(r, request[r])'
  <2> PICK q \in ARequest : q = request[r]
    BY <1>5 DEF Inv, Types
  <2>1. Relies(r, q) /\ q # Free /\ request'[r] = q /\ q.server \in Server
    BY <1>1, <1>5 DEF Inv, Relies
  <2>2. q.server <= server' /\ key'[q.server] = key[q.server]
    <3>1. q.server <= server
      BY <2>1 DEF Relies
    <3> QED
      BY <1>2, <2>1, <3>1
  <2>3. Expired(q.epoch, now)' <=> Expired(q.epoch, now)
    BY <1>1, Zenon DEF Expired, epochVars
  <2>4. Relies(r, q)'
    BY <1>1, <2>1, <2>2, <2>3 DEF Relies, lockVars, epochVars
  <2> QED
    BY <2>1, <2>4
<1>6. ASSUME NEW r \in Slot, request[r] = Free
      PROVE  Relies(r, request[r])'
  BY <1>1, <1>6 DEF Relies
<1> QED
  BY <1>3, <1>4, <1>5, <1>6 DEF Inv

LEMMA CrashStep ==
  ASSUME ServiceConstants, Inv, Crash
  PROVE  Inv'
<1>1. /\ Serve /\ UNCHANGED <<now, table>>
      /\ request' = [r \in Slot |-> Free]
      /\ readers' = [s \in Server |-> {}]
      /\ writer' = [s \in Server |-> None]
      /\ tableLock' = [s \in Server |-> None]
      /\ epoch' = [e \in DOMAIN epoch |-> [epoch[e] EXCEPT !.holder = None]]
  BY DEF Crash, Server
<1>2. /\ server' = server + 1 /\ server' \in Server /\ server <= server' /\ server \in Nat
      /\ keys' \in Nat /\ keyFile' \in Nat \cup {None}
      /\ key' \in [Server -> Nat \cup {None}]
      /\ \A s \in Server : s <= server => key'[s] = key[s] /\ s <= server'
      /\ \A s \in Server : s > server' => s > server
  BY <1>1, ServeType
<1>3. PICK n \in Nat : epoch \in [1..n -> AnEpoch]
  BY DEF Inv, Types
<1>4. epoch' \in [1..n -> AnEpoch] /\ \A e \in 1..n : epoch'[e].key = epoch[e].key
  <2>1. ASSUME NEW old \in AnEpoch
        PROVE  /\ [old EXCEPT !.holder = None] \in AnEpoch
               /\ [old EXCEPT !.holder = None].key = old.key
    BY DEF AnEpoch
  <2>2. epoch' = [e \in 1..n |-> [epoch[e] EXCEPT !.holder = None]]
    BY <1>1, <1>3
  <2> QED
    BY <1>3, <2>1, <2>2
<1>5. Types'
  <2>1. \E m \in Nat : epoch' \in [1..m -> AnEpoch]
    BY <1>4
  <2> QED
    BY <1>1, <1>2, <2>1 DEF Inv, Types
<1>6. Locked' /\ \A r \in Slot : request'[r] = Free
  BY <1>1 DEF Locked
<1>7. Tables'
  <2>1. ASSUME NEW s \in Server, NEW e \in table[s]
        PROVE  /\ e \in DOMAIN epoch' /\ epoch'[e].key = key'[s] /\ s <= server'
               /\ \A u \in Server : e \in table[u] => u = s
    <3>1. /\ e \in DOMAIN epoch /\ epoch[e].key = key[s] /\ s <= server
          /\ \A u \in Server : e \in table[u] => u = s
      BY <2>1 DEF Inv, Tables
    <3>2. key'[s] = key[s] /\ s <= server'
      BY <1>2, <3>1
    <3> QED
      BY <1>3, <1>4, <3>1, <3>2
  <2>2. ASSUME NEW s \in Server, s > server'
        PROVE  table[s] = {}
    BY <1>2, <2>2 DEF Inv, Tables
  <2> QED
    BY <1>1, <2>1, <2>2 DEF Tables
<1> QED
  BY <1>5, <1>6, <1>7 DEF Inv, Relies

LEMMA NextInv ==
  ASSUME ServiceConstants, Inv, [Next]_vars
  PROVE  Inv'
<1>1. CASE UNCHANGED vars
  <2>1. Types' /\ Locked' /\ Tables'
    BY <1>1 DEF Inv, Types, Locked, Tables, vars, turnVars, keyVars, lockVars, epochVars
  <2>2. ASSUME NEW r \in Slot
        PROVE  Relies(r, request[r])'
    BY <1>1 DEF Inv, Relies, Expired, vars, turnVars, keyVars, lockVars, epochVars
  <2> QED
    BY <2>1, <2>2 DEF Inv
<1>2. ASSUME NEW r \in Slot, NEW p \in Peer, NEW kind \in Kinds,
             Control(r, p) \/ Arrive(r, kind, p)
      PROVE  Inv'
  BY <1>2, ArriveStep
<1>3. ASSUME NEW r \in Slot, Step(r)
      PROVE  Inv'
  <2>1. CASE EnterChallenge(r) \/ EnterEnvelope(r)
    BY <2>1, CheckKeyStep
  <2>2. CASE LockTable(r)
    BY <2>2, LockTableStep
  <2>3. CASE Issue(r)
    BY <2>3, IssueStep
  <2>4. CASE \E e \in DOMAIN epoch : Sweep(r, e)
    BY <2>4, SweepStep
  <2>5. CASE LookUp(r)
    BY <2>5, LookUpStep
  <2>6. CASE LockEpoch(r)
    BY <2>6, LockEpochStep
  <2>7. CASE Handle(r)
    BY <2>7, HandleStep
  <2>8. CASE WriteFile(r)
    BY <2>8, WriteFileStep
  <2>9. CASE LockForReset(r)
    BY <2>9, LockForResetStep
  <2>10. CASE Replace(r)
    BY <2>10, ReplaceStep
  <2> QED
    BY <1>3, <2>1, <2>2, <2>3, <2>4, <2>5, <2>6, <2>7, <2>8, <2>9, <2>10 DEF Step
<1>4. ASSUME NEW r \in Slot, Break(r)
      PROVE  Inv'
  BY <1>4, BreakStep
<1>5. CASE Tick \/ Shutdown
  BY <1>5, TickStep
<1>6. CASE Reboot
  BY <1>6, RebootStep
<1>7. CASE Crash
  BY <1>7, CrashStep
<1> QED
  BY <1>1, <1>2, <1>3, <1>4, <1>5, <1>6, <1>7 DEF Next

LEMMA InvHandled ==
  ASSUME ServiceConstants, Inv
  PROVE  HandledAsAdmitted
<1>1. ASSUME NEW r \in Slot, request[r].at = "handle"
      PROVE  /\ request[r].key = key[request[r].server]
             /\ request[r].epoch \in table[request[r].server]
  <2>1. request[r] # Free /\ Relies(r, request[r])
    BY <1>1, UnderWay DEF Places
  <2> QED
    BY <1>1, <2>1 DEF Relies, Reading
<1>2. 1..server \subseteq Server
  BY Numbers DEF Inv, Types, Server
<1>3. OldKeyIsDead
  BY <1>1, <1>2 DEF OldKeyIsDead, Inv, Tables
<1>4. HandledInTheTable
  BY <1>1 DEF HandledInTheTable
<1> QED
  BY <1>3, <1>4 DEF HandledAsAdmitted

\* challenge, process_envelope and reset_upload_key: whatever the number of requests,
\* however their locks, a sweep, a reboot or a crash come between, a message is handled
\* only under the key its server has and in an epoch its table holds, and no epoch of an
\* older key is left to a client.
THEOREM HandledUnderTheKey == Spec => []HandledAsAdmitted
<1> USE ServiceConstants
<1>1. Init => Inv
  BY InitInv
<1>2. Inv /\ [Next]_vars => Inv'
  BY NextInv
<1>3. Inv => HandledAsAdmitted
  BY InvHandled
<1> QED
  BY <1>1, <1>2, <1>3, PTL DEF Spec

-----------------------------------------------------------------------------
(* The key on disk *)

ResetPlaces == {"write file", "first lock", "second lock", "replace"}

\* A reset whose connection stays has the server it began with.
MyReset(q) ==
  q.at \in ResetPlaces => q.kind = "reset" /\ q.connected = TRUE /\ q.server = server

Durable ==
  /\ key[server] = keyFile
  /\ \A r \in Slot : MyReset(request[r])

LEMMA FreeIsNoReset == MyReset(Free) /\ MyReset(Free)'
<1>1. Free.at = "free" /\ "free" \notin ResetPlaces
  BY DEF Free, ResetPlaces
<1> QED
  BY <1>1 DEF MyReset

LEMMA KeepsDurable ==
  ASSUME Durable, NEW r \in Slot, UNCHANGED <<server, key, keyFile>>,
         \A t \in Slot \ {r} : request'[t] = request[t],
         MyReset(request'[r])
  PROVE  Durable'
BY DEF Durable, MyReset

LEMMA DurableStep ==
  ASSUME ServiceConstants, ReplacesAtOnce, Inv, Durable, NEW r \in Slot, Step(r)
  PROVE  Durable'
<1>1. ASSUME Finish(r), UNCHANGED <<server, key, keyFile>>
      PROVE  Durable'
  BY <1>1, FinishType, FreeIsNoReset, KeepsDurable DEF Inv
<1>2. ASSUME NEW new, request' = [request EXCEPT ![r] = new], MyReset(new),
             UNCHANGED <<server, key, keyFile>>
      PROVE  Durable'
  BY <1>2, KeepsDurable DEF Inv, Types
<1>3. ASSUME request[r].at \in Places
      PROVE  \E q \in ARequest : q = request[r] /\ MyReset(q)
  BY <1>3, UnderWay DEF Durable
<1>4. CASE EnterChallenge(r) \/ EnterEnvelope(r)
  <2>1. PICK from \in {"challenge", "envelope"}, to \in {"lock table", "look up"} :
          CheckKey(r, from, to)
    BY <1>4 DEF EnterChallenge, EnterEnvelope
  <2>2. /\ request[r].at = from /\ UNCHANGED <<turnVars, keyVars>>
        /\ Finish(r) \/ request' = [request EXCEPT ![r].at = to, ![r].time = now]
    BY <2>1 DEF CheckKey
  <2>3. PICK q \in ARequest : q = request[r]
    BY <1>3, <2>2 DEF Places
  <2>4. PICK new : new = [q EXCEPT !.at = to, !.time = now]
    OBVIOUS
  <2>5. new.at \notin ResetPlaces
    BY <2>4 DEF ARequest, ResetPlaces
  <2>6. UNCHANGED <<server, key, keyFile>>
    BY <2>2 DEF turnVars, keyVars
  <2>7. Finish(r) \/ request' = [request EXCEPT ![r] = new]
    BY <2>2, <2>3, <2>4
  <2> QED
    BY <1>1, <1>2, <2>5, <2>6, <2>7 DEF MyReset
<1>5. CASE LockTable(r)
  <2>1. /\ request[r].at = "lock table" /\ UNCHANGED <<turnVars, keyVars>>
        /\ request' = [request EXCEPT ![r].at = "sweep", ![r].left = table[request[r].server]]
    BY <1>5 DEF LockTable
  <2>2. PICK q \in ARequest : q = request[r]
    BY <1>3, <2>1 DEF Places
  <2>3. [q EXCEPT !.at = "sweep", !.left = table[q.server]].at \notin ResetPlaces
    BY DEF ARequest, ResetPlaces
  <2> QED
    BY <1>2, <2>1, <2>2, <2>3 DEF MyReset, turnVars, keyVars
<1>6. CASE \E e \in DOMAIN epoch : Sweep(r, e)
  <2>1. PICK e \in DOMAIN epoch :
          /\ request[r].at = "sweep" /\ UNCHANGED <<turnVars, keyVars>>
          /\ request' = [request EXCEPT ![r].left = @ \ {e}]
    BY <1>6 DEF Sweep
  <2>2. PICK q \in ARequest : q = request[r] /\ q.at = "sweep"
    BY <1>3, <2>1 DEF Places
  <2>3. [q EXCEPT !.left = @ \ {e}].at \notin ResetPlaces
    BY <2>2 DEF ARequest, ResetPlaces
  <2> QED
    BY <1>2, <2>1, <2>2, <2>3 DEF MyReset, turnVars, keyVars
<1>7. CASE Issue(r) \/ Handle(r)
  <2>1. Finish(r) /\ UNCHANGED <<turnVars, keyVars>>
    BY <1>7 DEF Issue, Handle, Rejected
  <2> QED
    BY <1>1, <2>1 DEF turnVars, keyVars
<1>8. CASE LookUp(r)
  <2>1. /\ request[r].at = "look up" /\ UNCHANGED <<turnVars, keyVars>>
        /\ Finish(r) \/ request' = [request EXCEPT ![r].at = "lock epoch"]
    BY <1>8 DEF LookUp, Rejected, Goes
  <2>2. PICK q \in ARequest : q = request[r]
    BY <1>3, <2>1 DEF Places
  <2>3. [q EXCEPT !.at = "lock epoch"].at \notin ResetPlaces
    BY DEF ARequest, ResetPlaces
  <2> QED
    BY <1>1, <1>2, <2>1, <2>2, <2>3 DEF MyReset, turnVars, keyVars
<1>9. CASE LockEpoch(r)
  <2>1. /\ request[r].at = "lock epoch" /\ UNCHANGED <<turnVars, keyVars>>
        /\ Finish(r) \/ request' = [request EXCEPT ![r].at = "handle", ![r].time = now]
    BY <1>9 DEF LockEpoch, Rejected
  <2>2. PICK q \in ARequest : q = request[r]
    BY <1>3, <2>1 DEF Places
  <2>3. [q EXCEPT !.at = "handle", !.time = now].at \notin ResetPlaces
    BY DEF ARequest, ResetPlaces
  <2> QED
    BY <1>1, <1>2, <2>1, <2>2, <2>3 DEF MyReset, turnVars, keyVars
<1>10. CASE WriteFile(r)
  <2>1. /\ request[r].at = "write file" /\ UNCHANGED <<turnVars, key, keyFile>>
        /\ \/ Finish(r)
           \/ request' = [request EXCEPT ![r].at = "first lock", ![r].key = keys']
    BY <1>10 DEF WriteFile
  <2>2. PICK q \in ARequest : q = request[r] /\ MyReset(q) /\ q.at = "write file"
    BY <1>3, <2>1 DEF Places
  <2>3. MyReset([q EXCEPT !.at = "first lock", !.key = keys'])
    <3>1. PICK new : new = [q EXCEPT !.at = "first lock", !.key = keys']
      OBVIOUS
    <3>2. new.kind = q.kind /\ new.connected = q.connected /\ new.server = q.server
      BY <3>1 DEF ARequest
    <3> QED
      BY <2>2, <3>1, <3>2 DEF MyReset, ResetPlaces
  <2> QED
    BY <1>1, <1>2, <2>1, <2>2, <2>3 DEF turnVars
<1>11. CASE LockForReset(r)
  <2>1. PICK from \in {"first lock", "second lock"}, to \in {"second lock", "replace"} :
          /\ request[r].at = from /\ UNCHANGED <<turnVars, keyVars>>
          /\ request' = [request EXCEPT ![r].at = to]
    BY <1>11 DEF LockForReset, Goes
  <2>2. PICK q \in ARequest : q = request[r] /\ MyReset(q) /\ q.at = from
    BY <1>3, <2>1 DEF Places
  <2>3. MyReset([q EXCEPT !.at = to])
    <3>1. PICK new : new = [q EXCEPT !.at = to]
      OBVIOUS
    <3>2. new.kind = q.kind /\ new.connected = q.connected /\ new.server = q.server
      BY <3>1 DEF ARequest
    <3> QED
      BY <2>2, <3>1, <3>2 DEF MyReset, ResetPlaces
  <2> QED
    BY <1>2, <2>1, <2>2, <2>3 DEF turnVars, keyVars
<1>12. CASE Replace(r)
  <2>1. /\ request[r].at = "replace" /\ UNCHANGED turnVars /\ Finish(r)
        /\ \/ /\ keyFile' = request[r].key
              /\ key' = [key EXCEPT ![request[r].server] = request[r].key]
           \/ keyFile' = keyFile /\ key' = key
    BY <1>12 DEF Replace, Replaced, NewCredentials
  <2>2. PICK q \in ARequest : q = request[r] /\ MyReset(q)
    BY <1>3, <2>1 DEF Places
  <2>3. q.server = server /\ server' = server
    BY <2>1, <2>2 DEF MyReset, ResetPlaces, turnVars
  <2>4. key'[server'] = keyFile'
    BY <2>1, <2>2, <2>3 DEF Inv, Types, Durable
  <2>5. ASSUME NEW t \in Slot
        PROVE  MyReset(request[t])'
    <3>1. request'[t] = Free \/ request'[t] = request[t]
      BY <2>1, FinishType DEF Inv
    <3> QED
      BY <2>3, <3>1, FreeIsNoReset DEF Durable, MyReset
  <2> QED
    BY <2>4, <2>5 DEF Durable
<1> QED
  BY <1>4, <1>5, <1>6, <1>7, <1>8, <1>9, <1>10, <1>11, <1>12 DEF Step

LEMMA DurableNext ==
  ASSUME ServiceConstants, ReplacesAtOnce, "reset" \notin Breaks, Inv, Durable, [Next]_vars
  PROVE  Durable'
<1>1. CASE UNCHANGED vars
  BY <1>1 DEF Durable, MyReset, vars, turnVars, keyVars
<1>2. ASSUME NEW r \in Slot, NEW p \in Peer, NEW kind \in Kinds,
             Control(r, p) \/ Arrive(r, kind, p)
      PROVE  Durable'
  <2>1. UNCHANGED <<server, key, keyFile>>
    BY <1>2 DEF Control, Arrive, turnVars, keyVars
  <2>2. CASE request' = request
    BY <2>1, <2>2 DEF Durable, MyReset
  <2>3. CASE Control(r, p)
    <3>1. PICK new : new = Begun("reset", p, "write file", None, None)
      OBVIOUS
    <3>2. MyReset(new)
      BY <3>1 DEF Begun, MyReset
    <3>3. request' = [request EXCEPT ![r] = new]
      BY <2>3, <3>1 DEF Control
    <3> QED
      BY <2>1, <3>2, <3>3, KeepsDurable DEF Inv, Types
  <2>4. CASE \E k \in 1..keys, e \in DOMAIN epoch \cup {None}, at \in {"challenge", "envelope"} :
               request' = [request EXCEPT ![r] = Begun(kind, p, at, k, e)]
    <3>1. PICK k \in 1..keys, e \in DOMAIN epoch \cup {None}, at \in {"challenge", "envelope"} :
            request' = [request EXCEPT ![r] = Begun(kind, p, at, k, e)]
      BY <2>4
    <3>2. PICK new : new = Begun(kind, p, at, k, e)
      OBVIOUS
    <3>3. MyReset(new)
      BY <3>2 DEF Begun, MyReset, ResetPlaces
    <3> QED
      BY <2>1, <3>1, <3>2, <3>3, KeepsDurable DEF Inv, Types
  <2> QED
    BY <1>2, <2>2, <2>3, <2>4 DEF Arrive
<1>3. ASSUME NEW r \in Slot, Step(r)
      PROVE  Durable'
  BY <1>3, DurableStep
<1>4. ASSUME NEW r \in Slot, Break(r)
      PROVE  Durable'
  <2>1. /\ UNCHANGED <<server, key, keyFile>> /\ request[r] # Free
        /\ request[r].kind # "reset"
        /\ request' = [request EXCEPT ![r].connected = FALSE]
    BY <1>4 DEF Break, IsBusy, turnVars, keyVars
  <2>2. PICK q \in ARequest : q = request[r] /\ MyReset(q)
    BY <2>1 DEF Durable, Inv, Types
  <2>3. PICK new : new = [q EXCEPT !.connected = FALSE]
    OBVIOUS
  <2>4. new.at = q.at
    BY <2>3 DEF ARequest
  <2>5. MyReset(new)
    BY <2>1, <2>2, <2>4 DEF MyReset
  <2>6. request' = [request EXCEPT ![r] = new]
    BY <2>1, <2>2, <2>3
  <2> QED
    BY <2>1, <2>5, <2>6, KeepsDurable DEF Inv, Types
<1>5. CASE Tick \/ Shutdown
  BY <1>5 DEF Tick, Shutdown, Durable, MyReset, turnVars, keyVars
<1>6. ASSUME Serve
      PROVE  key'[server'] = keyFile'
  <2>1. server' = server + 1 /\ server' \in Server
    BY <1>6, ServeType
  <2>2. key' = [key EXCEPT ![server'] = keyFile']
    BY <1>6, <2>1 DEF Serve
  <2> QED
    BY <2>1, <2>2 DEF Inv, Types
<1>7. CASE Reboot
  <2>1. Serve /\ request' = request /\ \A r \in Slot : IsBusy(r) => ~request[r].connected
    BY <1>7 DEF Reboot
  <2>2. ASSUME NEW r \in Slot
        PROVE  MyReset(request[r])'
    <3>1. CASE request[r] = Free
      BY <2>1, <3>1, FreeIsNoReset
    <3>2. CASE request[r] # Free
      BY <2>1, <3>2 DEF IsBusy, Durable, MyReset
    <3> QED
      BY <3>1, <3>2
  <2> QED
    BY <1>6, <2>1, <2>2 DEF Durable
<1>8. CASE Crash
  <2>1. Serve /\ \A r \in Slot : request'[r] = Free
    BY <1>8 DEF Crash
  <2> QED
    BY <1>6, <2>1, FreeIsNoReset DEF Durable
<1> QED
  BY <1>1, <1>2, <1>3, <1>4, <1>5, <1>7, <1>8 DEF Next

\* reset_upload_key and serve_once, where a rename replaces a file (not on Windows) and
\* the connection of a reset does not break: whatever fails or crashes, the key in memory
\* is the one on disk, which every later server loads.
THEOREM KeySurvives ==
  ASSUME ReplacesAtOnce, "reset" \notin Breaks
  PROVE  Spec => []KeyIsOnDisk
<1> USE ServiceConstants
<1>1. Init => Inv /\ Durable
  <2>1. Init => Durable
    <3> SUFFICES ASSUME Init
                 PROVE  Durable
      OBVIOUS
    <3>1. \A r \in Slot : MyReset(request[r])
      BY FreeIsNoReset DEF Init
    <3>2. 1 \in 1..MaxServers
      BY DEF ServiceConstants
    <3> QED
      BY <3>1, <3>2 DEF Init, Durable
  <2> QED
    BY <2>1, InitInv
<1>2. Inv /\ Durable /\ [Next]_vars => (Inv /\ Durable)'
  BY NextInv, DurableNext
<1>3. Durable => KeyIsOnDisk
  BY DEF Durable, KeyIsOnDisk
<1> QED
  BY <1>1, <1>2, <1>3, PTL DEF Spec

-----------------------------------------------------------------------------
(* Types, and the connections that are counted *)

\* The number of a key or of an epoch that a request carries is one that was given.
Carries(q) ==
  /\ q.key \in 1..keys \cup {None} /\ q.epoch \in DOMAIN epoch \cup {None}
  /\ q.left \subseteq DOMAIN epoch

KeysInUse ==
  /\ keys \in Nat \ {0} /\ keyFile \in 1..keys \cup {None}
  /\ \A s \in Server : key[s] \in 1..keys \cup {None}

TablesFit ==
  \A s \in Server : IsFiniteSet(table[s]) /\ Cardinality(table[s]) <= MaxPending

Holders == \A e \in DOMAIN epoch : epoch[e].holder \in Slot \cup {None}

\* in_flight counts the connections, of which there are finitely many at any time.
Counts ==
  /\ inFlight \in [Peer -> Nat]
  /\ \A p \in Peer :
       /\ IsFiniteSet(Entered(p))
       /\ inFlight[p] = Cardinality(Entered(p)) /\ inFlight[p] <= MaxConnections

Extent ==
  /\ now \in 0..MaxTime /\ phase \in {"up", "stopping"}
  /\ KeysInUse /\ TablesFit /\ Holders /\ Counts
  /\ \A r \in Slot : IsBusy(r) => Carries(request[r])

\* A step of a request keeps what its guard was taken for; the key it comes to carry is
\* a new one.
KeepsGuard(new, q) ==
  /\ new.kind = q.kind /\ new.peer = q.peer /\ new.epoch = q.epoch
  /\ new.key = q.key \/ new.key = keys'
  /\ new.left \subseteq q.left \cup DOMAIN epoch

\* It leaves the other requests alone.
Moved(r) ==
  /\ \A s \in Slot \ {r} : request'[s] = request[s]
  /\ request'[r] # Free /\ KeepsGuard(request'[r], request[r])

Grows == DOMAIN epoch \subseteq DOMAIN epoch' /\ keys' \in {keys, keys + 1}

\* A request that goes on with other fields than before.
LEMMA GoesOn ==
  ASSUME ServiceConstants, Inv, NEW r \in Slot, NEW new,
         request' = [request EXCEPT ![r] = new],
         new.at \in Places, KeepsGuard(new, request[r])
  PROVE  Moved(r) /\ request'[r] = new
<1>1. new # Free
  <2>1. Free.at \notin Places
    BY DEF Free, Places
  <2> QED
    BY <2>1
<1>2. request'[r] = new /\ \A s \in Slot \ {r} : request'[s] = request[s]
  BY DEF Inv, Types
<1> QED
  BY <1>1, <1>2 DEF Moved

LEMMA StepMoves ==
  ASSUME ServiceConstants, Inv, NEW r \in Slot, Step(r)
  PROVE  /\ request[r] # Free
         /\ Finish(r) \/ (Moved(r) /\ request'[r].connected = request[r].connected
                           /\ UNCHANGED inFlight)
<1>1. ASSUME request[r].at \in Places
      PROVE  request[r] # Free /\ request[r] \in ARequest
  BY <1>1, UnderWay
<1>2. CASE EnterChallenge(r) \/ EnterEnvelope(r)
  <2>1. PICK from \in {"challenge", "envelope"}, to \in {"lock table", "look up"} :
          CheckKey(r, from, to)
    BY <1>2 DEF EnterChallenge, EnterEnvelope
  <2>2. request[r].at = from
    BY <2>1 DEF CheckKey
  <2>3. PICK q \in ARequest : q = request[r] /\ q # Free
    BY <1>1, <2>2 DEF Places
  <2>4. PICK new : new = [q EXCEPT !.at = to, !.time = now]
    OBVIOUS
  <2>5. /\ new.at \in Places /\ new.connected = q.connected /\ KeepsGuard(new, q)
    BY <2>4 DEF ARequest, Places, KeepsGuard
  <2>6. Finish(r) \/ (request' = [request EXCEPT ![r] = new] /\ UNCHANGED inFlight)
    BY <2>1, <2>3, <2>4 DEF CheckKey
  <2>7. ASSUME request' = [request EXCEPT ![r] = new]
        PROVE  Moved(r) /\ request'[r].connected = request[r].connected
    BY <2>7, <2>3, <2>5, <2>6, GoesOn
  <2> QED
    BY <2>7, <2>3, <2>5, <2>6
<1>3. CASE LockTable(r)
  <2>1. request[r].at = "lock table" /\ UNCHANGED inFlight
    BY <1>3 DEF LockTable, entryVars
  <2>2. PICK q \in ARequest : q = request[r] /\ q # Free /\ q.server \in Server
    BY <1>1, <2>1, UnderWay DEF Places
  <2>3. PICK new : new = [q EXCEPT !.at = "sweep", !.left = table[q.server]]
    OBVIOUS
  <2>4. table[q.server] \subseteq DOMAIN epoch
    BY <2>2 DEF Inv, Tables
  <2>5. /\ new.at \in Places /\ new.connected = q.connected /\ KeepsGuard(new, q)
    BY <2>3, <2>4 DEF ARequest, Places, KeepsGuard
  <2>6. request' = [request EXCEPT ![r] = new]
    BY <1>3, <2>2, <2>3 DEF LockTable
  <2>7. ASSUME request' = [request EXCEPT ![r] = new]
        PROVE  Moved(r) /\ request'[r].connected = request[r].connected
    BY <2>7, <2>1, <2>2, <2>5, <2>6, GoesOn
  <2> QED
    BY <2>7, <2>1, <2>2, <2>5, <2>6
<1>4. CASE \E e \in DOMAIN epoch : Sweep(r, e)
  <2>1. PICK e \in DOMAIN epoch : Sweep(r, e)
    BY <1>4
  <2>2. request[r].at = "sweep" /\ UNCHANGED inFlight
    BY <2>1 DEF Sweep, entryVars
  <2>3. PICK q \in ARequest : q = request[r] /\ q # Free
    BY <1>1, <2>2 DEF Places
  <2>4. PICK new : new = [q EXCEPT !.left = q.left \ {e}]
    OBVIOUS
  <2>5. /\ new.at \in Places /\ new.connected = q.connected /\ KeepsGuard(new, q)
    BY <2>4 DEF ARequest, KeepsGuard
  <2>6. request' = [request EXCEPT ![r] = new]
    BY <2>1, <2>3, <2>4 DEF Sweep
  <2>7. ASSUME request' = [request EXCEPT ![r] = new]
        PROVE  Moved(r) /\ request'[r].connected = request[r].connected
    BY <2>7, <2>2, <2>3, <2>5, <2>6, GoesOn
  <2> QED
    BY <2>7, <2>2, <2>3, <2>5, <2>6
<1>5. CASE Issue(r)
  BY <1>1, <1>5 DEF Issue, Places
<1>6. CASE LookUp(r) \/ LockForReset(r)
  <2>1. PICK from \in {"look up", "first lock", "second lock"},
             to \in {"lock epoch", "second lock", "replace"} :
          /\ request[r].at = from
          /\ Finish(r) \/ (Goes(r, to) /\ UNCHANGED inFlight)
    BY <1>6 DEF LookUp, LockForReset, Rejected, entryVars
  <2>2. PICK q \in ARequest : q = request[r] /\ q # Free
    BY <1>1, <2>1 DEF Places
  <2>3. PICK new : new = [q EXCEPT !.at = to]
    OBVIOUS
  <2>4. /\ new.at \in Places /\ new.connected = q.connected /\ KeepsGuard(new, q)
    BY <2>3 DEF ARequest, Places, KeepsGuard
  <2>5. Finish(r) \/ (request' = [request EXCEPT ![r] = new] /\ UNCHANGED inFlight)
    BY <2>1, <2>2, <2>3 DEF Goes
  <2>7. ASSUME request' = [request EXCEPT ![r] = new]
        PROVE  Moved(r) /\ request'[r].connected = request[r].connected
    BY <2>7, <2>2, <2>4, <2>5, GoesOn
  <2> QED
    BY <2>7, <2>2, <2>4, <2>5
<1>7. CASE LockEpoch(r)
  <2>1. request[r].at = "lock epoch"
    BY <1>7 DEF LockEpoch
  <2>2. PICK q \in ARequest : q = request[r] /\ q # Free
    BY <1>1, <2>1 DEF Places
  <2>3. PICK new : new = [q EXCEPT !.at = "handle", !.time = now]
    OBVIOUS
  <2>4. /\ new.at \in Places /\ new.connected = q.connected /\ KeepsGuard(new, q)
    BY <2>3 DEF ARequest, Places, KeepsGuard
  <2>5. Finish(r) \/ (request' = [request EXCEPT ![r] = new] /\ UNCHANGED inFlight)
    BY <1>7, <2>2, <2>3 DEF LockEpoch, Rejected
  <2>7. ASSUME request' = [request EXCEPT ![r] = new]
        PROVE  Moved(r) /\ request'[r].connected = request[r].connected
    BY <2>7, <2>2, <2>4, <2>5, GoesOn
  <2> QED
    BY <2>7, <2>2, <2>4, <2>5
<1>8. CASE Handle(r)
  BY <1>1, <1>8 DEF Handle, Rejected, Places
<1>9. CASE WriteFile(r)
  <2>1. request[r].at = "write file"
    BY <1>9 DEF WriteFile
  <2>2. PICK q \in ARequest : q = request[r] /\ q # Free
    BY <1>1, <2>1 DEF Places
  <2>3. PICK new : new = [q EXCEPT !.at = "first lock", !.key = keys']
    OBVIOUS
  <2>4. /\ new.at \in Places /\ new.connected = q.connected /\ KeepsGuard(new, q)
    BY <2>3 DEF ARequest, Places, KeepsGuard
  <2>5. Finish(r) \/ (request' = [request EXCEPT ![r] = new] /\ UNCHANGED inFlight)
    BY <1>9, <2>2, <2>3 DEF WriteFile
  <2>7. ASSUME request' = [request EXCEPT ![r] = new]
        PROVE  Moved(r) /\ request'[r].connected = request[r].connected
    BY <2>7, <2>2, <2>4, <2>5, GoesOn
  <2> QED
    BY <2>7, <2>2, <2>4, <2>5
<1>10. CASE Replace(r)
  BY <1>1, <1>10 DEF Replace, Places
<1> QED
  BY <1>2, <1>3, <1>4, <1>5, <1>6, <1>7, <1>8, <1>9, <1>10 DEF Step

\* Where a request is counted, from one moment to the next.
LEMMA SameCounts ==
  ASSUME Counts, UNCHANGED inFlight, \A p \in Peer : Entered(p)' = Entered(p)
  PROVE  Counts'
BY DEF Counts

\* A request that keeps its guard.
Holds(q, p) == q # Free /\ q.kind # "reset" /\ q.connected /\ q.peer = p

LEMMA EnteredIs ==
  ASSUME NEW p \in Peer
  PROVE  /\ Entered(p) = {r \in Slot : Holds(request[r], p)}
         /\ Entered(p)' = {r \in Slot : Holds(request'[r], p)}
BY DEF Entered, IsBusy, Holds

\* drop of the guard: the count falls with the connection.
LEMMA GiveBackCounts ==
  ASSUME ServiceConstants, Counts, NEW r \in Slot, NEW of \in Peer, r \in Entered(of),
         GiveBack(of),
         \A p \in Peer : Entered(p)' = Entered(p) \ {r},
         \A p \in Peer : p # of => r \notin Entered(p)
  PROVE  Counts'
<1>1. inFlight' \in [Peer -> Nat]
  <2>1. \A n \in Nat : (IF n = 0 THEN 0 ELSE n - 1) \in Nat
    OBVIOUS
  <2> QED
    BY <2>1 DEF Counts, GiveBack
<1>2. ASSUME NEW p \in Peer
      PROVE  /\ IsFiniteSet(Entered(p)') /\ inFlight'[p] = Cardinality(Entered(p)')
             /\ inFlight'[p] <= MaxConnections
  <2>1. /\ IsFiniteSet(Entered(p)) /\ inFlight[p] \in Nat
        /\ inFlight[p] = Cardinality(Entered(p)) /\ inFlight[p] <= MaxConnections
    BY DEF Counts
  <2>2. CASE p = of
    <3>1. inFlight'[p] = IF inFlight[p] = 0 THEN 0 ELSE inFlight[p] - 1
      BY <2>2 DEF Counts, GiveBack
    <3>2. /\ IsFiniteSet(Entered(p)') /\ Entered(p)' = Entered(p) \ {r}
          /\ Cardinality(Entered(p)') = Cardinality(Entered(p)) - 1
      BY <2>1, <2>2, FS_RemoveElement
    <3>3. Cardinality(Entered(p)') \in Nat
      BY <3>2, FS_CardinalityType
    <3>4. MaxConnections \in Nat
      BY DEF ServiceConstants
    <3> QED
      BY <2>1, <3>1, <3>2, <3>3, <3>4
  <2>3. CASE p # of
    <3>1. Entered(p)' = Entered(p) /\ inFlight'[p] = inFlight[p]
      BY <2>3 DEF Counts, GiveBack
    <3> QED
      BY <2>1, <3>1
  <2> QED
    BY <2>2, <2>3
<1> QED
  BY <1>1, <1>2 DEF Counts

LEMMA FinishCounts ==
  ASSUME ServiceConstants, Inv, Counts, NEW r \in Slot, request[r] # Free, Finish(r)
  PROVE  Counts'
<1>1. /\ request'[r] = Free /\ \A q \in Slot \ {r} : request'[q] = request[q]
  BY FinishType DEF Inv
<1>2. ASSUME NEW p \in Peer
      PROVE  Entered(p)' = Entered(p) \ {r}
  <2>1. ~Holds(request'[r], p)
    BY <1>1 DEF Holds
  <2>2. \A s \in Slot : Holds(request'[s], p) <=> (Holds(request[s], p) /\ s # r)
    BY <1>1, <2>1
  <2> QED
    BY <2>2, EnteredIs
<1>3. CASE Leaves(r)
  <2>1. request[r] \in ARequest
    BY DEF Inv, Types
  <2>2. request[r].peer \in Peer
    BY <2>1 DEF ARequest
  <2>3. r \in Entered(request[r].peer) /\ \A p \in Peer : p # request[r].peer => r \notin Entered(p)
    BY <1>3 DEF Leaves, Entered, IsBusy
  <2>4. GiveBack(request[r].peer)
    BY <1>3 DEF Finish
  <2> QED
    BY <1>2, <2>2, <2>3, <2>4, GiveBackCounts
<1>4. CASE ~Leaves(r)
  <2>1. \A p \in Peer : r \notin Entered(p)
    BY <1>4 DEF Leaves, Entered
  <2>2. UNCHANGED inFlight
    BY <1>4 DEF Finish
  <2> QED
    BY <1>2, <2>1, <2>2, SameCounts
<1> QED
  BY <1>3, <1>4

LEMMA StepCounts ==
  ASSUME ServiceConstants, Inv, Counts, NEW r \in Slot, Step(r)
  PROVE  Counts'
<1>1. CASE Finish(r)
  BY <1>1, StepMoves, FinishCounts
<1>2. CASE Moved(r) /\ request'[r].connected = request[r].connected /\ UNCHANGED inFlight
  <2>1. ASSUME NEW p \in Peer
        PROVE  Entered(p)' = Entered(p)
    <3>1. Holds(request'[r], p) <=> Holds(request[r], p)
      BY <1>2, StepMoves DEF Moved, KeepsGuard, Holds
    <3>2. \A s \in Slot : Holds(request'[s], p) <=> Holds(request[s], p)
      BY <1>2, <3>1 DEF Moved
    <3> QED
      BY <3>2, EnteredIs
  <2> QED
    BY <1>2, <2>1, SameCounts
<1> QED
  BY <1>1, <1>2, StepMoves

LEMMA BreakMoves ==
  ASSUME ServiceConstants, Inv, NEW r \in Slot, Break(r)
  PROVE  /\ Moved(r) /\ request[r] # Free /\ request'[r].connected = FALSE
         /\ request[r].peer \in Peer
<1>1. request[r] # Free
  BY DEF Break, IsBusy
<1>2. PICK q \in ARequest : q = request[r]
  BY <1>1 DEF Inv, Types
<1>3. PICK new : new = [q EXCEPT !.connected = FALSE]
  OBVIOUS
<1>4. new.at \in Places /\ KeepsGuard(new, q) /\ new.connected = FALSE
  BY <1>2, <1>3 DEF ARequest, KeepsGuard
<1>5. request' = [request EXCEPT ![r] = new]
  BY <1>2, <1>3 DEF Break
<1>6. Moved(r) /\ request'[r] = new
  BY <1>2, <1>4, <1>5, GoesOn
<1>7. q.peer \in Peer
  BY DEF ARequest
<1> QED
  BY <1>1, <1>2, <1>4, <1>6, <1>7

LEMMA BreakCounts ==
  ASSUME ServiceConstants, Inv, Counts, NEW r \in Slot, Break(r)
  PROVE  Counts'
<1>1. /\ Moved(r) /\ request[r] # Free /\ request'[r].connected = FALSE
      /\ request[r].peer \in Peer
  BY BreakMoves
<1>2. \A p \in Peer : Entered(p)' = Entered(p) \ {r}
  BY <1>1 DEF Moved, KeepsGuard, Entered, IsBusy
<1>3. CASE request[r].kind = "reset"
  <2>1. \A p \in Peer : r \notin Entered(p)
    BY <1>3 DEF Entered
  <2> QED
    BY <1>2, <1>3, <2>1, SameCounts DEF Break
<1>4. CASE request[r].kind # "reset"
  <2>1. GiveBack(request[r].peer) /\ request[r].connected
    BY <1>4 DEF Break
  <2>2. r \in Entered(request[r].peer) /\ \A p \in Peer : p # request[r].peer => r \notin Entered(p)
    BY <1>1, <1>4, <2>1 DEF Entered, IsBusy
  <2> QED
    BY <1>1, <1>2, <2>1, <2>2, GiveBackCounts
<1> QED
  BY <1>3, <1>4

\* A new request takes a free slot, and is let in below the limit.
LEMMA EnterCounts ==
  ASSUME ServiceConstants, Inv, Counts, NEW r \in Slot, NEW kind \in Kinds, NEW p \in Peer,
         IF kind = "reset" THEN Control(r, p) ELSE Arrive(r, kind, p)
  PROVE  Counts'
<1>1. request[r] = Free
  BY DEF Arrive, Control, IsNew, IsBusy
<1>2. ASSUME NEW new, request' = [request EXCEPT ![r] = new], NEW o \in Peer
      PROVE  /\ request'[r] = new /\ r \notin Entered(o)
             /\ Entered(o)' = IF Holds(new, o) THEN Entered(o) \cup {r} ELSE Entered(o)
  <2>1. request'[r] = new /\ \A s \in Slot \ {r} : request'[s] = request[s]
    BY <1>2 DEF Inv, Types
  <2>2. ~Holds(request[r], o)
    BY <1>1 DEF Holds
  <2>3. \A s \in Slot :
          Holds(request'[s], o) <=> Holds(request[s], o) \/ (s = r /\ Holds(new, o))
    BY <2>1, <2>2
  <2>4. /\ Entered(o) = {s \in Slot : Holds(request[s], o)}
        /\ Entered(o)' = {s \in Slot : Holds(request'[s], o)}
    BY EnteredIs
  <2>5. r \notin Entered(o)
    BY <2>2, <2>4
  <2>6. \A s : s \in Entered(o)' <=> s \in Entered(o) \/ (s = r /\ Holds(new, o))
    BY <2>3, <2>4
  <2> QED
    BY <2>1, <2>5, <2>6
<1>3. CASE Control(r, p)
  <2>1. PICK new : new = Begun("reset", p, "write file", None, None)
    OBVIOUS
  <2>2. new.kind = "reset"
    BY <2>1 DEF Begun
  <2>3. request' = [request EXCEPT ![r] = new] /\ UNCHANGED inFlight
    BY <1>3, <2>1 DEF Control
  <2>4. \A o \in Peer : Entered(o)' = Entered(o)
    BY <1>2, <2>2, <2>3 DEF Holds
  <2> QED
    BY <2>3, <2>4, SameCounts
<1>4. CASE Arrive(r, kind, p) /\ UNCHANGED <<inFlight, request>>
  <2>1. \A o \in Peer : Entered(o)' = Entered(o)
    BY <1>4, EnteredIs
  <2> QED
    BY <1>4, <2>1, SameCounts
<1>5. ASSUME NEW at \in Places, NEW k, NEW e, kind # "reset", MayEnter(p),
             inFlight' = [inFlight EXCEPT ![p] = @ + 1],
             request' = [request EXCEPT ![r] = Begun(kind, p, at, k, e)]
      PROVE  Counts'
  <2>1. PICK new : new = Begun(kind, p, at, k, e)
    OBVIOUS
  <2>2. new.kind = kind /\ new.peer = p /\ new.connected = TRUE /\ new.at = at
    BY <2>1 DEF Begun
  <2>3. new # Free
    <3>1. Free.at \notin Places
      BY DEF Free, Places
    <3> QED
      BY <2>2, <3>1
  <2>4. ASSUME NEW o \in Peer
        PROVE  /\ o = p => Entered(o)' = Entered(o) \cup {r} /\ r \notin Entered(o)
               /\ o # p => Entered(o)' = Entered(o)
    <3>1. request' = [request EXCEPT ![r] = new]
      BY <1>5, <2>1
    <3>2. Holds(new, o) <=> o = p
      BY <1>5, <2>2, <2>3 DEF Holds
    <3> QED
      BY <1>2, <3>1, <3>2
  <2>5. inFlight' \in [Peer -> Nat]
    BY <1>5 DEF Counts
  <2>6. ASSUME NEW o \in Peer
        PROVE  /\ IsFiniteSet(Entered(o)') /\ inFlight'[o] = Cardinality(Entered(o)')
               /\ inFlight'[o] <= MaxConnections
    <3>1. /\ IsFiniteSet(Entered(o)) /\ inFlight[o] \in Nat
          /\ inFlight[o] = Cardinality(Entered(o)) /\ inFlight[o] <= MaxConnections
      BY DEF Counts
    <3>2. CASE o = p
      <4>1. /\ IsFiniteSet(Entered(o)')
            /\ Cardinality(Entered(o)') = Cardinality(Entered(o)) + 1
        BY <2>4, <3>1, <3>2, FS_AddElement
      <4>2. inFlight'[o] = inFlight[o] + 1 /\ inFlight[o] < MaxConnections
        BY <1>5, <3>2 DEF Counts, MayEnter
      <4>3. MaxConnections \in Nat
        BY DEF ServiceConstants
      <4> QED
        BY <3>1, <4>1, <4>2, <4>3
    <3>3. CASE o # p
      <4>1. Entered(o)' = Entered(o) /\ inFlight'[o] = inFlight[o]
        BY <1>5, <2>4, <3>3 DEF Counts
      <4> QED
        BY <3>1, <4>1
    <3> QED
      BY <3>2, <3>3
  <2> QED
    BY <2>5, <2>6 DEF Counts
<1>6. CASE Arrive(r, kind, p) /\ kind # "reset"
  <2>1. "challenge" \in Places /\ "envelope" \in Places
    BY DEF Places
  <2> QED
    BY <1>4, <1>5, <1>6, <2>1 DEF Arrive
<1> QED
  BY <1>3, <1>6

\* A new server counts anew, and has no connections yet.
LEMMA ServeCounts ==
  ASSUME ServiceConstants, Inv, Reboot \/ Crash
  PROVE  Counts'
<1>1. inFlight' = [p \in Peer |-> 0]
  BY DEF Reboot, Crash, Serve
<1>2. ASSUME NEW p \in Peer
      PROVE  Entered(p)' = {}
  <2>1. \A r \in Slot : ~Holds(request'[r], p)
    BY DEF Reboot, Crash, Holds, IsBusy
  <2> QED
    BY <2>1, EnteredIs
<1>3. MaxConnections \in Nat
  BY DEF ServiceConstants
<1> QED
  BY <1>1, <1>2, <1>3, FS_EmptySet DEF Counts

\* The numbers of keys and of epochs only grow.
LEMMA NextGrows ==
  ASSUME ServiceConstants, Inv, [Next]_vars
  PROVE  Grows
<1>1. CASE UNCHANGED vars
  BY <1>1 DEF Grows, vars, keyVars, epochVars
<1>2. ASSUME NEW r \in Slot, Issue(r)
      PROVE  Grows
  <2> DEFINE e == Cardinality(DOMAIN epoch) + 1
  <2>1. PICK n \in Nat : epoch \in [1..n -> AnEpoch]
    BY DEF Inv, Types
  <2>2. Cardinality(1..n) = IF 1 > n THEN 0 ELSE n - 1 + 1
    BY <2>1, FS_Interval
  <2>3. e = n + 1
    BY <2>1, <2>2
  <2>4. UNCHANGED keys /\ (epoch' = epoch \/ DOMAIN epoch' = 1..e)
    BY <1>2 DEF Issue, keyVars, epochVars
  <2> QED
    BY <2>1, <2>3, <2>4 DEF Grows
<1>3. ASSUME NEW r \in Slot, Step(r), ~Issue(r)
      PROVE  Grows
  <2>1. CASE LockEpoch(r) \/ Handle(r)
    BY <2>1 DEF LockEpoch, Handle, Grows, keyVars, epochVars
  <2>2. CASE WriteFile(r)
    BY <2>2 DEF WriteFile, Grows, epochVars
  <2>3. CASE EnterChallenge(r) \/ EnterEnvelope(r) \/ LockTable(r) \/ LookUp(r)
    BY <2>3 DEF EnterChallenge, EnterEnvelope, CheckKey, LockTable, LookUp, Grows,
                keyVars, epochVars
  <2>4. CASE LockForReset(r) \/ Replace(r) \/ \E e \in DOMAIN epoch : Sweep(r, e)
    BY <2>4 DEF LockForReset, Replace, Sweep, Grows, keyVars, epochVars
  <2> QED
    BY <1>3, <2>1, <2>2, <2>3, <2>4 DEF Step
<1>4. ASSUME NEW r \in Slot, NEW p \in Peer, NEW kind \in Kinds,
             Control(r, p) \/ Arrive(r, kind, p)
      PROVE  Grows
  BY <1>4 DEF Control, Arrive, Grows, keyVars, epochVars
<1>5. CASE Shutdown \/ Tick \/ \E r \in Slot : Break(r)
  BY <1>5 DEF Shutdown, Tick, Break, Grows, keyVars, epochVars
<1>6. CASE Reboot \/ Crash
  BY <1>6 DEF Reboot, Crash, Serve, Grows, epochVars
<1> QED
  BY <1>1, <1>2, <1>3, <1>4, <1>5, <1>6 DEF Next

\* What was given once has been given for ever.
LEMMA CarriesLater ==
  ASSUME Grows, KeysInUse, NEW q, Carries(q)
  PROVE  Carries(q)' /\ 1..keys \subseteq 1..keys'
<1>1. keys \in Nat /\ keys' \in Nat /\ keys <= keys'
  BY DEF Grows, KeysInUse
<1>2. 1..keys \subseteq 1..keys'
  BY <1>1
<1> QED
  BY <1>2 DEF Grows, Carries

LEMMA NextCarries ==
  ASSUME ServiceConstants, Inv, Extent, [Next]_vars, NEW t \in Slot, IsBusy(t)'
  PROVE  Carries(request[t])'
<1>1. Grows /\ KeysInUse /\ keys' \in 1..keys'
  <2>1. Grows /\ KeysInUse
    BY NextGrows DEF Extent
  <2> QED
    BY <2>1 DEF Grows, KeysInUse
<1>2. CASE request'[t] = request[t]
  BY <1>1, <1>2, CarriesLater DEF Extent, IsBusy, Carries
<1>3. ASSUME Moved(t), request[t] # Free
      PROVE  Carries(request[t])'
  <2>1. PICK q \in ARequest : q = request[t] /\ Carries(q) /\ Carries(q)'
    BY <1>1, <1>3, CarriesLater DEF Extent, IsBusy, Inv, Types
  <2>2. PICK new : new = request'[t]
    OBVIOUS
  <2>3. /\ new.epoch = q.epoch
        /\ new.key = q.key \/ new.key = keys'
        /\ new.left \subseteq q.left \cup DOMAIN epoch
    BY <1>3, <2>1, <2>2 DEF Moved, KeepsGuard
  <2>4. DOMAIN epoch \subseteq DOMAIN epoch'
    BY <1>1 DEF Grows
  <2>5. Carries(new)'
    BY <1>1, <2>1, <2>3, <2>4 DEF Carries
  <2> QED
    BY <2>2, <2>5
<1>4. ASSUME NEW r \in Slot, Step(r) \/ Break(r)
      PROVE  Carries(request[t])'
  <2>1. /\ request[r] # Free
        /\ Finish(r) \/ Moved(r)
    BY <1>4, StepMoves, BreakMoves
  <2>2. CASE t = r
    <3>1. ~Finish(r)
      BY <2>2, FinishType DEF Inv, IsBusy
    <3> QED
      BY <1>3, <2>1, <2>2, <3>1
  <2>3. CASE t # r
    <3>1. request'[t] = request[t]
      BY <2>1, <2>3, FinishType DEF Moved, Inv
    <3> QED
      BY <1>2, <3>1
  <2> QED
    BY <2>2, <2>3
<1>5. ASSUME NEW r \in Slot, NEW kind, NEW p, NEW at, NEW k \in 1..keys \cup {None},
             NEW e \in DOMAIN epoch \cup {None},
             request' = [request EXCEPT ![r] = Begun(kind, p, at, k, e)]
      PROVE  Carries(request[t])'
  <2>1. PICK new : new = Begun(kind, p, at, k, e)
    OBVIOUS
  <2>2. new.key = k /\ new.epoch = e /\ new.left = {}
    BY <2>1 DEF Begun
  <2>3. Carries(new)'
    <3>1. keys \in Nat /\ keys' \in Nat /\ keys <= keys' /\ DOMAIN epoch \subseteq DOMAIN epoch'
      BY <1>1 DEF Grows, KeysInUse
    <3>2. k \in 1..keys' \cup {None} /\ e \in DOMAIN epoch' \cup {None}
      BY <3>1
    <3> QED
      BY <2>2, <3>2 DEF Carries
  <2>4. request'[t] = new \/ request'[t] = request[t]
    BY <1>5, <2>1 DEF Inv, Types
  <2> QED
    BY <1>2, <2>3, <2>4
<1>6. ASSUME NEW r \in Slot, NEW p \in Peer, NEW kind \in Kinds,
             Control(r, p) \/ Arrive(r, kind, p)
      PROVE  Carries(request[t])'
  BY <1>2, <1>5, <1>6 DEF Control, Arrive
<1>7. CASE UNCHANGED vars \/ Shutdown \/ Tick \/ Reboot
  BY <1>2, <1>7 DEF vars, Shutdown, Tick, Reboot
<1>8. ~Crash
  BY DEF Crash, IsBusy
<1> QED
  BY <1>4, <1>6, <1>7, <1>8 DEF Next

\* reset_upload_key writes a new number, and keeps one that was written; serve_once
\* makes one.
LEMMA NextKeysInUse ==
  ASSUME ServiceConstants, Inv, Extent, [Next]_vars
  PROVE  KeysInUse'
<1>1. /\ Grows /\ KeysInUse /\ keys \in Nat \ {0} /\ keys' \in Nat \ {0}
      /\ 1..keys \subseteq 1..keys' /\ key \in [Server -> Nat \cup {None}]
  <2>1. Grows /\ KeysInUse /\ key \in [Server -> Nat \cup {None}]
    BY NextGrows DEF Extent, Inv, Types
  <2>2. keys \in Nat \ {0} /\ keys' \in {keys, keys + 1}
    BY <2>1 DEF Grows, KeysInUse
  <2> QED
    BY <2>1, <2>2
<1>2. CASE UNCHANGED <<key, keyFile>>
  BY <1>1, <1>2 DEF KeysInUse
<1>3. ASSUME NEW r \in Slot, Replace(r)
      PROVE  KeysInUse'
  <2>1. /\ request[r].at = "replace" /\ UNCHANGED keys
        /\ \/ /\ keyFile' = request[r].key
              /\ key' = [key EXCEPT ![request[r].server] = request[r].key]
           \/ keyFile' \in {keyFile, None} /\ UNCHANGED key
    BY <1>3 DEF Replace, Replaced, NewCredentials
  <2>2. request[r].key \in 1..keys \cup {None}
    BY <2>1, IsUnderWay DEF Extent, Carries, IsBusy, Places
  <2> QED
    BY <1>1, <2>1, <2>2 DEF KeysInUse
<1>4. ASSUME Serve
      PROVE  KeysInUse'
  <2>1. keys' \in 1..keys'
    BY <1>1
  <2>2. keyFile' \in 1..keys' \cup {None}
    BY <1>1, <1>4, <2>1 DEF Serve, KeysInUse
  <2>3. key' = [key EXCEPT ![server + 1] = keyFile']
    BY <1>4 DEF Serve
  <2> QED
    BY <1>1, <2>2, <2>3 DEF KeysInUse
<1>5. ASSUME NEW r \in Slot, Step(r), ~Replace(r)
      PROVE  UNCHANGED <<key, keyFile>>
  <2>1. CASE WriteFile(r) \/ Issue(r) \/ LookUp(r) \/ LockEpoch(r) \/ Handle(r)
    BY <2>1 DEF WriteFile, Issue, LookUp, LockEpoch, Handle, keyVars
  <2>2. CASE EnterChallenge(r) \/ EnterEnvelope(r) \/ LockTable(r) \/ LockForReset(r)
    BY <2>2 DEF EnterChallenge, EnterEnvelope, CheckKey, LockTable, LockForReset, keyVars
  <2>3. CASE \E e \in DOMAIN epoch : Sweep(r, e)
    BY <2>3 DEF Sweep, keyVars
  <2> QED
    BY <1>5, <2>1, <2>2, <2>3 DEF Step
<1>6. ASSUME NEW r \in Slot, NEW p \in Peer, NEW kind \in Kinds,
             Control(r, p) \/ Arrive(r, kind, p)
      PROVE  UNCHANGED <<key, keyFile>>
  BY <1>6 DEF Control, Arrive, keyVars
<1>7. CASE UNCHANGED vars \/ Shutdown \/ Tick \/ \E r \in Slot : Break(r)
  BY <1>2, <1>7 DEF vars, Shutdown, Tick, Break, keyVars
<1> QED
  BY <1>2, <1>3, <1>4, <1>5, <1>6, <1>7 DEF Next, Reboot, Crash

\* challenge issues an epoch below the limit only, and nothing else adds to a table.
LEMMA NextTablesFit ==
  ASSUME ServiceConstants, Inv, TablesFit, [Next]_vars
  PROVE  TablesFit'
<1>1. table \in [Server -> SUBSET Nat] /\ MaxPending \in Nat
  BY DEF Inv, Types, ServiceConstants
<1>2. ASSUME \A s \in Server : table'[s] \subseteq table[s]
      PROVE  TablesFit'
  <2>1. ASSUME NEW s \in Server
        PROVE  IsFiniteSet(table'[s]) /\ Cardinality(table'[s]) <= MaxPending
    <3>1. IsFiniteSet(table[s]) /\ Cardinality(table[s]) <= MaxPending
      BY DEF TablesFit
    <3>2. IsFiniteSet(table'[s]) /\ Cardinality(table'[s]) <= Cardinality(table[s])
      BY <1>2, <3>1, FS_Subset
    <3>3. Cardinality(table[s]) \in Nat /\ Cardinality(table'[s]) \in Nat
      BY <3>1, <3>2, FS_CardinalityType
    <3> QED
      BY <1>1, <3>1, <3>2, <3>3
  <2> QED
    BY <2>1 DEF TablesFit
<1>3. CASE UNCHANGED table
  BY <1>2, <1>3
<1>4. ASSUME NEW r \in Slot, Issue(r), ~UNCHANGED table
      PROVE  TablesFit'
  <2>1. PICK e : /\ table' = [table EXCEPT ![request[r].server] = @ \cup {e}]
                 /\ Cardinality(table[request[r].server]) < MaxPending
    BY <1>4 DEF Issue, epochVars
  <2>2. ASSUME NEW s \in Server
        PROVE  IsFiniteSet(table'[s]) /\ Cardinality(table'[s]) <= MaxPending
    <3>1. IsFiniteSet(table[s]) /\ Cardinality(table[s]) <= MaxPending
      BY DEF TablesFit
    <3>2. CASE s = request[r].server
      <4>1. table'[s] = table[s] \cup {e}
        BY <1>1, <2>1, <3>2
      <4>2. IsFiniteSet(table'[s]) /\
            Cardinality(table'[s]) \in {Cardinality(table[s]), Cardinality(table[s]) + 1}
        BY <3>1, <4>1, FS_AddElement
      <4>3. Cardinality(table[s]) \in Nat
        BY <3>1, FS_CardinalityType
      <4> QED
        BY <1>1, <2>1, <3>2, <4>2, <4>3
    <3>3. CASE s # request[r].server
      BY <1>1, <2>1, <3>1, <3>3
    <3> QED
      BY <3>2, <3>3
  <2> QED
    BY <2>2 DEF TablesFit
<1>5. ASSUME NEW r \in Slot, Step(r), ~Issue(r)
      PROVE  \A s \in Server : table'[s] \subseteq table[s]
  <2>1. CASE WriteFile(r) \/ LookUp(r) \/ LockEpoch(r) \/ Handle(r)
    BY <2>1 DEF WriteFile, LookUp, LockEpoch, Handle, epochVars
  <2>2. CASE EnterChallenge(r) \/ EnterEnvelope(r) \/ LockTable(r) \/ LockForReset(r)
    BY <2>2 DEF EnterChallenge, EnterEnvelope, CheckKey, LockTable, LockForReset, epochVars
  <2>3. CASE \E e \in DOMAIN epoch : Sweep(r, e)
    BY <1>1, <2>3 DEF Sweep
  <2>4. CASE Replace(r)
    BY <1>1, <2>4 DEF Replace, Replaced, NewCredentials
  <2> QED
    BY <1>5, <2>1, <2>2, <2>3, <2>4 DEF Step
<1>6. ASSUME NEW r \in Slot, NEW p \in Peer, NEW kind \in Kinds,
             Control(r, p) \/ Arrive(r, kind, p)
      PROVE  UNCHANGED table
  BY <1>6 DEF Control, Arrive, epochVars
<1>7. CASE UNCHANGED vars \/ Shutdown \/ Tick \/ Reboot \/ Crash \/ \E r \in Slot : Break(r)
  BY <1>3, <1>7 DEF vars, Shutdown, Tick, Reboot, Crash, Break, epochVars
<1> QED
  BY <1>2, <1>3, <1>4, <1>5, <1>6, <1>7 DEF Next

LEMMA NextHolders ==
  ASSUME ServiceConstants, Inv, Holders, [Next]_vars
  PROVE  Holders'
<1>1. CASE UNCHANGED epoch
  BY <1>1 DEF Holders
<1>2. PICK n \in Nat : epoch \in [1..n -> AnEpoch]
  BY DEF Inv, Types
<1>3. ASSUME NEW e \in DOMAIN epoch, NEW new, new.holder \in Slot \cup {None},
             epoch' = [epoch EXCEPT ![e] = new]
      PROVE  Holders'
  BY <1>3 DEF Holders
<1>4. ASSUME NEW r \in Slot, LockEpoch(r) \/ Handle(r)
      PROVE  Holders'
  <2>1. PICK q \in ARequest : q = request[r] /\ q.epoch \in DOMAIN epoch
    <3>1. request[r].at \in {"lock epoch", "handle"}
      BY <1>4 DEF LockEpoch, Handle
    <3>2. request[r] \in ARequest /\ Relies(r, request[r]) /\ request[r] # Free
      BY <3>1, UnderWay DEF Places
    <3>3. request[r].epoch \in DOMAIN epoch
      <4>1. CASE request[r].at = "lock epoch"
        BY <3>2, <4>1 DEF Relies
      <4>2. CASE request[r].at = "handle"
        <5>1. /\ request[r].server \in Server
              /\ request[r].epoch \in table[request[r].server]
          BY <3>2, <4>2 DEF Relies
        <5> QED
          BY <5>1 DEF Inv, Tables
      <4> QED
        BY <3>1, <4>1, <4>2
    <3> QED
      BY <3>2, <3>3
  <2>2. PICK old \in AnEpoch : old = epoch[q.epoch]
    BY <1>2, <2>1
  <2>3. \/ epoch' = epoch
        \/ epoch' = [epoch EXCEPT ![q.epoch] = [old EXCEPT !.holder = r]]
        \/ epoch' = [epoch EXCEPT ![q.epoch] = [old EXCEPT !.holder = None]]
        \/ epoch' = [epoch EXCEPT ![q.epoch] =
                       [old EXCEPT !.active = TRUE, !.seen = q.time, !.holder = None]]
    BY <1>4, <2>1, <2>2 DEF LockEpoch, Handle
  <2>4. /\ [old EXCEPT !.holder = r].holder = r /\ [old EXCEPT !.holder = None].holder = None
        /\ [old EXCEPT !.active = TRUE, !.seen = q.time, !.holder = None].holder = None
    BY <2>2 DEF AnEpoch
  <2> QED
    BY <1>1, <1>3, <2>1, <2>3, <2>4
<1>5. ASSUME NEW r \in Slot, Issue(r)
      PROVE  Holders'
  <2>1. PICK e : \/ epoch' = epoch
                 \/ epoch' = [i \in 1..e |-> IF i = e THEN NewEpoch(r) ELSE epoch[i]]
                    /\ e = Cardinality(DOMAIN epoch) + 1
    BY <1>5 DEF Issue, epochVars
  <2>2. Cardinality(1..n) = IF 1 > n THEN 0 ELSE n - 1 + 1
    BY <1>2, FS_Interval
  <2>3. NewEpoch(r).holder = None
    BY DEF NewEpoch
  <2>4. CASE /\ epoch' = [i \in 1..e |-> IF i = e THEN NewEpoch(r) ELSE epoch[i]]
             /\ e = n + 1
    <3>1. \A i \in 1..e : i = e \/ i \in DOMAIN epoch
      BY <1>2, <2>4
    <3> QED
      BY <2>3, <2>4, <3>1 DEF Holders
  <2> QED
    BY <1>1, <1>2, <2>1, <2>2, <2>4
<1>6. CASE Crash
  <2>1. epoch' = [e \in DOMAIN epoch |-> [epoch[e] EXCEPT !.holder = None]]
    BY <1>6 DEF Crash
  <2>2. \A e \in DOMAIN epoch : [epoch[e] EXCEPT !.holder = None].holder = None
    BY <1>2 DEF AnEpoch
  <2> QED
    BY <2>1, <2>2 DEF Holders
<1>7. ASSUME NEW r \in Slot, Step(r), ~(Issue(r) \/ LockEpoch(r) \/ Handle(r))
      PROVE  UNCHANGED epoch
  <2>1. CASE EnterChallenge(r) \/ EnterEnvelope(r) \/ LockTable(r) \/ LockForReset(r)
    BY <2>1 DEF EnterChallenge, EnterEnvelope, CheckKey, LockTable, LockForReset, epochVars
  <2>2. CASE WriteFile(r) \/ LookUp(r) \/ Replace(r) \/ \E e \in DOMAIN epoch : Sweep(r, e)
    BY <2>2 DEF WriteFile, LookUp, Replace, Sweep, epochVars
  <2> QED
    BY <1>7, <2>1, <2>2 DEF Step
<1>8. ASSUME NEW r \in Slot, NEW p \in Peer, NEW kind \in Kinds,
             Control(r, p) \/ Arrive(r, kind, p)
      PROVE  UNCHANGED epoch
  BY <1>8 DEF Control, Arrive, epochVars
<1>9. CASE UNCHANGED vars \/ Shutdown \/ Tick \/ Reboot \/ \E r \in Slot : Break(r)
  BY <1>1, <1>9 DEF vars, Shutdown, Tick, Reboot, Break, epochVars
<1> QED
  BY <1>1, <1>4, <1>5, <1>6, <1>7, <1>8, <1>9 DEF Next

LEMMA InitExtent ==
  ASSUME ServiceConstants, Init
  PROVE  Extent
<1>1. /\ MaxTime \in Nat /\ MaxPending \in Nat /\ MaxConnections \in Nat /\ 1 \in 1..1
  BY DEF ServiceConstants
<1>2. \A p \in Peer : Entered(p) = {}
  BY DEF Init, Entered, IsBusy
<1>3. KeysInUse
  BY <1>1 DEF Init, KeysInUse, Server
<1>4. TablesFit
  <2>1. \A s \in Server : table[s] = {}
    BY DEF Init, Server
  <2> QED
    BY <1>1, <2>1, FS_EmptySet DEF TablesFit
<1>5. Counts
  <2>1. inFlight \in [Peer -> Nat] /\ \A p \in Peer : inFlight[p] = 0
    BY DEF Init
  <2> QED
    BY <1>1, <1>2, <2>1, FS_EmptySet DEF Counts
<1>6. Holders /\ \A r \in Slot : ~IsBusy(r)
  BY DEF Init, Holders, IsBusy
<1>7. now \in 0..MaxTime /\ phase \in {"up", "stopping"}
  BY <1>1 DEF Init
<1> QED
  BY <1>3, <1>4, <1>5, <1>6, <1>7 DEF Extent

LEMMA NextExtent ==
  ASSUME ServiceConstants, Inv, Extent, [Next]_vars
  PROVE  Extent'
<1>1. now' \in 0..MaxTime
  <2>1. UNCHANGED now \/ (now' = now + 1 /\ now < MaxTime)
    <3>1. ASSUME NEW r \in Slot, Step(r)
          PROVE  UNCHANGED now
      <4>1. CASE WriteFile(r) \/ Issue(r) \/ LookUp(r) \/ LockEpoch(r) \/ Handle(r)
        BY <4>1 DEF WriteFile, Issue, LookUp, LockEpoch, Handle
      <4>2. CASE EnterChallenge(r) \/ EnterEnvelope(r) \/ LockTable(r) \/ LockForReset(r)
        BY <4>2 DEF EnterChallenge, EnterEnvelope, CheckKey, LockTable, LockForReset
      <4>3. CASE Replace(r) \/ \E e \in DOMAIN epoch : Sweep(r, e)
        BY <4>3 DEF Replace, Sweep
      <4> QED
        BY <3>1, <4>1, <4>2, <4>3 DEF Step
    <3>2. CASE \E r \in Slot, p \in Peer, kind \in Kinds :
                 Control(r, p) \/ Arrive(r, kind, p)
      BY <3>2 DEF Control, Arrive
    <3>3. CASE UNCHANGED vars \/ Shutdown \/ Tick \/ Reboot \/ Crash \/ \E r \in Slot : Break(r)
      BY <3>3 DEF vars, Shutdown, Tick, Reboot, Crash, Break
    <3> QED
      BY <3>1, <3>2, <3>3 DEF Next
  <2>2. now \in 0..MaxTime /\ MaxTime \in Nat
    BY DEF Extent, ServiceConstants
  <2> QED
    BY <2>1, <2>2
<1>2. phase' \in {"up", "stopping"}
  <2>1. UNCHANGED phase \/ phase' \in {"up", "stopping"}
    <3>1. ASSUME NEW r \in Slot, Step(r)
          PROVE  UNCHANGED phase
      <4>1. CASE WriteFile(r) \/ Issue(r) \/ LookUp(r) \/ LockEpoch(r) \/ Handle(r)
        BY <4>1 DEF WriteFile, Issue, LookUp, LockEpoch, Handle, turnVars
      <4>2. CASE EnterChallenge(r) \/ EnterEnvelope(r) \/ LockTable(r) \/ LockForReset(r)
        BY <4>2 DEF EnterChallenge, EnterEnvelope, CheckKey, LockTable, LockForReset, turnVars
      <4>3. CASE Replace(r) \/ \E e \in DOMAIN epoch : Sweep(r, e)
        BY <4>3 DEF Replace, Sweep, turnVars
      <4> QED
        BY <3>1, <4>1, <4>2, <4>3 DEF Step
    <3>2. CASE \E r \in Slot, p \in Peer, kind \in Kinds :
                 Control(r, p) \/ Arrive(r, kind, p)
      BY <3>2 DEF Control, Arrive, turnVars
    <3>3. CASE UNCHANGED vars \/ Shutdown \/ Tick \/ Reboot \/ Crash \/ \E r \in Slot : Break(r)
      BY <3>3 DEF vars, Shutdown, Tick, Reboot, Crash, Break, Serve, turnVars
    <3> QED
      BY <3>1, <3>2, <3>3 DEF Next
  <2> QED
    BY <2>1 DEF Extent
<1>3. KeysInUse' /\ TablesFit' /\ Holders' /\ \A r \in Slot : IsBusy(r)' => Carries(request[r])'
  BY NextKeysInUse, NextTablesFit, NextHolders, NextCarries DEF Extent
<1>4. Counts'
  <2>1. CASE UNCHANGED vars \/ Shutdown \/ Tick
    <3>1. UNCHANGED <<request, inFlight>>
      BY <2>1 DEF vars, Shutdown, Tick, entryVars
    <3>2. \A p \in Peer : Entered(p)' = Entered(p)
      BY <3>1 DEF Entered, IsBusy
    <3> QED
      BY <3>1, <3>2, SameCounts DEF Extent
  <2>2. CASE Reboot \/ Crash
    BY <2>2, ServeCounts
  <2>3. CASE \E r \in Slot : Step(r) \/ Break(r)
    BY <2>3, StepCounts, BreakCounts DEF Extent
  <2>4. CASE \E r \in Slot, p \in Peer, kind \in Kinds :
               IF kind = "reset" THEN Control(r, p) ELSE Arrive(r, kind, p)
    BY <2>4, EnterCounts DEF Extent
  <2> QED
    BY <2>1, <2>2, <2>3, <2>4 DEF Next
<1> QED
  BY <1>1, <1>2, <1>3, <1>4 DEF Extent

LEMMA ExtentTypes ==
  ASSUME ServiceConstants, Inv, Extent
  PROVE  TypeOK
<1>1. /\ server \in 1..MaxServers /\ keyFile \in 1..keys \cup {None}
      /\ now \in 0..MaxTime /\ phase \in {"up", "stopping"}
  BY DEF Inv, Types, Server, Extent, KeysInUse
<1>2. ASSUME NEW s \in 1..MaxServers
      PROVE  /\ key[s] \in 1..keys \cup {None} /\ table[s] \subseteq DOMAIN epoch
             /\ readers[s] \subseteq Slot /\ {writer[s], tableLock[s]} \subseteq Slot \cup {None}
             /\ writer[s] # None => readers[s] = {}
             /\ Cardinality(table[s]) <= MaxPending
  <2>1. s \in Server
    BY DEF Server
  <2>2. key[s] \in 1..keys \cup {None} /\ Cardinality(table[s]) <= MaxPending
    BY <2>1 DEF Extent, KeysInUse, TablesFit
  <2>3. table[s] \subseteq DOMAIN epoch /\ (writer[s] # None => readers[s] = {})
    BY <2>1 DEF Inv, Tables, Locked
  <2>4. /\ readers[s] \subseteq Slot /\ writer[s] \in Slot \cup {None}
        /\ tableLock[s] \in Slot \cup {None}
    BY <2>1 DEF Inv, Types
  <2> QED
    BY <2>2, <2>3, <2>4
<1>3. ASSUME NEW r \in Slot, IsBusy(r)
      PROVE  IsRequest(request[r])
  <2>1. PICK q \in ARequest : q = request[r] /\ Relies(r, q) /\ Carries(q) /\ q # Free
    BY <1>3 DEF IsBusy, Inv, Types, Extent
  <2>2. q.server \in 1..server /\ q.time \in 0..now
    <3>1. /\ q.server <= server /\ q.server \in Server /\ q.time <= now /\ q.time \in Nat
      BY <2>1 DEF Relies, ARequest
    <3>2. now \in Nat /\ server \in Nat
      BY Numbers DEF Inv, Types, Server
    <3> QED
      BY <3>1, <3>2 DEF Server
  <2> QED
    BY <2>1, <2>2 DEF IsRequest, Carries, ARequest
<1>4. /\ \A e \in DOMAIN epoch : epoch[e].holder \in Slot \cup {None}
      /\ \A p \in Peer : inFlight[p] = Cardinality(Entered(p)) /\ inFlight[p] <= MaxConnections
  BY DEF Extent, Holders, Counts
<1> QED
  BY <1>1, <1>2, <1>3, <1>4 DEF TypeOK

\* enter_upload_request and the guard it returns: in_flight counts exactly the
\* connections it limits, which neither a break, a reboot nor a crash leaves behind, no
\* table holds more epochs than max_pending_challenges, and every number a request
\* carries was given; for any number of requests, addresses, servers and faults.
THEOREM GuardsAreGivenBack == Spec => []TypeOK
<1> USE ServiceConstants
<1>1. Init => Inv /\ Extent
  BY InitInv, InitExtent
<1>2. Inv /\ Extent /\ [Next]_vars => (Inv /\ Extent)'
  BY NextInv, NextExtent
<1>3. Inv /\ Extent => TypeOK
  BY ExtentTypes
<1> QED
  BY <1>1, <1>2, <1>3, PTL DEF Spec

=============================================================================
