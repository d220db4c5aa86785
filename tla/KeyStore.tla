------------------------------ MODULE KeyStore ------------------------------
(***************************************************************************)
(* The gateway's access keys (internal/admin/keys/store.go): one file of   *)
(* named keys, written by admin-key commands, each a process of its own,   *)
(* and by gateways when they upgrade a legacy hash; a gateway decides      *)
(* every request from its cached copy of the file.                         *)
(*                                                                         *)
(* A write is read, change and rename under the file lock; a request takes *)
(* no lock until it upgrades.  A secret is a draw, never drawn twice, and  *)
(* a new key's id is its first draw.  A stored hash is the secret it was   *)
(* made from and whether it is a legacy one.  Random bytes run out when no *)
(* draw is left, and a command is one run of its process: that bounds the  *)
(* writes of a run.                                                        *)
(***************************************************************************)
EXTENDS Integers, FiniteSets

CONSTANTS
  Admins,     \* admin-key commands
  Requests,   \* requests to gateways
  Gateways,
  GatewayOf,  \* the gateway each request is in
  Names,      \* key names
  Draws,      \* random values, the source of ids and secrets
  Inodes,     \* inode numbers the file system hands out
  MaxKeys,    \* maxKeys
  NoDraw, NoInode, NoName, NoCaller

VARIABLES
  file,    \* the key file
  cache,   \* what each gateway has kept of it
  issued,  \* draws made so far
  lock,    \* the holder of the file's lock
  call     \* what each caller is doing

vars == <<file, cache, issued, lock, call>>

Callers == Admins \cup Requests

ASSUME KeyStoreAssumption ==
  /\ GatewayOf \in [Requests -> Gateways]
  /\ Admins \cap Requests = {}
  /\ MaxKeys \in Nat \ {0}
  /\ NoDraw \notin Draws
  /\ NoInode \notin Inodes
  /\ NoName \notin Names
  /\ NoCaller \notin Callers
  /\ IsFiniteSet(Names)

-----------------------------------------------------------------------------
(* Files. *)

Token == [id : Draws \cup {NoDraw}, secret : Draws \cup {NoDraw}]
NoToken == [id |-> NoDraw, secret |-> NoDraw]

Key == [id : Draws, secret : Draws, legacy : BOOLEAN]
NoKey == [id |-> NoDraw, secret |-> NoDraw, legacy |-> FALSE]

(* What stat reports.  Two versions of the file never share a modification *)
(* time, so it counts the writes; a missing file has been written 0 times. *)
Info == [inode : Inodes \cup {NoInode}, mtime : Nat, size : Nat]
NoInfo == [inode |-> NoInode, mtime |-> 0, size |-> 0]

Keys == [Names -> Key \cup {NoKey}]
NoKeys == [n \in Names |-> NoKey]

Stored(keys) == {n \in Names : keys[n] # NoKey}

File == [keys : Keys, info : Info]
Missing == [keys |-> NoKeys, info |-> NoInfo]

Written(keys, inode, mtime) ==
  [keys |-> keys,
   info |-> [inode |-> inode, mtime |-> mtime, size |-> Cardinality(Stored(keys))]]

(* Slip: the modification time is not compared.                            *)
sameInodeAndSize(a, b) == a.inode = b.inode /\ a.size = b.size

sameFileState(a, b) == a.inode = b.inode /\ a.mtime = b.mtime /\ a.size = b.size

verifyHash(key, secret) == key.secret = secret

(* verifyIn: the token names a stored key and its secret made the hash. *)
Verifies(keys, token) ==
  \E n \in Stored(keys) : keys[n].id = token.id /\ verifyHash(keys[n], token.secret)

IsLegacy(keys, token) ==
  \E n \in Stored(keys) : keys[n].id = token.id /\ keys[n].legacy

-----------------------------------------------------------------------------
(* Calls. *)

Results == {"ok", "open", "refused", "error"}

Call == [op : {"none", "generate", "rotate", "delete", "authorize"},
         at : {"idle", "wait", "read", "write", "drop", "stat", "load"} \cup Results,
         name : Names \cup {NoName},
         token : Token,      \* presented by a request
         keys : Keys,        \* the keys a writer is about to write
         info : Info,        \* what a request's stat reported
         from : Nat,         \* history: the version of the file at the start,
         seen : Nat]         \* and the version the request was decided on

NoCall == [op |-> "none", at |-> "idle", name |-> NoName, token |-> NoToken,
           keys |-> NoKeys, info |-> NoInfo, from |-> 0, seen |-> 0]

Cached == [info : Info, file : File]
NoCache == [info |-> NoInfo, file |-> Missing]

TypeOK ==
  /\ file \in File
  /\ cache \in [Gateways -> Cached]
  /\ issued \subseteq Draws
  /\ lock \in Callers \cup {NoCaller}
  /\ call \in [Callers -> Call]

(* No file yet, or one written before hashes were SHA-256. *)
Init ==
  /\ \/ file = Missing /\ issued = {}
     \/ \E n \in Names, d \in Draws, i \in Inodes :
          /\ file = Written([NoKeys EXCEPT ![n] = [id |-> d, secret |-> d, legacy |-> TRUE]], i, 1)
          /\ issued = {d}
  /\ cache = [g \in Gateways |-> NoCache]
  /\ lock = NoCaller
  /\ call = [c \in Callers |-> NoCall]

(* What is left of a call that is over. *)
Ended(c, result) == [NoCall EXCEPT !.at = result, !.from = c.from, !.seen = c.seen]

-----------------------------------------------------------------------------
(* Writers: an admin command, or a request that upgrades a hash. *)

Start(a, op, n) ==
  /\ call[a] = NoCall
  /\ call' = [call EXCEPT ![a].op = op, ![a].at = "wait", ![a].name = n]
  /\ UNCHANGED <<file, cache, issued, lock>>

(* Slip: a delete takes no lock.                                           *)
AcquireUnlessDelete(c) ==
  /\ call[c].at = "wait"
  /\ lock = NoCaller \/ call[c].op = "delete"
  /\ lock' = c
  /\ call' = [call EXCEPT ![c].at = "read"]
  /\ UNCHANGED <<file, cache, issued>>

Acquire(c) ==
  /\ call[c].at = "wait"
  /\ lock = NoCaller
  /\ lock' = c
  /\ call' = [call EXCEPT ![c].at = "read"]
  /\ UNCHANGED <<file, cache, issued>>

(* The lock is not had in time, or cannot be. *)
GiveUp(c) ==
  /\ call[c].at = "wait"
  /\ call' = [call EXCEPT ![c] = Ended(@, "error")]
  /\ UNCHANGED <<file, cache, issued, lock>>

Leave(c, result) ==
  /\ lock' = NoCaller
  /\ call' = [call EXCEPT ![c] = Ended(@, result)]

(* The change is ready to be written. *)
Ready(c, keys) ==
  /\ call' = [call EXCEPT ![c].keys = keys, ![c].at = "write"]
  /\ UNCHANGED lock

canAdd(keys, n) == Cardinality(Stored(keys)) < MaxKeys /\ n \notin Stored(keys)

Generate(a) ==
  LET n == call[a].name IN
  /\ call[a].at = "read" /\ call[a].op = "generate"
  /\ \/ \E d \in Draws \ issued :
          /\ canAdd(file.keys, n)
          /\ issued' = issued \cup {d}
          /\ Ready(a, [file.keys EXCEPT ![n] = [id |-> d, secret |-> d, legacy |-> FALSE]])
     \/ /\ Leave(a, "error")   \* refused, or a read or a draw failed
        /\ UNCHANGED issued
  /\ UNCHANGED <<file, cache>>

Rotate(a) ==
  LET n == call[a].name IN
  /\ call[a].at = "read" /\ call[a].op = "rotate"
  /\ \/ \E d \in Draws \ issued :
          /\ n \in Stored(file.keys)
          /\ issued' = issued \cup {d}
          /\ Ready(a, [file.keys EXCEPT ![n].secret = d, ![n].legacy = FALSE])
     \/ /\ Leave(a, "error")
        /\ UNCHANGED issued
  /\ UNCHANGED <<file, cache>>

Delete(a) ==
  LET n == call[a].name IN
  /\ call[a].at = "read" /\ call[a].op = "delete"
  /\ \/ /\ n \in Stored(file.keys)
        /\ Ready(a, [file.keys EXCEPT ![n] = NoKey])
     \/ Leave(a, "error")
  /\ UNCHANGED <<file, cache, issued>>

(* The keys a request's upgrade may rewrite: its own, still a legacy hash  *)
(* of the secret it presented.                                             *)
(* Slip: whatever hash its key has now.                                    *)
UpgradableById(keys, token) == {n \in Stored(keys) : keys[n].id = token.id}

Upgradable(keys, token) ==
  {n \in Stored(keys) : /\ keys[n].id = token.id
                        /\ keys[n].legacy
                        /\ verifyHash(keys[n], token.secret)}

(* upgradeHash; a key rotated or deleted meanwhile is left alone. *)
Upgrade(r) ==
  LET token == call[r].token IN
  /\ call[r].at = "read" /\ call[r].op = "authorize"
  /\ \/ \E n \in Upgradable(file.keys, token) :
          Ready(r, [file.keys EXCEPT ![n].secret = token.secret, ![n].legacy = FALSE])
     \/ Upgradable(file.keys, token) = {} /\ Leave(r, "ok")
     \/ Leave(r, "error")
  /\ UNCHANGED <<file, cache, issued>>

(* WriteAtomic renames a new file, beside the old one until then, into     *)
(* place; a failure leaves the old one.                                    *)
Write(c) ==
  /\ call[c].at = "write"
  /\ \/ \E i \in Inodes \ {file.info.inode} :
          /\ file' = Written(call[c].keys, i, file.info.mtime + 1)
          /\ call' = [call EXCEPT ![c].at = "drop", ![c].keys = NoKeys]
          /\ UNCHANGED lock
     \/ /\ Leave(c, "error")
        /\ UNCHANGED file
  /\ UNCHANGED <<cache, issued>>

(* The writer drops its own process's cache before it lets the lock go. *)
DropCache(c) ==
  /\ call[c].at = "drop"
  /\ cache' = [g \in Gateways |->
                 IF c \in Requests /\ GatewayOf[c] = g THEN NoCache ELSE cache[g]]
  /\ Leave(c, "ok")
  /\ UNCHANGED <<file, issued>>

-----------------------------------------------------------------------------
(* Requests. *)

Authorize(r, token) ==
  /\ call[r] = NoCall
  /\ call' = [call EXCEPT ![r] = [NoCall EXCEPT !.op = "authorize",
                                                !.at = "stat",
                                                !.token = token,
                                                !.from = file.info.mtime,
                                                !.seen = file.info.mtime]]
  /\ UNCHANGED <<file, cache, issued, lock>>

(* The answer a version of the file gives. *)
Decided(c, f) ==
  LET d == [c EXCEPT !.seen = f.info.mtime, !.info = NoInfo]
  IN  IF Stored(f.keys) = {} THEN Ended(d, "open")
      ELSE IF ~Verifies(f.keys, c.token) THEN Ended(d, "refused")
      ELSE IF IsLegacy(f.keys, c.token) THEN [d EXCEPT !.at = "wait"]
      ELSE Ended(d, "ok")

(* A missing file is an empty store. *)
Stat(r) ==
  /\ call[r].at = "stat"
  /\ \/ /\ file.info.mtime = 0
        /\ call' = [call EXCEPT ![r] = Decided(@, Missing)]
     \/ /\ file.info.mtime > 0
        /\ call' = [call EXCEPT ![r].info = file.info, ![r].at = "load"]
     \/ call' = [call EXCEPT ![r] = Ended(@, "error")]
  /\ UNCHANGED <<file, cache, issued, lock>>

(* The cached copy if the stat is the one it was read under, else the file *)
(* as it is now, cached under the earlier stat: one step, under the mutex. *)
Load(r) ==
  LET g == GatewayOf[r] IN
  /\ call[r].at = "load"
  /\ \/ /\ cache[g] # NoCache
        /\ sameFileState(cache[g].info, call[r].info)
        /\ call' = [call EXCEPT ![r] = Decided(@, cache[g].file)]
        /\ UNCHANGED cache
     \/ /\ ~(cache[g] # NoCache /\ sameFileState(cache[g].info, call[r].info))
        /\ \/ /\ call' = [call EXCEPT ![r] = Decided(@, file)]
              /\ cache' = [cache EXCEPT ![g] = [info |-> call[r].info, file |-> file]]
           \/ /\ call' = [call EXCEPT ![r] = Ended(@, "error")]
              /\ UNCHANGED cache
  /\ UNCHANGED <<file, issued, lock>>

Return(r) ==
  /\ call[r].at \in Results
  /\ call' = [call EXCEPT ![r] = NoCall]
  /\ UNCHANGED <<file, cache, issued, lock>>

-----------------------------------------------------------------------------
(* A process dies: its calls, its cache and its lock are gone. *)

Unlock(dead) == lock' = IF lock \in dead THEN NoCaller ELSE lock

AdminDies(a) ==
  /\ call[a].at \notin Results \cup {"idle"}
  /\ call' = [call EXCEPT ![a] = Ended(@, "error")]
  /\ Unlock({a})
  /\ UNCHANGED <<file, cache, issued>>

GatewayDies(g) ==
  LET dead == {r \in Requests : GatewayOf[r] = g} IN
  /\ cache[g] # NoCache \/ \E r \in dead : call[r] # NoCall
  /\ call' = [c \in Callers |-> IF c \in dead THEN NoCall ELSE call[c]]
  /\ cache' = [cache EXCEPT ![g] = NoCache]
  /\ Unlock(dead)
  /\ UNCHANGED <<file, issued>>

Step(c) ==
  \/ Acquire(c) \/ GiveUp(c)
  \/ Generate(c) \/ Rotate(c) \/ Delete(c) \/ Upgrade(c)
  \/ Write(c) \/ DropCache(c)

(* A request presents a well-formed token of drawn parts, or none. *)
Presented == [id : issued, secret : issued] \cup {NoToken}

Next ==
  \/ \E c \in Callers : Step(c)
  \/ \E a \in Admins, n \in Names, op \in {"generate", "rotate", "delete"} : Start(a, op, n)
  \/ \E r \in Requests : Stat(r) \/ Load(r) \/ Return(r)
  \/ \E r \in Requests, token \in Presented : Authorize(r, token)
  \/ \E a \in Admins : AdminDies(a)
  \/ \E g \in Gateways : GatewayDies(g)

Spec == Init /\ [][Next]_vars

-----------------------------------------------------------------------------
(* Correctness. *)

(* The store never holds more than maxKeys keys, though each command       *)
(* checks the limit on a copy it writes back later.                        *)
KeysWithinLimit == Cardinality(Stored(file.keys)) <= MaxKeys

(* A request is decided on a version of the file at least as new as the    *)
(* one in place when it began: a key rotated or deleted before that no     *)
(* longer opens the gateway, a key generated before that does, whatever    *)
(* the gateway had cached.                                                 *)
DecidedOnCurrent == \A r \in Requests : call[r].seen >= call[r].from

(* A write changes the key it is about and no other: of two writers, in    *)
(* any processes, neither undoes what the other did.                       *)
NoLostUpdate ==
  [][\A n \in Names : file'.keys[n] # file.keys[n] =>
       \E c \in Callers :
         /\ call[c].at = "write" /\ call'[c].at = "drop"
         /\ \/ call[c].name = n
            \/ call[c].op = "authorize" /\ call[c].token.id = file.keys[n].id]_vars

(* The upgrade of a legacy hash changes neither id nor secret: a rotation  *)
(* or a deletion between the request's check and its write stands.         *)
UpgradeKeepsSecret ==
  [][\A r \in Requests, n \in Names :
       call[r].at = "write" /\ file'.keys[n] # file.keys[n] /\ call'[r].at = "drop" =>
         /\ file'.keys[n].id = file.keys[n].id
         /\ file'.keys[n].secret = file.keys[n].secret]_vars
=============================================================================
