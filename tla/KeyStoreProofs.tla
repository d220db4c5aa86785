--------------------------- MODULE KeyStoreProofs ---------------------------
(***************************************************************************)
(* Proofs about KeyStore, for every set of commands, requests, gateways,   *)
(* names and draws, and every limit.                                       *)
(*                                                                         *)
(* Two arguments meet.  Writers exclude each other, so the change a writer *)
(* has prepared is still a change of one key of the file when it is        *)
(* written.  Requests take no lock: what carries them is order, since a    *)
(* cached copy is never older than the stat it is filed under, and a stat  *)
(* never older than the request that made it.  KeyInv states both, and is  *)
(* inductive.                                                              *)
(***************************************************************************)
EXTENDS KeyStore, FiniteSetTheorems, TLAPS

Locked == {"read", "write", "drop"}
Writing == Locked \cup {"wait"}

(* The holder of the lock is the caller between its read and its return.   *)
LockHeld == \A c \in Callers : lock = c <=> call[c].at \in Locked

(* Requests authorize, and nobody else does.                               *)
OpOK(c, d) ==
  /\ d.op = "authorize" => c \in Requests
  /\ d.op \notin {"none", "authorize"} => c \in Admins
  /\ d.at \in Writing => d.op # "none"
  /\ d.at \in {"stat", "load"} => d.op = "authorize"

(* The keys about to be written are the file's but for the one the call is *)
(* about, and an upgrade keeps that one's id and secret.                   *)
WriteOK(d) ==
  d.at = "write" =>
    /\ Cardinality(Stored(d.keys)) <= MaxKeys
    /\ \A n \in Names : d.keys[n] # file.keys[n] =>
         \/ d.op # "authorize" /\ d.name = n
         \/ /\ d.op = "authorize" /\ d.token.id = file.keys[n].id
            /\ d.keys[n].id = file.keys[n].id
            /\ d.keys[n].secret = file.keys[n].secret

(* A request's stat, and the version it was decided on, are no older than  *)
(* its start.                                                              *)
SeenOK(d) ==
  /\ d.seen >= d.from
  /\ d.at = "stat" => d.from <= file.info.mtime
  /\ d.at = "load" => d.from <= d.info.mtime /\ d.info.mtime <= file.info.mtime

(* A cached copy lies between the stat it is filed under and the file.     *)
CacheOK ==
  \A g \in Gateways : /\ cache[g].info.mtime <= cache[g].file.info.mtime
                      /\ cache[g].file.info.mtime <= file.info.mtime

KeyInv ==
  /\ TypeOK
  /\ LockHeld
  /\ CacheOK
  /\ KeysWithinLimit
  /\ \A c \in Callers : OpOK(c, call[c]) /\ WriteOK(call[c]) /\ SeenOK(call[c])

-----------------------------------------------------------------------------
(* Values. *)

LEMMA NoValues ==
  /\ NoToken \in Token
  /\ NoInfo \in Info
  /\ NoKey \notin Key
  /\ NoKeys \in Keys
  /\ Missing \in File
  /\ NoCall \in Call
  /\ NoCache \in Cached
<1> USE KeyStoreAssumption
<1>1. NoToken \in Token /\ NoInfo \in Info /\ NoKey \notin Key /\ NoKeys \in Keys
  BY DEF NoToken, Token, NoInfo, Info, NoKey, Key, NoKeys, Keys
<1>2. Missing \in File
  BY <1>1 DEF Missing, File
<1>3. NoCall \in Call
  BY <1>1 DEF NoCall, Call
<1>4. NoCache \in Cached
  BY <1>1, <1>2 DEF NoCache, Cached
<1> QED
  BY <1>1, <1>2, <1>3, <1>4

(* The stored names are finitely many.                                     *)
LEMMA StoredFinite ==
  ASSUME NEW keys
  PROVE  IsFiniteSet(Stored(keys)) /\ Cardinality(Stored(keys)) \in Nat
<1>1. IsFiniteSet(Stored(keys))
  BY FS_Subset, KeyStoreAssumption DEF Stored
<1> QED
  BY <1>1, FS_CardinalityType

(* A file written is a file.                                               *)
LEMMA WrittenType ==
  ASSUME NEW keys \in Keys, NEW i \in Inodes, NEW t \in Nat
  PROVE  /\ Written(keys, i, t) \in File
         /\ Written(keys, i, t).keys = keys
         /\ Written(keys, i, t).info.mtime = t
<1>1. Cardinality(Stored(keys)) \in Nat
  BY StoredFinite
<1> QED
  BY <1>1 DEF Written, File, Info

(* A key generated where there is room leaves the store within its limit.  *)
LEMMA AddWithinLimit ==
  ASSUME NEW keys \in Keys, NEW n \in Names, NEW k, canAdd(keys, n)
  PROVE  Cardinality(Stored([keys EXCEPT ![n] = k])) <= MaxKeys
<1> DEFINE new == [keys EXCEPT ![n] = k]
<1>1. IsFiniteSet(Stored(keys)) /\ Cardinality(Stored(keys)) \in Nat
  BY StoredFinite
<1>2. Stored(new) \subseteq Stored(keys) \cup {n}
  BY DEF Stored, Keys
<1>3. /\ IsFiniteSet(Stored(keys) \cup {n})
      /\ Cardinality(Stored(keys) \cup {n}) = Cardinality(Stored(keys)) + 1
  BY <1>1, FS_AddElement DEF canAdd
<1>4. /\ Cardinality(Stored(new)) <= Cardinality(Stored(keys) \cup {n})
      /\ Cardinality(Stored(new)) \in Nat
  BY <1>2, <1>3, StoredFinite, FS_Subset
<1> QED
  BY <1>1, <1>3, <1>4, KeyStoreAssumption DEF canAdd

(* Rewriting or removing a stored key adds none.                           *)
LEMMA ChangeWithinLimit ==
  ASSUME NEW keys \in Keys, NEW new, Stored(new) \subseteq Stored(keys),
         Cardinality(Stored(keys)) <= MaxKeys
  PROVE  Cardinality(Stored(new)) <= MaxKeys
<1>1. /\ Cardinality(Stored(new)) <= Cardinality(Stored(keys))
      /\ Cardinality(Stored(new)) \in Nat /\ Cardinality(Stored(keys)) \in Nat
  BY StoredFinite, FS_Subset
<1> QED
  BY <1>1, KeyStoreAssumption

-----------------------------------------------------------------------------
(* The kinds of step. *)

(* A step that moves one caller and leaves the file alone.                 *)
LEMMA FreeStep ==
  ASSUME KeyInv, NEW c \in Callers, NEW d \in Call,
         UNCHANGED file,
         cache' \in [Gateways -> Cached], CacheOK',
         issued' \subseteq Draws,
         call' = [call EXCEPT ![c] = d],
         \/ lock' = lock /\ (d.at \in Locked <=> call[c].at \in Locked)
         \/ lock = NoCaller /\ lock' = c /\ d.at \in Locked
         \/ call[c].at \in Locked /\ lock' = NoCaller /\ d.at \notin Locked,
         OpOK(c, d), WriteOK(d), SeenOK(d)
  PROVE  KeyInv'
<1>1. /\ call' \in [Callers -> Call]
      /\ call'[c] = d
      /\ \A q \in Callers \ {c} : call'[q] = call[q]
  BY DEF KeyInv, TypeOK
<1>2. TypeOK'
  BY <1>1 DEF KeyInv, TypeOK
<1>3. LockHeld'
  BY <1>1, KeyStoreAssumption DEF KeyInv, LockHeld
<1>4. KeysWithinLimit'
  BY DEF KeyInv, KeysWithinLimit
<1>5. ASSUME NEW q \in Callers
      PROVE  (OpOK(q, call[q]) /\ WriteOK(call[q]) /\ SeenOK(call[q]))'
  <2>1. OpOK(q, call'[q]) /\ WriteOK(call'[q]) /\ SeenOK(call'[q])
    BY <1>1 DEF KeyInv
  <2> QED
    BY <2>1 DEF OpOK, WriteOK, SeenOK
<1> QED
  BY <1>2, <1>3, <1>4, <1>5 DEF KeyInv

(* One that leaves the cache alone too.                                    *)
LEMMA CallStep ==
  ASSUME KeyInv, NEW c \in Callers, NEW d \in Call,
         UNCHANGED <<file, cache>>,
         issued' \subseteq Draws,
         call' = [call EXCEPT ![c] = d],
         \/ lock' = lock /\ (d.at \in Locked <=> call[c].at \in Locked)
         \/ lock = NoCaller /\ lock' = c /\ d.at \in Locked
         \/ call[c].at \in Locked /\ lock' = NoCaller /\ d.at \notin Locked,
         OpOK(c, d), WriteOK(d), SeenOK(d)
  PROVE  KeyInv'
<1>1. cache' \in [Gateways -> Cached] /\ CacheOK'
  BY DEF KeyInv, TypeOK, CacheOK
<1> QED
  BY <1>1, FreeStep

(* What is left of a call that is over asks for nothing.                   *)
LEMMA EndedOK ==
  ASSUME NEW c \in Callers, NEW d \in Call, d.seen >= d.from, NEW result \in Results
  PROVE  /\ Ended(d, result) \in Call
         /\ Ended(d, result).at \notin Locked
         /\ OpOK(c, Ended(d, result))
         /\ WriteOK(Ended(d, result))
         /\ SeenOK(Ended(d, result))
<1>1. NoCall \in Call /\ NoCall.op = "none" /\ d.from \in Nat /\ d.seen \in Nat
  BY NoValues DEF NoCall, Call
<1>2. /\ Ended(d, result) \in Call
      /\ Ended(d, result).op = "none" /\ Ended(d, result).at = result
      /\ Ended(d, result).from = d.from /\ Ended(d, result).seen = d.seen
  BY <1>1 DEF Ended, Call
<1> QED
  BY <1>2 DEF OpOK, WriteOK, SeenOK, Writing, Locked, Results

-----------------------------------------------------------------------------
(* One lemma per action. *)

LEMMA InitInv == Init => KeyInv
<1> SUFFICES ASSUME Init PROVE KeyInv
  OBVIOUS
<1> USE NoValues
<1>1. file \in File /\ file.info.mtime \in Nat /\ issued \subseteq Draws /\ KeysWithinLimit
  <2>1. CASE file = Missing /\ issued = {}
    <3>1. Stored(NoKeys) = {}
      BY DEF Stored, NoKeys
    <3> QED
      BY <2>1, <3>1, FS_EmptySet, KeyStoreAssumption DEF KeysWithinLimit, Missing, File, Info
  <2>2. ASSUME NEW n \in Names, NEW d \in Draws, NEW i \in Inodes,
               file = Written([NoKeys EXCEPT ![n] = [id |-> d, secret |-> d, legacy |-> TRUE]], i, 1),
               issued = {d}
        PROVE  file \in File /\ file.info.mtime \in Nat /\ issued \subseteq Draws
                 /\ KeysWithinLimit
    <3> DEFINE keys == [NoKeys EXCEPT ![n] = [id |-> d, secret |-> d, legacy |-> TRUE]]
    <3>1. keys \in Keys
      BY DEF Keys, Key
    <3>2. Stored(keys) \subseteq {n}
      BY DEF Stored, NoKeys
    <3>3. IsFiniteSet({n}) /\ Cardinality({n}) = 1
      BY FS_Singleton
    <3>4. Cardinality(Stored(keys)) <= 1 /\ Cardinality(Stored(keys)) \in Nat
      BY <3>2, <3>3, FS_Subset, StoredFinite
    <3> QED
      BY <2>2, <3>1, <3>4, WrittenType, KeyStoreAssumption DEF KeysWithinLimit
  <2> QED
    BY <2>1, <2>2 DEF Init
<1>2. TypeOK
  BY <1>1 DEF Init, TypeOK
<1>3. LockHeld
  BY KeyStoreAssumption DEF Init, LockHeld, NoCall, Locked
<1>4. CacheOK
  BY <1>1 DEF Init, CacheOK, NoCache, NoInfo, Missing
<1>5. ASSUME NEW c \in Callers PROVE OpOK(c, call[c]) /\ WriteOK(call[c]) /\ SeenOK(call[c])
  BY DEF Init, NoCall, OpOK, Writing, Locked, WriteOK, SeenOK
<1> QED
  BY <1>1, <1>2, <1>3, <1>4, <1>5 DEF KeyInv

LEMMA StartInv ==
  ASSUME KeyInv, NEW a \in Admins, NEW op \in {"generate", "rotate", "delete"},
         NEW n \in Names, Start(a, op, n)
  PROVE  KeyInv'
<1> DEFINE d == [NoCall EXCEPT !.op = op, !.at = "wait", !.name = n]
<1>1. a \in Callers /\ d \in Call
  BY NoValues DEF Callers, Call
<1>2. call' = [call EXCEPT ![a] = d]
  BY DEF Start
<1>3. /\ OpOK(a, d) /\ WriteOK(d) /\ SeenOK(d)
      /\ d.at \notin Locked /\ call[a].at \notin Locked
  BY DEF Start, OpOK, WriteOK, SeenOK, NoCall, Locked
<1>4. issued' \subseteq Draws
  BY DEF Start, KeyInv, TypeOK
<1> QED
  BY <1>1, <1>2, <1>3, <1>4, CallStep DEF Start

(* Steps that give up, get the lock, or answer without writing.            *)
LEMMA AcquireInv ==
  ASSUME KeyInv, NEW c \in Callers, Acquire(c) \/ GiveUp(c)
  PROVE  KeyInv'
<1> DEFINE d(at) == [call[c] EXCEPT !.at = at]
<1>1. call[c] \in Call /\ issued \subseteq Draws /\ call[c].seen >= call[c].from
  BY DEF KeyInv, TypeOK, SeenOK
<1>2. CASE Acquire(c)
  <2>1. d("read") \in Call /\ call' = [call EXCEPT ![c] = d("read")]
    BY <1>1, <1>2 DEF Acquire, Call
  <2>2. /\ WriteOK(d("read")) /\ SeenOK(d("read")) /\ OpOK(c, d("read"))
        /\ d("read").at \in Locked
    BY <1>1, <1>2 DEF Acquire, WriteOK, SeenOK, OpOK, KeyInv, Locked, Writing, Call
  <2> QED
    BY <1>1, <1>2, <2>1, <2>2, CallStep DEF Acquire
<1>3. CASE GiveUp(c)
  <2> DEFINE e == Ended(call[c], "error")
  <2>1. call' = [call EXCEPT ![c] = e] /\ call[c].at \notin Locked
    BY <1>3 DEF GiveUp, Locked
  <2>2. e \in Call /\ WriteOK(e) /\ SeenOK(e) /\ OpOK(c, e) /\ e.at \notin Locked
    BY <1>1, EndedOK DEF Results
  <2> QED
    BY <1>1, <1>3, <2>1, <2>2, CallStep DEF GiveUp
<1> QED
  BY <1>2, <1>3

LEMMA LeaveInv ==
  ASSUME KeyInv, NEW c \in Callers, call[c].at \in Locked, NEW result \in Results,
         Leave(c, result), UNCHANGED <<file, issued>>,
         cache' \in [Gateways -> Cached], CacheOK'
  PROVE  KeyInv'
<1> DEFINE d == Ended(call[c], result)
<1>1. call[c] \in Call /\ issued' \subseteq Draws /\ call[c].seen >= call[c].from
  BY DEF KeyInv, TypeOK, SeenOK
<1>2. d \in Call /\ OpOK(c, d) /\ WriteOK(d) /\ SeenOK(d) /\ d.at \notin Locked
  BY <1>1, EndedOK
<1>3. call' = [call EXCEPT ![c] = d] /\ lock' = NoCaller
  BY DEF Leave
<1> QED
  BY <1>1, <1>2, <1>3, FreeStep

LEMMA ReadyInv ==
  ASSUME KeyInv, NEW c \in Callers, call[c].at = "read", NEW keys \in Keys,
         Ready(c, keys), UNCHANGED <<file, cache>>, issued' \subseteq Draws,
         WriteOK([call[c] EXCEPT !.keys = keys, !.at = "write"])
  PROVE  KeyInv'
<1> DEFINE d == [call[c] EXCEPT !.keys = keys, !.at = "write"]
<1>1. call[c] \in Call
  BY DEF KeyInv, TypeOK
<1>2. d \in Call /\ call' = [call EXCEPT ![c] = d]
  BY <1>1 DEF Ready, Call
<1>3. OpOK(c, d) /\ SeenOK(d) /\ d.at \in Locked /\ call[c].at \in Locked
  BY <1>1 DEF OpOK, SeenOK, KeyInv, Locked, Writing, Call
<1> QED
  BY <1>2, <1>3, CallStep DEF Ready

(* A change that leaves without writing.                                   *)
LEMMA RefuseInv ==
  ASSUME KeyInv, NEW c \in Callers, call[c].at \in Locked, NEW result \in Results,
         Leave(c, result), UNCHANGED <<file, cache, issued>>
  PROVE  KeyInv'
<1>1. cache' \in [Gateways -> Cached] /\ CacheOK'
  BY DEF KeyInv, TypeOK, CacheOK
<1> QED
  BY <1>1, LeaveInv

LEMMA GenerateInv ==
  ASSUME KeyInv, NEW a \in Callers, Generate(a)
  PROVE  KeyInv'
<1> DEFINE n == call[a].name
<1>1. call[a] \in Call /\ file.keys \in Keys /\ issued \subseteq Draws
  BY DEF KeyInv, TypeOK, File
<1>2. ASSUME NEW d \in Draws \ issued, canAdd(file.keys, n), issued' = issued \cup {d},
             Ready(a, [file.keys EXCEPT ![n] = [id |-> d, secret |-> d, legacy |-> FALSE]])
      PROVE  KeyInv'
  <2> DEFINE keys == [file.keys EXCEPT ![n] = [id |-> d, secret |-> d, legacy |-> FALSE]]
  <2>1. keys \in Keys
    BY <1>1 DEF Keys, Key
  <2>2. n \in Names => Cardinality(Stored(keys)) <= MaxKeys
    BY <1>1, <1>2, AddWithinLimit
  <2>3. n \notin Names => keys = file.keys
    BY <1>1 DEF Keys
  <2>4. Cardinality(Stored(keys)) <= MaxKeys
    BY <2>2, <2>3 DEF KeyInv, KeysWithinLimit
  <2>5. \A m \in Names : keys[m] # file.keys[m] => m = n
    BY <1>1 DEF Keys
  <2>6. WriteOK([call[a] EXCEPT !.keys = keys, !.at = "write"])
    BY <1>1, <2>4, <2>5 DEF Generate, WriteOK, Call
  <2> QED
    BY <1>1, <1>2, <2>1, <2>6, ReadyInv DEF Generate
<1>3. ASSUME Leave(a, "error"), UNCHANGED issued PROVE KeyInv'
  BY <1>3, RefuseInv DEF Generate, Locked, Results
<1> QED
  BY <1>2, <1>3 DEF Generate

LEMMA RotateInv ==
  ASSUME KeyInv, NEW a \in Callers, Rotate(a)
  PROVE  KeyInv'
<1> DEFINE n == call[a].name
<1>1. call[a] \in Call /\ file.keys \in Keys /\ issued \subseteq Draws
  BY DEF KeyInv, TypeOK, File
<1>2. ASSUME NEW d \in Draws \ issued, n \in Stored(file.keys), issued' = issued \cup {d},
             Ready(a, [file.keys EXCEPT ![n].secret = d, ![n].legacy = FALSE])
      PROVE  KeyInv'
  <2> DEFINE keys == [file.keys EXCEPT ![n].secret = d, ![n].legacy = FALSE]
  <2>1. n \in Names /\ file.keys[n] \in Key
    BY <1>1, <1>2 DEF Stored, Keys
  <2>2. keys \in Keys
    BY <1>1, <2>1 DEF Keys, Key
  <2>3. \A m \in Names : keys[m] # file.keys[m] => m = n
    BY <1>1 DEF Keys
  <2>4. Stored(keys) \subseteq Stored(file.keys)
    BY <1>1, <1>2, <2>3 DEF Stored
  <2>5. Cardinality(Stored(keys)) <= MaxKeys
    BY <1>1, <2>4, ChangeWithinLimit DEF KeyInv, KeysWithinLimit
  <2>6. WriteOK([call[a] EXCEPT !.keys = keys, !.at = "write"])
    BY <1>1, <2>3, <2>5 DEF Rotate, WriteOK, Call
  <2> QED
    BY <1>1, <1>2, <2>2, <2>6, ReadyInv DEF Rotate
<1>3. ASSUME Leave(a, "error"), UNCHANGED issued PROVE KeyInv'
  BY <1>3, RefuseInv DEF Rotate, Locked, Results
<1> QED
  BY <1>2, <1>3 DEF Rotate

LEMMA DeleteInv ==
  ASSUME KeyInv, NEW a \in Callers, Delete(a)
  PROVE  KeyInv'
<1> DEFINE n == call[a].name
           keys == [file.keys EXCEPT ![n] = NoKey]
<1>1. call[a] \in Call /\ file.keys \in Keys /\ issued' \subseteq Draws
  BY DEF KeyInv, TypeOK, File, Delete
<1>2. CASE Ready(a, keys)
  <2>1. keys \in Keys
    BY <1>1 DEF Keys
  <2>2. \A m \in Names : keys[m] # file.keys[m] => m = n /\ keys[m] = NoKey
    BY <1>1 DEF Keys
  <2>3. Stored(keys) \subseteq Stored(file.keys)
    BY <2>2 DEF Stored
  <2>4. Cardinality(Stored(keys)) <= MaxKeys
    BY <1>1, <2>3, ChangeWithinLimit DEF KeyInv, KeysWithinLimit
  <2>5. WriteOK([call[a] EXCEPT !.keys = keys, !.at = "write"])
    BY <1>1, <2>2, <2>4 DEF Delete, WriteOK, Call
  <2> QED
    BY <1>1, <1>2, <2>1, <2>5, ReadyInv DEF Delete
<1>3. CASE Leave(a, "error")
  BY <1>3, RefuseInv DEF Delete, Locked, Results
<1> QED
  BY <1>2, <1>3 DEF Delete

LEMMA UpgradeInv ==
  ASSUME KeyInv, NEW r \in Callers, Upgrade(r)
  PROVE  KeyInv'
<1> DEFINE token == call[r].token
<1>1. call[r] \in Call /\ file.keys \in Keys /\ issued' \subseteq Draws
  BY DEF KeyInv, TypeOK, File, Upgrade
<1>2. ASSUME NEW n \in Upgradable(file.keys, token),
             Ready(r, [file.keys EXCEPT ![n].secret = token.secret, ![n].legacy = FALSE])
      PROVE  KeyInv'
  <2> DEFINE keys == [file.keys EXCEPT ![n].secret = token.secret, ![n].legacy = FALSE]
  <2>1. /\ n \in Names /\ n \in Stored(file.keys) /\ file.keys[n] \in Key
        /\ file.keys[n].id = token.id /\ file.keys[n].secret = token.secret
    BY <1>1 DEF Upgradable, verifyHash, Stored, Keys
  <2>2. keys \in Keys
    BY <1>1, <2>1 DEF Keys, Key
  <2>3. /\ \A m \in Names : keys[m] # file.keys[m] => m = n
        /\ keys[n].id = file.keys[n].id /\ keys[n].secret = file.keys[n].secret
    BY <1>1, <2>1 DEF Keys, Key
  <2>4. Stored(keys) \subseteq Stored(file.keys)
    BY <2>1, <2>3 DEF Stored
  <2>5. Cardinality(Stored(keys)) <= MaxKeys
    BY <1>1, <2>4, ChangeWithinLimit DEF KeyInv, KeysWithinLimit
  <2>6. WriteOK([call[r] EXCEPT !.keys = keys, !.at = "write"])
    BY <1>1, <2>1, <2>3, <2>5 DEF Upgrade, WriteOK, Call
  <2> QED
    BY <1>1, <1>2, <2>2, <2>6, ReadyInv DEF Upgrade
<1>3. ASSUME NEW result \in Results, Leave(r, result) PROVE KeyInv'
  BY <1>3, RefuseInv DEF Upgrade, Locked
<1> QED
  BY <1>2, <1>3 DEF Upgrade, Results

LEMMA WriteInv ==
  ASSUME KeyInv, NEW c \in Callers, Write(c)
  PROVE  KeyInv'
<1>1. call[c] \in Call /\ file \in File /\ file.info.mtime \in Nat /\ lock = c
  BY DEF KeyInv, TypeOK, LockHeld, File, Info, Write, Locked
<1>2. ASSUME NEW i \in Inodes,
             file' = Written(call[c].keys, i, file.info.mtime + 1),
             call' = [call EXCEPT ![c].at = "drop", ![c].keys = NoKeys],
             UNCHANGED lock
      PROVE  KeyInv'
  <2> DEFINE d == [call[c] EXCEPT !.at = "drop", !.keys = NoKeys]
  <2>1. /\ file' \in File /\ file'.keys = call[c].keys
        /\ file'.info.mtime = file.info.mtime + 1
    BY <1>1, <1>2, WrittenType DEF Call
  <2>2. d \in Call /\ call' = [call EXCEPT ![c] = d]
    BY <1>1, <1>2, NoValues DEF Call
  <2>3. /\ call' \in [Callers -> Call] /\ call'[c] = d
        /\ \A q \in Callers \ {c} : call'[q] = call[q]
    BY <2>2 DEF KeyInv, TypeOK
  <2>4. TypeOK'
    BY <1>2, <2>1, <2>3 DEF Write, KeyInv, TypeOK
  <2>5. LockHeld'
    BY <1>1, <1>2, <2>3 DEF Write, KeyInv, LockHeld, Locked, Call
  <2>6. CacheOK'
    <3>1. \A g \in Gateways : /\ cache[g].info.mtime \in Nat
                              /\ cache[g].file.info.mtime \in Nat
      BY DEF KeyInv, TypeOK, Cached, File, Info
    <3> QED
      BY <1>1, <2>1, <3>1 DEF Write, KeyInv, CacheOK
  <2>7. KeysWithinLimit'
    BY <2>1 DEF Write, KeyInv, WriteOK, KeysWithinLimit
  <2>8. \A q \in Callers \ {c} : call[q].at # "write"
    BY <1>1 DEF KeyInv, LockHeld, Locked
  <2>9. ASSUME NEW q \in Callers 
        PROVE  (OpOK(q, call[q]) /\ WriteOK(call[q]) /\ SeenOK(call[q]))'
    <3>1. /\ call[q] \in Call /\ call[q].from \in Nat /\ call[q].seen \in Nat
          /\ call[q].info.mtime \in Nat /\ OpOK(q, call[q]) /\ SeenOK(call[q])
      BY DEF KeyInv, TypeOK, Call, Info
    <3>2. CASE q = c
      BY <1>1, <2>3, <3>1, <3>2 DEF Write, OpOK, WriteOK, SeenOK, Writing, Locked, Call
    <3>3. CASE q # c
      <4>1. call'[q] = call[q] /\ call[q].at # "write"
        BY <2>3, <2>8, <3>3
      <4> QED
        BY <1>1, <2>1, <3>1, <4>1 DEF OpOK, WriteOK, SeenOK
    <3> QED
      BY <3>2, <3>3
  <2> QED
    BY <2>4, <2>5, <2>6, <2>7, <2>9 DEF KeyInv
<1>3. ASSUME Leave(c, "error"), UNCHANGED file PROVE KeyInv'
  BY <1>3, RefuseInv DEF Write, Locked, Results
<1> QED
  BY <1>2, <1>3 DEF Write

LEMMA DropCacheInv ==
  ASSUME KeyInv, NEW c \in Callers, DropCache(c)
  PROVE  KeyInv'
<1>1. cache' \in [Gateways -> Cached]
  BY NoValues DEF DropCache, KeyInv, TypeOK
<1>2. CacheOK'
  BY DEF DropCache, KeyInv, CacheOK, TypeOK, File, Info, NoCache, NoInfo, Missing
<1> QED
  BY <1>1, <1>2, LeaveInv DEF DropCache, Locked, Results

LEMMA AuthorizeInv ==
  ASSUME KeyInv, NEW r \in Requests, NEW token \in Presented, Authorize(r, token)
  PROVE  KeyInv'
<1> DEFINE d == [NoCall EXCEPT !.op = "authorize", !.at = "stat", !.token = token,
                               !.from = file.info.mtime, !.seen = file.info.mtime]
<1>1. r \in Callers /\ issued \subseteq Draws /\ file.info.mtime \in Nat
  BY DEF KeyInv, TypeOK, Callers, File, Info
<1>2. token \in Token
  BY <1>1, NoValues DEF Presented, Token
<1>3. d \in Call /\ call' = [call EXCEPT ![r] = d]
  BY <1>1, <1>2, NoValues DEF Call, Authorize
<1>4. /\ OpOK(r, d) /\ WriteOK(d) /\ SeenOK(d)
      /\ d.at \notin Locked /\ call[r].at \notin Locked
  BY <1>1 DEF OpOK, WriteOK, SeenOK, Authorize, NoCall, Locked, Writing
<1> QED
  BY <1>1, <1>3, <1>4, CallStep DEF Authorize

(* The request is answered, or goes on to its upgrade, on a version no     *)
(* older than its start.                                                   *)
LEMMA DecidedOK ==
  ASSUME KeyInv, NEW r \in Requests, NEW f \in File,
         call[r].from <= f.info.mtime, call[r].op = "authorize"
  PROVE  LET d == Decided(call[r], f) IN
           /\ d \in Call
           /\ d.at \notin Locked
           /\ OpOK(r, d) /\ WriteOK(d) /\ SeenOK(d)
<1> DEFINE e == [call[r] EXCEPT !.seen = f.info.mtime, !.info = NoInfo]
<1>1. call[r] \in Call /\ f.info.mtime \in Nat /\ r \in Callers
  BY DEF KeyInv, TypeOK, Callers, File, Info
<1>2. /\ e \in Call /\ e.op = "authorize"
      /\ e.seen = f.info.mtime /\ e.from = call[r].from /\ e.seen >= e.from
  BY <1>1, NoValues DEF Call
<1>3. \A result \in Results :
        /\ Ended(e, result) \in Call /\ Ended(e, result).at \notin Locked
        /\ OpOK(r, Ended(e, result)) /\ WriteOK(Ended(e, result)) /\ SeenOK(Ended(e, result))
  BY <1>1, <1>2, EndedOK
<1> DEFINE w == [e EXCEPT !.at = "wait"]
<1>4. w \in Call /\ w.at \notin Locked /\ OpOK(r, w) /\ WriteOK(w) /\ SeenOK(w)
  <2>1. w \in Call /\ w.op = "authorize" /\ w.at = "wait" /\ w.seen = e.seen /\ w.from = e.from
    BY <1>2 DEF Call
  <2> QED
    BY <1>2, <2>1 DEF OpOK, WriteOK, SeenOK, Locked
<1>5. \/ Decided(call[r], f) = w
      \/ \E result \in Results : Decided(call[r], f) = Ended(e, result)
  BY DEF Decided, Results
<1> QED
  BY <1>3, <1>4, <1>5

LEMMA StatInv ==
  ASSUME KeyInv, NEW r \in Requests, Stat(r)
  PROVE  KeyInv'
<1>1. /\ r \in Callers /\ call[r] \in Call /\ issued' \subseteq Draws
      /\ file \in File /\ file.info \in Info /\ file.info.mtime \in Nat
  BY DEF KeyInv, TypeOK, Callers, File, Info, Stat
<1>2. SeenOK(call[r]) /\ call[r].op = "authorize"
  BY <1>1 DEF KeyInv, OpOK, Stat
<1>3. call[r].at \notin Locked
  BY DEF Stat, Locked
<1>4. ASSUME file.info.mtime = 0, call' = [call EXCEPT ![r] = Decided(@, Missing)]
      PROVE  KeyInv'
  <2> DEFINE d == Decided(call[r], Missing)
  <2>1. call[r].from <= Missing.info.mtime /\ Missing \in File
    BY <1>2, <1>4, NoValues DEF SeenOK, Stat, Missing, NoInfo
  <2>2. d \in Call /\ d.at \notin Locked /\ OpOK(r, d) /\ WriteOK(d) /\ SeenOK(d)
    BY <1>1, <1>2, <2>1, DecidedOK
  <2>3. call' = [call EXCEPT ![r] = d]
    BY <1>4
  <2> QED
    BY <1>1, <1>3, <2>2, <2>3, CallStep DEF Stat
<1>5. ASSUME call' = [call EXCEPT ![r].info = file.info, ![r].at = "load"] PROVE KeyInv'
  <2> DEFINE d == [call[r] EXCEPT !.info = file.info, !.at = "load"]
  <2>1. d \in Call /\ call' = [call EXCEPT ![r] = d]
    BY <1>1, <1>5 DEF Call
  <2>2. OpOK(r, d) /\ WriteOK(d) /\ SeenOK(d) /\ d.at \notin Locked
    BY <1>1, <1>2 DEF OpOK, WriteOK, SeenOK, Stat, Call, Writing, Locked
  <2> QED
    BY <1>1, <1>3, <2>1, <2>2, CallStep DEF Stat
<1>6. ASSUME call' = [call EXCEPT ![r] = Ended(@, "error")] PROVE KeyInv'
  <2> DEFINE d == Ended(call[r], "error")
  <2>1. call' = [call EXCEPT ![r] = d]
    BY <1>6
  <2>2. d \in Call /\ OpOK(r, d) /\ WriteOK(d) /\ SeenOK(d) /\ d.at \notin Locked
    BY <1>1, <1>2, EndedOK DEF SeenOK, Results
  <2> QED
    BY <1>1, <1>3, <2>1, <2>2, CallStep DEF Stat
<1> QED
  BY <1>4, <1>5, <1>6 DEF Stat

LEMMA LoadInv ==
  ASSUME KeyInv, NEW r \in Requests, Load(r)
  PROVE  KeyInv'
<1> DEFINE g == GatewayOf[r]
<1>1. /\ r \in Callers /\ call[r] \in Call /\ issued' \subseteq Draws
      /\ g \in Gateways /\ cache[g] \in Cached
      /\ file \in File /\ file.info \in Info /\ file.info.mtime \in Nat
  BY KeyStoreAssumption DEF KeyInv, TypeOK, Callers, File, Info, Load
<1>2. /\ call[r].from <= call[r].info.mtime
      /\ call[r].info.mtime <= file.info.mtime
      /\ SeenOK(call[r]) /\ call[r].op = "authorize"
  BY <1>1 DEF KeyInv, OpOK, SeenOK, Load
<1>3. call[r].info \in Info /\ call[r].info.mtime \in Nat /\ call[r].from \in Nat
  BY <1>1 DEF Call, Info
<1>4. call[r].at \notin Locked
  BY DEF Load, Locked
<1>5. ASSUME sameFileState(cache[g].info, call[r].info),
             call' = [call EXCEPT ![r] = Decided(@, cache[g].file)], UNCHANGED cache
      PROVE  KeyInv'
  <2> DEFINE d == Decided(call[r], cache[g].file)
  <2>1. cache[g].info.mtime <= cache[g].file.info.mtime
    BY <1>1 DEF KeyInv, CacheOK
  <2>2. cache[g].file \in File /\ cache[g].file.info.mtime \in Nat
    BY <1>1 DEF Cached, File, Info
  <2>3. call[r].from <= cache[g].file.info.mtime
    BY <1>2, <1>3, <1>5, <2>1, <2>2 DEF sameFileState
  <2>4. d \in Call /\ d.at \notin Locked /\ OpOK(r, d) /\ WriteOK(d) /\ SeenOK(d)
    BY <1>1, <1>2, <2>2, <2>3, DecidedOK
  <2>5. call' = [call EXCEPT ![r] = d]
    BY <1>5
  <2> QED
    BY <1>1, <1>4, <1>5, <2>4, <2>5, CallStep DEF Load
<1>6. ASSUME call' = [call EXCEPT ![r] = Decided(@, file)],
             cache' = [cache EXCEPT ![g] = [info |-> call[r].info, file |-> file]]
      PROVE  KeyInv'
  <2> DEFINE d == Decided(call[r], file)
  <2>1. call[r].from <= file.info.mtime
    BY <1>1, <1>2, <1>3
  <2>2. d \in Call /\ d.at \notin Locked /\ OpOK(r, d) /\ WriteOK(d) /\ SeenOK(d)
    BY <1>1, <1>2, <2>1, DecidedOK
  <2>3. cache' \in [Gateways -> Cached]
    BY <1>1, <1>3, <1>6 DEF KeyInv, TypeOK, Cached
  <2>4. CacheOK'
    BY <1>1, <1>2, <1>6 DEF KeyInv, TypeOK, CacheOK, Load
  <2>5. call' = [call EXCEPT ![r] = d]
    BY <1>6
  <2> QED
    BY <1>1, <1>4, <2>2, <2>3, <2>4, <2>5, FreeStep DEF Load
<1>7. ASSUME call' = [call EXCEPT ![r] = Ended(@, "error")], UNCHANGED cache PROVE KeyInv'
  <2> DEFINE d == Ended(call[r], "error")
  <2>1. call' = [call EXCEPT ![r] = d]
    BY <1>7
  <2>2. d \in Call /\ OpOK(r, d) /\ WriteOK(d) /\ SeenOK(d) /\ d.at \notin Locked
    BY <1>1, <1>2, EndedOK DEF SeenOK, Results
  <2> QED
    BY <1>1, <1>4, <1>7, <2>1, <2>2, CallStep DEF Load
<1> QED
  BY <1>5, <1>6, <1>7 DEF Load

LEMMA ReturnInv ==
  ASSUME KeyInv, NEW r \in Requests, Return(r)
  PROVE  KeyInv'
<1>1. r \in Callers /\ NoCall \in Call /\ issued' \subseteq Draws
  BY NoValues DEF KeyInv, TypeOK, Callers, Return
<1>2. /\ OpOK(r, NoCall) /\ WriteOK(NoCall) /\ SeenOK(NoCall)
      /\ NoCall.at \notin Locked /\ call[r].at \notin Locked
  BY DEF OpOK, WriteOK, SeenOK, NoCall, Writing, Locked, Return, Results
<1> QED
  BY <1>1, <1>2, CallStep DEF Return

LEMMA AdminDiesInv ==
  ASSUME KeyInv, NEW a \in Admins, AdminDies(a)
  PROVE  KeyInv'
<1> DEFINE d == Ended(call[a], "error")
<1>1. /\ a \in Callers /\ call[a] \in Call /\ issued' \subseteq Draws
      /\ call[a].seen >= call[a].from
      /\ (lock = a <=> call[a].at \in Locked)
  BY DEF KeyInv, TypeOK, LockHeld, SeenOK, Callers, AdminDies
<1>2. d \in Call /\ OpOK(a, d) /\ WriteOK(d) /\ SeenOK(d) /\ d.at \notin Locked
  BY <1>1, EndedOK DEF Results
<1>3. call' = [call EXCEPT ![a] = d]
  BY DEF AdminDies
<1>4. \/ lock' = lock /\ call[a].at \notin Locked
      \/ lock' = NoCaller /\ call[a].at \in Locked
  BY <1>1 DEF AdminDies, Unlock
<1> QED
  BY <1>1, <1>2, <1>3, <1>4, CallStep DEF AdminDies

LEMMA GatewayDiesInv ==
  ASSUME KeyInv, NEW g \in Gateways, GatewayDies(g)
  PROVE  KeyInv'
<1> DEFINE dead == {r \in Requests : GatewayOf[r] = g}
<1>1. /\ call' = [c \in Callers |-> IF c \in dead THEN NoCall ELSE call[c]]
      /\ cache' = [cache EXCEPT ![g] = NoCache]
      /\ lock' = IF lock \in dead THEN NoCaller ELSE lock
      /\ UNCHANGED <<file, issued>>
  BY DEF GatewayDies, Unlock
<1>2. TypeOK'
  BY <1>1, NoValues DEF KeyInv, TypeOK
<1>3. LockHeld'
  BY <1>1, KeyStoreAssumption DEF KeyInv, LockHeld, NoCall, Locked, Callers
<1>4. CacheOK'
  BY <1>1 DEF KeyInv, TypeOK, CacheOK, File, Info, NoCache, NoInfo, Missing
<1>5. KeysWithinLimit'
  BY <1>1 DEF KeyInv, KeysWithinLimit
<1>6. ASSUME NEW c \in Callers
      PROVE  (OpOK(c, call[c]) /\ WriteOK(call[c]) /\ SeenOK(call[c]))'
  <2>1. OpOK(c, call'[c]) /\ WriteOK(call'[c]) /\ SeenOK(call'[c])
    BY <1>1 DEF KeyInv, OpOK, WriteOK, SeenOK, NoCall, Writing, Locked
  <2> QED
    BY <1>1, <2>1 DEF OpOK, WriteOK, SeenOK
<1> QED
  BY <1>2, <1>3, <1>4, <1>5, <1>6 DEF KeyInv

LEMMA NextInv ==
  ASSUME KeyInv, [Next]_vars
  PROVE  KeyInv'
<1>1. ASSUME NEW c \in Callers, Step(c) PROVE KeyInv'
  BY <1>1, AcquireInv, GenerateInv, RotateInv, DeleteInv, UpgradeInv, WriteInv, DropCacheInv
     DEF Step
<1>2. ASSUME NEW a \in Admins, NEW n \in Names, NEW op \in {"generate", "rotate", "delete"},
             Start(a, op, n)
      PROVE  KeyInv'
  BY <1>2, StartInv
<1>3. ASSUME NEW r \in Requests, Stat(r) \/ Load(r) \/ Return(r) PROVE KeyInv'
  BY <1>3, StatInv, LoadInv, ReturnInv
<1>4. ASSUME NEW r \in Requests, NEW token \in Presented, Authorize(r, token) PROVE KeyInv'
  BY <1>4, AuthorizeInv
<1>5. ASSUME NEW a \in Admins, AdminDies(a) PROVE KeyInv'
  BY <1>5, AdminDiesInv
<1>6. ASSUME NEW g \in Gateways, GatewayDies(g) PROVE KeyInv'
  BY <1>6, GatewayDiesInv
<1>7. CASE UNCHANGED vars
  BY <1>7 DEF vars, KeyInv, TypeOK, LockHeld, CacheOK, KeysWithinLimit, OpOK, WriteOK, SeenOK
<1> QED
  BY <1>1, <1>2, <1>3, <1>4, <1>5, <1>6, <1>7 DEF Next

-----------------------------------------------------------------------------
(* The theorems. *)

(* Whatever the commands, requests, failures and deaths, the facts the     *)
(* theorems below rest on hold.                                            *)
THEOREM KeyInvariant == Spec => []KeyInv
BY InitInv, NextInv, PTL DEF Spec

(* The store's state keeps its type.                                       *)
THEOREM KeyTypeCorrect == Spec => []TypeOK
<1>1. KeyInv => TypeOK
  BY DEF KeyInv
<1> QED
  BY <1>1, KeyInvariant, PTL

(* The store never exceeds maxKeys, however many commands add keys at once.*)
THEOREM LimitIsKept == Spec => []KeysWithinLimit
<1>1. KeyInv => KeysWithinLimit
  BY DEF KeyInv
<1> QED
  BY <1>1, KeyInvariant, PTL

(* No request is decided on a version of the file that was gone when it    *)
(* began, though it takes no lock and the cache may be stale.              *)
THEOREM AlwaysDecidedOnCurrent == Spec => []DecidedOnCurrent
<1>1. KeyInv => DecidedOnCurrent
  BY DEF KeyInv, SeenOK, DecidedOnCurrent, Callers
<1> QED
  BY <1>1, KeyInvariant, PTL

(* Only the write of a caller changes the file, and it leaves it at "drop".*)
LEMMA OnlyWriteChanges ==
  ASSUME KeyInv, [Next]_vars, NEW n \in Names, file'.keys[n] # file.keys[n]
  PROVE  \E c \in Callers :
           /\ call[c].at = "write" /\ lock = c
           /\ file'.keys = call[c].keys
           /\ call' = [call EXCEPT ![c].at = "drop", ![c].keys = NoKeys]
           /\ call'[c].at = "drop"
<1>1. PICK c \in Callers : Write(c)
  BY DEF Next, Step, Acquire, GiveUp, Generate, Rotate, Delete, Upgrade, DropCache,
         Start, Stat, Load, Return, Authorize, AdminDies, GatewayDies, vars
<1>2. call[c].at = "write" /\ lock = c /\ call \in [Callers -> Call]
  BY <1>1 DEF Write, KeyInv, TypeOK, LockHeld, Locked
<1>3. /\ file'.keys = call[c].keys
      /\ call' = [call EXCEPT ![c].at = "drop", ![c].keys = NoKeys]
  BY <1>1 DEF Write, Written
<1>4. call'[c].at = "drop"
  BY <1>2, <1>3 DEF Call
<1> QED
  BY <1>2, <1>3, <1>4

(* Of two writers neither undoes what the other did.                       *)
THEOREM NoUpdateIsLost == Spec => NoLostUpdate
<1>1. ASSUME KeyInv, [Next]_vars, NEW n \in Names, file'.keys[n] # file.keys[n]
      PROVE  \E c \in Callers :
               /\ call[c].at = "write" /\ call'[c].at = "drop"
               /\ \/ call[c].name = n
                  \/ call[c].op = "authorize" /\ call[c].token.id = file.keys[n].id
  BY <1>1, OnlyWriteChanges, ZenonT(60) DEF KeyInv, WriteOK
<1>2. KeyInv /\ [Next]_vars =>
        [\A n \in Names : file'.keys[n] # file.keys[n] =>
           \E c \in Callers :
             /\ call[c].at = "write" /\ call'[c].at = "drop"
             /\ \/ call[c].name = n
                \/ call[c].op = "authorize" /\ call[c].token.id = file.keys[n].id]_vars
  BY <1>1
<1> QED
  BY <1>2, KeyInvariant, PTL DEF Spec, NoLostUpdate

(* A rotation or deletion in between wins over an upgrade.                 *)
THEOREM UpgradeAlwaysKeepsSecret == Spec => UpgradeKeepsSecret
<1>1. ASSUME KeyInv, [Next]_vars, NEW r \in Requests, NEW n \in Names,
             call[r].at = "write", file'.keys[n] # file.keys[n], call'[r].at = "drop"
      PROVE  /\ file'.keys[n].id = file.keys[n].id
             /\ file'.keys[n].secret = file.keys[n].secret
  <2>1. /\ r \in Callers /\ lock = r /\ call[r].op = "authorize" /\ WriteOK(call[r])
        /\ \A c \in Callers : lock = c => c = r
    BY <1>1, KeyStoreAssumption DEF KeyInv, LockHeld, OpOK, Locked, Writing, Callers, TypeOK, Call
  <2>2. file'.keys = call[r].keys
    BY <1>1, <2>1, OnlyWriteChanges
  <2> QED
    BY <1>1, <2>1, <2>2 DEF WriteOK
<1>2. KeyInv /\ [Next]_vars =>
        [\A r \in Requests, n \in Names :
           call[r].at = "write" /\ file'.keys[n] # file.keys[n] /\ call'[r].at = "drop" =>
             /\ file'.keys[n].id = file.keys[n].id
             /\ file'.keys[n].secret = file.keys[n].secret]_vars
  BY <1>1
<1> QED
  BY <1>2, KeyInvariant, PTL DEF Spec, UpgradeKeepsSecret
=============================================================================
