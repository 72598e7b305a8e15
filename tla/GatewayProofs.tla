--------------------------- MODULE GatewayProofs ---------------------------
(* Theorems about Gateway.                                                 *)
EXTENDS Gateway, SequenceTheorems, FiniteSetTheorems, TLAPS

LEMMA CountIsNat ==
    ASSUME NEW S, NEW s \in Seq(S), NEW c
    PROVE  Count(c, s) \in Nat
<1>1. IsFiniteSet(1 .. Len(s))
  BY FS_Interval
<1>2. {n \in DOMAIN s : s[n] = c} \subseteq 1 .. Len(s)
  OBVIOUS
<1>3. QED
  BY <1>1, <1>2, FS_Subset, FS_CardinalityType DEF Count

LEMMA ReleasedType ==
    ASSUME open \subseteq Conns, bound \in [Conns -> Accounts \cup {None}],
           handles \in [Conns -> Int],
           NEW gained \in Seq(Conns \cup {None}), NEW lost \in Seq(Conns \cup {None}),
           NEW shut, Released(gained, lost, shut)
    PROVE  /\ open' \subseteq Conns
           /\ bound' \in [Conns -> Accounts \cup {None}]
           /\ handles' \in [Conns -> Int]
<1>1. \A c \in Conns : Count(c, gained) \in Nat /\ Count(c, lost) \in Nat
  BY CountIsNat
<1>2. handles' \in [Conns -> Int]
  BY <1>1 DEF Released, Counted
<1>3. QED
  BY <1>2 DEF Released

LEMMA EntryFound ==
    ASSUME entries \in Seq(Entry), NEW i, Stored(i)
    PROVE  /\ Position(i) \in 1 .. Len(entries)
           /\ EntryOf(i) \in Entry
           /\ EntryOf(i).conn \in Conns
<1>1. Position(i) \in DOMAIN entries
  BY DEF Stored, Position
<1>2. Position(i) \in 1 .. Len(entries)
  BY <1>1
<1>3. EntryOf(i) \in Entry
  BY <1>1, ElementOfSeq DEF EntryOf
<1>4. QED
  BY <1>2, <1>3 DEF Entry

LEMMA WithoutType ==
    ASSUME entries \in Seq(Entry), idle \in 0 .. Len(entries), NEW i
    PROVE  /\ Without(i) \in Seq(Entry)
           /\ IdleWithout(i) \in 0 .. Len(Without(i))
<1>1. CASE ~Stored(i)
  BY <1>1 DEF Without, IdleWithout, IsIdle
<1>2. CASE Stored(i)
  <2> DEFINE p == Position(i)
  <2>1. p \in 1 .. Len(entries)
    BY <1>2, EntryFound
  <2> HIDE DEF p
  <2> DEFINE before == SubSeq(entries, 1, p - 1)
             after == SubSeq(entries, p + 1, Len(entries))
  <2>2. before \in Seq(Entry) /\ Len(before) = p - 1
    BY <2>1, SubSeqProperties
  <2>3. after \in Seq(Entry) /\ Len(after) = Len(entries) - p
    BY <2>1, SubSeqProperties
  <2>4. RemoveAt(entries, p) = before \o after
    BY DEF RemoveAt
  <2> HIDE DEF before, after
  <2>a. before \o after \in Seq(Entry) /\ Len(before \o after) = Len(before) + Len(after)
    BY <2>2, <2>3, ConcatProperties
  <2>b. Len(entries) \in Nat
    BY LenProperties
  <2>c. RemoveAt(entries, p) \in Seq(Entry) /\ Len(RemoveAt(entries, p)) = Len(entries) - 1
    BY <2>1, <2>2, <2>3, <2>4, <2>a, <2>b
  <2>5. Without(i) = RemoveAt(entries, p)
    BY <1>2 DEF Without, p
  <2>6. IdleWithout(i) = IF p <= idle THEN idle - 1 ELSE idle
    BY <1>2 DEF IdleWithout, IsIdle, p
  <2>7. QED
    BY <2>1, <2>b, <2>c, <2>5, <2>6
<1>3. QED
  BY <1>1, <1>2

LEMMA AppendType ==
    ASSUME entries \in Seq(Entry), idle \in 0 .. Len(entries), NEW i, NEW e \in Entry
    PROVE  /\ Append(Without(i), e) \in Seq(Entry)
           /\ IdleWithout(i) \in 0 .. Len(Append(Without(i), e))
BY WithoutType, AppendProperties

LEMMA TouchType ==
    ASSUME entries \in Seq(Entry), idle \in 0 .. Len(entries), NEW i, Stored(i), Touch(i)
    PROVE  /\ entries' \in Seq(Entry)
           /\ idle' \in 0 .. Len(entries')
BY EntryFound, AppendType DEF Touch

----------------------------------------------------------------------------
(* What a step has to show of the record r that it gives to task t, once   *)
(* keys only go from unissued to issued to revoked: the records of the     *)
(* other tasks need nothing.                                               *)
KeysAge ==
    \A k \in Keys : /\ keys'[k] = "unissued" => keys[k] = "unissued"
                    /\ keys'[k] \in Accounts => keys[k] \in {keys'[k], "unissued"}

Honest(r) ==
    r.id \in Keys =>
        /\ r.pc \notin {"creating", "revoking"} =>
              keys'[r.id] # "unissued" /\ (keys'[r.id] \in Accounts => r.whose = keys'[r.id])
        /\ r.granted \/ r.pc = "authenticated" => r.whose \in Accounts

LEMMA KeysStep ==
    ASSUME KeysInv, NEW t \in Tasks, NEW r \in Task, task' = [task EXCEPT ![t] = r],
           KeysAge, t \in Requests => Honest(r)
    PROVE  /\ task' \in [Tasks -> Task]
           /\ KeysOnlyDie'
           /\ RevokedKeysDie'
<1>1. task \in [Tasks -> Task]
  BY DEF KeysInv, TypeOK
<1>2. task' \in [Tasks -> Task]
  BY <1>1
<1>3. \A u \in Requests : u \in Tasks /\ task'[u] = IF u = t THEN r ELSE task[u]
  BY <1>1 DEF Tasks
<1>4. KeysOnlyDie'
  BY <1>1, <1>3 DEF KeysOnlyDie, KeysAge, Honest, KeysInv
<1>5. RevokedKeysDie'
  BY <1>1, <1>3 DEF RevokedKeysDie, Honest, KeysInv
<1>6. QED
  BY <1>2, <1>4, <1>5

LEMMA KeysAgeUnchanged == UNCHANGED keys => KeysAge
BY DEF KeysAge

(* A step that neither takes nor frees the lock. *)
LEMMA LockStep ==
    ASSUME KeysInv, NEW t \in Tasks, NEW r \in Task, task' = [task EXCEPT ![t] = r],
           lock' = lock, (r.pc = "loggingout") <=> (task[t].pc = "loggingout")
    PROVE  LockIsOfTheEnding'
<1>1. \A u \in Tasks : task'[u] = IF u = t THEN r ELSE task[u]
  BY DEF KeysInv, TypeOK
<1>2. QED
  BY <1>1 DEF KeysInv, LockIsOfTheEnding

(* The tasks' half of the invariant, for a step that changes one task, no  *)
(* key and not the lock.                                                   *)
LEMMA TaskStep ==
    ASSUME KeysInv, NEW t \in Tasks, NEW r \in Task, task' = [task EXCEPT ![t] = r],
           UNCHANGED <<keys, lock>>,
           (r.pc = "loggingout") <=> (task[t].pc = "loggingout"),
           t \in Requests => Honest(r)
    PROVE  /\ task' \in [Tasks -> Task]
           /\ LockIsOfTheEnding'
           /\ KeysOnlyDie'
           /\ RevokedKeysDie'
BY KeysStep, KeysAgeUnchanged, LockStep

(* A task that leaves its id, its key's standing and its grant alone stays *)
(* honest.                                                                 *)
LEMMA StaysHonest ==
    ASSUME KeysInv, NEW t, NEW r, UNCHANGED keys,
           r.id = task[t].id, r.whose = task[t].whose, r.granted = task[t].granted,
           task[t].pc \notin {"creating", "revoking"}, r.pc # "authenticated"
    PROVE  t \in Requests => Honest(r)
BY DEF KeysInv, KeysOnlyDie, RevokedKeysDie, Honest

LEMMA BegunFields ==
    ASSUME NEW p, NEW i, NEW c, NEW a
    PROVE  /\ Begun(p, i, c, a).pc = p
           /\ Begun(p, i, c, a).id = i
           /\ ~Begun(p, i, c, a).granted
           /\ Begun(p, i, c, a).whose = a
BY DEF Begun

LEMMA BegunType ==
    ASSUME NEW p \in {"free", "connecting", "reauth", "creating", "revoking"},
           NEW i \in Ids \cup {None}, NEW c \in Conns \cup {None},
           NEW a \in Accounts \cup {"revoked", None}, p = "reauth" => i \in Keys,
           p \in {"creating", "revoking"} => c \in Conns
    PROVE  Begun(p, i, c, a) \in Task
BY DEF Begun, Task

LEMMA FreeIsHonest == Free \in Task /\ Honest(Free) /\ Free.pc = "free"
BY BegunFields, BegunType, GatewayAssumption DEF Free, Honest, Ids

----------------------------------------------------------------------------
(* The type of the task that acts, and that the rest of the state is typed. *)
LEMMA TaskTyped ==
    ASSUME KeysInv, NEW t \in Tasks
    PROVE  task[t] \in Task
BY DEF KeysInv, TypeOK

LEMMA SeqsOfHandles ==
    /\ <<>> \in Seq(Conns \cup {None})
    /\ \A c \in Conns \cup {None} :
          /\ <<c>> \in Seq(Conns \cup {None})
          /\ \A d \in Conns \cup {None} : <<c, d>> \in Seq(Conns \cup {None})
OBVIOUS

LEMMA CountedType ==
    ASSUME KeysInv, NEW gained \in Seq(Conns \cup {None}), NEW lost \in Seq(Conns \cup {None})
    PROVE  Counted(gained, lost) \in [Conns -> Int]
<1>1. \A d \in Conns : Count(d, gained) \in Nat /\ Count(d, lost) \in Nat
  BY CountIsNat
<1>2. handles \in [Conns -> Int]
  BY DEF KeysInv, TypeOK
<1>3. QED
  BY <1>1, <1>2 DEF Counted

LEMMA ReleaseType ==
    ASSUME KeysInv, NEW gained \in Seq(Conns \cup {None}), NEW lost \in Seq(Conns \cup {None}),
           NEW shut, Released(gained, lost, shut)
    PROVE  /\ open' \subseteq Conns
           /\ bound' \in [Conns -> Accounts \cup {None}]
           /\ handles' \in [Conns -> Int]
BY ReleasedType DEF KeysInv, TypeOK

LEMMA StartLoginInv ==
    ASSUME KeysInv, NEW t \in Requests, StartLogin(t)
    PROVE  KeysInv'
<1> DEFINE r == [task[t] EXCEPT !.pc = "connecting"]
<1>1. t \in Tasks /\ task[t] \in Task
  BY TaskTyped DEF Tasks
<1>2. r \in Task
  BY <1>1 DEF Task
<1>3. task' = [task EXCEPT ![t] = r] /\ task[t].pc = "free"
  BY DEF StartLogin
<1>4. Honest(r)
  BY <1>1, <1>3, StaysHonest DEF StartLogin, Task
<1>5. r.pc = "connecting"
  BY <1>1 DEF Task
<1> HIDE DEF r
<1>6. UNCHANGED <<open, bound, handles, keys, entries, idle, lock, cut>>
  BY DEF StartLogin
<1>7. /\ task' \in [Tasks -> Task] /\ LockIsOfTheEnding'
      /\ KeysOnlyDie' /\ RevokedKeysDie'
  BY <1>1, <1>2, <1>3, <1>4, <1>5, <1>6, TaskStep
<1>8. QED
  BY <1>6, <1>7 DEF KeysInv, TypeOK

LEMMA BegunHonest ==
    ASSUME NEW k \in Keys, NEW p, NEW c, UNCHANGED keys, keys[k] # "unissued",
           p # "authenticated"
    PROVE  Honest(Begun(p, k, c, keys[k]))
BY BegunFields DEF Honest

LEMMA StartKeyInv ==
    ASSUME KeysInv, NEW t \in Requests, NEW k \in Keys, StartKey(t, k)
    PROVE  KeysInv'
<1> DEFINE hit == Begun("reauth", k, EntryOf(k).conn, keys[k])
           miss == Begun("connecting", k, None, keys[k])
<1>1. /\ t \in Tasks /\ task[t] \in Task /\ task[t].pc = "free"
      /\ entries \in Seq(Entry) /\ idle \in 0 .. Len(entries)
  BY TaskTyped DEF Tasks, StartKey, KeysInv, TypeOK
<1>2. /\ UNCHANGED <<open, bound, keys, lock, cut>>
      /\ keys[k] # "unissued" /\ keys[k] \in Accounts \cup {"revoked", None}
  BY DEF StartKey, KeysInv, TypeOK
<1>3. CASE Stored(k)
  <2>1. EntryOf(k).conn \in Conns
    BY <1>1, <1>3, EntryFound
  <2>2. hit \in Task /\ hit.pc = "reauth" /\ Honest(hit)
    <3>1. hit \in Task
      BY <2>1, <1>2, BegunType DEF Ids
    <3>2. hit.pc = "reauth"
      BY BegunFields
    <3>3. Honest(hit)
      BY <1>2, BegunHonest
    <3>4. QED
      BY <3>1, <3>2, <3>3
  <2>3. /\ task' = [task EXCEPT ![t] = hit]
        /\ handles' = Counted(<<EntryOf(k).conn>>, <<>>)
        /\ Touch(k)
    BY <1>3 DEF StartKey
  <2> HIDE DEF hit
  <2>4. /\ task' \in [Tasks -> Task] /\ LockIsOfTheEnding'
        /\ KeysOnlyDie' /\ RevokedKeysDie'
    BY <1>1, <1>2, <2>2, <2>3, TaskStep
  <2>5. entries' \in Seq(Entry) /\ idle' \in 0 .. Len(entries')
    BY <1>1, <1>3, <2>3, TouchType
  <2>6. handles' \in [Conns -> Int]
    BY <2>1, <2>3, CountedType, SeqsOfHandles
  <2>7. QED
    BY <1>2, <2>4, <2>5, <2>6 DEF KeysInv, TypeOK
<1>4. CASE ~Stored(k)
  <2>1. miss \in Task /\ miss.pc = "connecting" /\ Honest(miss)
    <3>1. miss \in Task
      BY <1>2, BegunType DEF Ids
    <3>2. miss.pc = "connecting"
      BY BegunFields
    <3>3. Honest(miss)
      BY <1>2, BegunHonest
    <3>4. QED
      BY <3>1, <3>2, <3>3
  <2>2. task' = [task EXCEPT ![t] = miss] /\ UNCHANGED <<handles, entries, idle>>
    BY <1>4 DEF StartKey
  <2> HIDE DEF miss
  <2>3. /\ task' \in [Tasks -> Task] /\ LockIsOfTheEnding'
        /\ KeysOnlyDie' /\ RevokedKeysDie'
    BY <1>1, <1>2, <2>1, <2>2, TaskStep
  <2>4. QED
    BY <1>2, <2>2, <2>3 DEF KeysInv, TypeOK
<1>5. QED
  BY <1>3, <1>4

LEMMA ConnectInv ==
    ASSUME KeysInv, NEW t \in Requests, Connect(t)
    PROVE  KeysInv'
<1>1. t \in Tasks /\ task[t] \in Task /\ task[t].pc = "connecting"
  BY TaskTyped DEF Tasks, Connect
<1>2. UNCHANGED <<bound, keys, entries, idle, lock, cut>>
  BY DEF Connect
<1>3. ASSUME NEW c \in Conns, open' = open \cup {c}, handles' = Counted(<<c>>, <<>>),
             task' = [task EXCEPT ![t].pc = "authenticating", ![t].conn = c]
      PROVE  KeysInv'
  <2> DEFINE r == [task[t] EXCEPT !.pc = "authenticating", !.conn = c]
  <2>1. r \in Task /\ r.pc = "authenticating"
    BY <1>1 DEF Task
  <2>2. task' = [task EXCEPT ![t] = r]
    BY <1>3
  <2>3. Honest(r)
    BY <1>1, <1>2, StaysHonest DEF Task
  <2> HIDE DEF r
  <2>4. /\ task' \in [Tasks -> Task] /\ LockIsOfTheEnding'
        /\ KeysOnlyDie' /\ RevokedKeysDie'
    BY <1>1, <1>2, <2>1, <2>2, <2>3, TaskStep
  <2>5. handles' \in [Conns -> Int]
    BY <1>3, CountedType, SeqsOfHandles
  <2>6. QED
    BY <1>2, <1>3, <2>4, <2>5 DEF KeysInv, TypeOK
<1>4. CASE task' = [task EXCEPT ![t] = Free] /\ UNCHANGED <<open, handles>>
  <2>1. /\ task' \in [Tasks -> Task] /\ LockIsOfTheEnding'
        /\ KeysOnlyDie' /\ RevokedKeysDie'
    BY <1>1, <1>2, <1>4, FreeIsHonest, TaskStep
  <2>2. QED
    BY <1>2, <1>4, <2>1 DEF KeysInv, TypeOK
<1>5. QED
  BY <1>3, <1>4 DEF Connect

(* A step of t whose task becomes r, when nothing but the task, the        *)
(* connections and the cut changes.                                        *)
LEMMA QuietStep ==
    ASSUME KeysInv, NEW t \in Tasks, NEW r \in Task, task' = [task EXCEPT ![t] = r],
           UNCHANGED <<keys, lock, entries, idle>>, cut' \subseteq Accounts,
           (r.pc = "loggingout") <=> (task[t].pc = "loggingout"),
           t \in Requests => Honest(r),
           open' \subseteq Conns, bound' \in [Conns -> Accounts \cup {None}],
           handles' \in [Conns -> Int]
    PROVE  KeysInv'
<1>1. /\ task' \in [Tasks -> Task] /\ LockIsOfTheEnding'
      /\ KeysOnlyDie' /\ RevokedKeysDie'
  BY TaskStep
<1>2. QED
  BY <1>1 DEF KeysInv, TypeOK

(* The server has just found the key's row: its owner was its owner when   *)
(* the request came in, because keys only go.                              *)
LEMMA ProvenKey ==
    ASSUME KeysInv, NEW t \in Requests, task[t].pc \notin {"creating", "revoking"},
           task[t].id \in Keys, NEW a \in Accounts, Authenticates(t, a)
    PROVE  /\ keys[task[t].id] \in Accounts /\ keys[task[t].id] # "unissued"
           /\ task[t].whose = keys[task[t].id]
<1>1. keys[task[t].id] \in Accounts
  BY GatewayAssumption DEF Authenticates
<1>2. QED
  BY <1>1 DEF KeysInv, KeysOnlyDie

LEMMA AuthenticateInv ==
    ASSUME KeysInv, NEW t \in Requests, Authenticate(t)
    PROVE  KeysInv'
<1>1. t \in Tasks /\ task[t] \in Task /\ task[t].pc = "authenticating"
  BY TaskTyped DEF Tasks, Authenticate
<1>2. UNCHANGED <<keys, lock, entries, idle>> /\ keys' = keys /\ cut' \subseteq Accounts
  BY DEF Authenticate, KeysInv, TypeOK
<1>3. ASSUME NEW a \in Accounts, Authenticates(t, a),
             bound' = [bound EXCEPT ![task[t].conn] = a],
             task' = [task EXCEPT ![t].pc = "authenticated"],
             UNCHANGED <<open, handles>>
      PROVE  KeysInv'
  <2> DEFINE r == [task[t] EXCEPT !.pc = "authenticated"]
  <2>1. r \in Task /\ r.pc = "authenticated" /\ r.id = task[t].id /\ r.whose = task[t].whose
    BY <1>1 DEF Task
  <2>2. task' = [task EXCEPT ![t] = r]
    BY <1>3
  <2> HIDE DEF r
  <2>3. t \in Requests => Honest(r)
    BY <1>1, <1>2, <1>3, <2>1, ProvenKey DEF Honest
  <2>4. /\ open' \subseteq Conns /\ handles' \in [Conns -> Int]
        /\ bound' \in [Conns -> Accounts \cup {None}]
    BY <1>3 DEF KeysInv, TypeOK
  <2>5. QED
    BY <1>1, <1>2, <2>1, <2>2, <2>3, <2>4, QuietStep
<1>4. CASE /\ task' = [task EXCEPT ![t] = Free]
           /\ Released(<<>>, <<task[t].conn>>, {task[t].conn})
  <2>1. <<>> \in Seq(Conns \cup {None}) /\ <<task[t].conn>> \in Seq(Conns \cup {None})
    BY <1>1, SeqsOfHandles DEF Task
  <2>2. /\ open' \subseteq Conns /\ handles' \in [Conns -> Int]
        /\ bound' \in [Conns -> Accounts \cup {None}]
    BY <1>4, <2>1, ReleaseType
  <2>3. QED
    BY <1>1, <1>2, <1>4, <2>2, FreeIsHonest, QuietStep
<1>5. QED
  BY <1>3, <1>4 DEF Authenticate

LEMMA ReauthenticateInv ==
    ASSUME KeysInv, NEW t \in Requests, Reauthenticate(t)
    PROVE  KeysInv'
<1>1. /\ t \in Tasks /\ task[t] \in Task /\ task[t].pc = "reauth"
      /\ bound \in [Conns -> Accounts \cup {None}]
  BY TaskTyped DEF Tasks, Reauthenticate, KeysInv, TypeOK
<1>2. /\ UNCHANGED <<keys, lock, entries, idle>> /\ keys' = keys /\ cut' \subseteq Accounts
      /\ open' \subseteq Conns /\ handles' \in [Conns -> Int]
  BY DEF Reauthenticate, KeysInv, TypeOK
<1>3. ASSUME NEW a \in Accounts, Authenticates(t, a),
             bound' = [bound EXCEPT ![task[t].conn] = a],
             task' = [task EXCEPT ![t].pc = "ending", ![t].granted = TRUE]
      PROVE  KeysInv'
  <2> DEFINE r == [task[t] EXCEPT !.pc = "ending", !.granted = TRUE]
  <2>1. r \in Task /\ r.pc = "ending" /\ r.id = task[t].id /\ r.whose = task[t].whose
    BY <1>1 DEF Task
  <2>2. task' = [task EXCEPT ![t] = r]
    BY <1>3
  <2> HIDE DEF r
  <2>5. Honest(r)
    BY <1>1, <1>2, <1>3, <2>1, ProvenKey DEF Honest
  <2>6. bound' \in [Conns -> Accounts \cup {None}]
    BY <1>1, <1>3
  <2>7. QED
    BY <1>1, <1>2, <2>1, <2>2, <2>5, <2>6, QuietStep
<1>4. CASE /\ task' = [task EXCEPT ![t].pc = "ending", ![t].doomed = {task[t].id}]
           /\ UNCHANGED bound
  <2> DEFINE r == [task[t] EXCEPT !.pc = "ending", !.doomed = {task[t].id}]
  <2>1. r \in Task /\ r.pc = "ending"
    BY <1>1, <1>4 DEF Task, Ids
  <2>2. task' = [task EXCEPT ![t] = r]
    BY <1>4
  <2>3. t \in Requests => Honest(r)
    BY <1>1, <1>2, StaysHonest DEF Task
  <2> HIDE DEF r
  <2>4. bound' \in [Conns -> Accounts \cup {None}]
    BY <1>1, <1>4
  <2>5. QED
    BY <1>1, <1>2, <2>1, <2>2, <2>3, <2>4, QuietStep
<1>5. QED
  BY <1>3, <1>4, GatewayAssumption DEF Reauthenticate

LEMMA OverCapType ==
    ASSUME NEW s \in Seq(Entry), NEW a, NEW i
    PROVE  over_cap(s, a, i) \subseteq Ids
<1>1. \A n \in DOMAIN s : s[n] \in Entry
  BY ElementOfSeq
<1>2. \A n \in DOMAIN s : s[n].id \in Ids
  BY <1>1 DEF Entry
<1>3. QED
  BY <1>2 DEF over_cap

LEMMA InsertInv ==
    ASSUME KeysInv, NEW t \in Requests, NEW i \in Ids, Insert(t, i)
    PROVE  KeysInv'
<1> DEFINE c == task[t].conn
           e == [id |-> i, conn |-> c, account |-> bound[c]]
           stored == Append(Without(i), e)
           gained == IF i \in Keys THEN <<c>> ELSE <<>>
           lost == IF Stored(i) THEN <<EntryOf(i).conn>> ELSE <<>>
<1>1. /\ t \in Tasks /\ task[t] \in Task /\ task[t].pc = "authenticated"
      /\ entries \in Seq(Entry) /\ idle \in 0 .. Len(entries)
      /\ bound \in [Conns -> Accounts \cup {None}]
  BY TaskTyped DEF Tasks, Insert, KeysInv, TypeOK
<1>2. c \in Conns /\ e \in Entry
  BY <1>1 DEF Task, Entry
<1>3. entries' = stored /\ idle' = IdleWithout(i)
  BY DEF Insert
<1>4. stored \in Seq(Entry) /\ IdleWithout(i) \in 0 .. Len(stored)
  BY <1>1, <1>2, AppendType
<1>5. over_cap(stored, bound[c], i) \subseteq Ids
  BY <1>4, OverCapType
<1>6. Released(gained, lost, {})
  BY DEF Insert
<1>7. gained \in Seq(Conns \cup {None}) /\ lost \in Seq(Conns \cup {None})
  BY <1>1, <1>2, EntryFound, SeqsOfHandles
<1>8. /\ open' \subseteq Conns /\ handles' \in [Conns -> Int]
      /\ bound' \in [Conns -> Accounts \cup {None}]
  <2> HIDE DEF gained, lost
  <2>1. QED
    BY <1>6, <1>7, ReleaseType
<1>9. /\ UNCHANGED <<keys, lock>> /\ keys' = keys
      /\ cut' \subseteq Accounts
  BY DEF Insert, KeysInv, TypeOK
<1> DEFINE h == IF i \in Keys THEN c ELSE None
           o == over_cap(stored, bound[c], i)
           r == [task[t] EXCEPT !.pc = "ending", !.conn = h, !.doomed = o, !.granted = TRUE]
<1>10. task' = [task EXCEPT ![t] = r]
  BY DEF Insert
<1>11. h \in Conns \cup {None}
  BY <1>2
<1> HIDE DEF h, o, stored, e, c
<1>12. r \in Task /\ r.pc = "ending" /\ r.id = task[t].id /\ r.whose = task[t].whose
  BY <1>1, <1>5, <1>11 DEF Task, o
<1>13. task[t].id \in Keys => /\ task[t].whose \in Accounts /\ keys[task[t].id] # "unissued"
                              /\ keys[task[t].id] \in Accounts
                                    => task[t].whose = keys[task[t].id]
  BY <1>1 DEF KeysInv, KeysOnlyDie
<1> HIDE DEF r
<1>14. Honest(r)
  BY <1>9, <1>12, <1>13 DEF Honest
<1>15. /\ task' \in [Tasks -> Task] /\ LockIsOfTheEnding'
       /\ KeysOnlyDie' /\ RevokedKeysDie'
  BY <1>1, <1>9, <1>10, <1>12, <1>14, TaskStep
<1>16. entries' \in Seq(Entry) /\ idle' \in 0 .. Len(entries')
  BY <1>3, <1>4
<1>17. QED
  BY <1>8, <1>9, <1>15, <1>16 DEF KeysInv, TypeOK

LEMMA ReadInv ==
    ASSUME KeysInv, NEW i \in Cookies, Read(i)
    PROVE  KeysInv'
<1>1. entries \in Seq(Entry) /\ idle \in 0 .. Len(entries) /\ Stored(i) /\ Touch(i)
  BY DEF KeysInv, TypeOK, Read
<1>2. entries' \in Seq(Entry) /\ idle' \in 0 .. Len(entries')
  BY <1>1, TouchType
<1>3. UNCHANGED <<open, bound, handles, keys, lock, task, cut>>
  BY DEF Read
<1>4. QED
  BY <1>2, <1>3 DEF KeysInv, TypeOK, LockIsOfTheEnding, KeysOnlyDie, RevokedKeysDie

LEMMA StartManageInv ==
    ASSUME KeysInv, NEW t \in Requests, NEW i \in Cookies, NEW k \in Keys, StartManage(t, i, k)
    PROVE  KeysInv'
<1>1. /\ t \in Tasks /\ task[t] \in Task /\ task[t].pc = "free"
      /\ entries \in Seq(Entry) /\ idle \in 0 .. Len(entries) /\ Stored(i) /\ Touch(i)
  BY TaskTyped DEF Tasks, StartManage, KeysInv, TypeOK
<1>2. UNCHANGED <<open, bound, keys, lock, cut>> /\ keys' = keys
  BY DEF StartManage
<1>3. EntryOf(i).conn \in Conns
  BY <1>1, EntryFound
<1>4. PICK call \in {"creating", "revoking"} :
        task' = [task EXCEPT ![t] = Begun(call, k, EntryOf(i).conn, None)]
  BY DEF StartManage
<1> DEFINE r == Begun(call, k, EntryOf(i).conn, None)
<1>5. r \in Task
  BY <1>3, BegunType DEF Ids
<1>6. r.pc = call /\ ~r.granted
  BY BegunFields
<1>7. task' = [task EXCEPT ![t] = r]
  BY <1>4
<1> HIDE DEF r
<1>8. Honest(r)
  BY <1>6 DEF Honest
<1>9. /\ task' \in [Tasks -> Task] /\ LockIsOfTheEnding'
      /\ KeysOnlyDie' /\ RevokedKeysDie'
  BY <1>1, <1>2, <1>5, <1>6, <1>7, <1>8, TaskStep
<1>10. entries' \in Seq(Entry) /\ idle' \in 0 .. Len(entries')
  BY <1>1, TouchType
<1>11. handles' \in [Conns -> Int]
  BY <1>3, CountedType, SeqsOfHandles DEF StartManage
<1>12. QED
  BY <1>2, <1>9, <1>10, <1>11 DEF KeysInv, TypeOK

(* A reducer on the keys: whatever it does to them, the request has done   *)
(* with its key.                                                           *)
LEMMA ManageInv ==
    ASSUME KeysInv, NEW t \in Requests, task[t].pc \in {"creating", "revoking"},
           task' = [task EXCEPT ![t].pc = "ending", ![t].id = None],
           KeysAge, keys' \in [Keys -> Accounts \cup {"unissued", "revoked"}],
           UNCHANGED <<open, bound, handles, entries, idle, lock, cut>>
    PROVE  KeysInv'
<1> DEFINE r == [task[t] EXCEPT !.pc = "ending", !.id = None]
<1>1. t \in Tasks /\ task[t] \in Task
  BY TaskTyped DEF Tasks
<1>2. r \in Task /\ r.pc = "ending" /\ r.id = None
  BY <1>1 DEF Task
<1>3. task' = [task EXCEPT ![t] = r]
  OBVIOUS
<1> HIDE DEF r
<1>4. Honest(r)
  BY <1>2, GatewayAssumption DEF Honest
<1>5. /\ task' \in [Tasks -> Task] /\ KeysOnlyDie' /\ RevokedKeysDie'
  BY <1>1, <1>2, <1>3, <1>4, KeysStep
<1>6. LockIsOfTheEnding'
  BY <1>1, <1>2, <1>3, LockStep
<1>7. QED
  BY <1>5, <1>6 DEF KeysInv, TypeOK

LEMMA CreateKeyInv ==
    ASSUME KeysInv, NEW t \in Requests, CreateKey(t)
    PROVE  KeysInv'
<1> DEFINE k == task[t].id
           a == bound[task[t].conn]
<1>1. /\ task[t].pc = "creating"
      /\ task' = [task EXCEPT ![t].pc = "ending", ![t].id = None]
      /\ UNCHANGED <<open, bound, handles, entries, idle, lock, cut>>
  BY DEF CreateKey
<1>2. /\ keys \in [Keys -> Accounts \cup {"unissued", "revoked"}]
      /\ a \in Accounts \cup {None}
  BY <1>1, TaskTyped DEF KeysInv, TypeOK, Tasks, Task
<1>3. \/ keys' = keys
      \/ keys' = [keys EXCEPT ![k] = a] /\ keys[k] = "unissued" /\ a \in Accounts
  BY <1>2 DEF CreateKey
<1>4. keys' \in [Keys -> Accounts \cup {"unissued", "revoked"}] /\ KeysAge
  <2> HIDE DEF k, a
  <2>1. QED
    BY <1>2, <1>3, GatewayAssumption DEF KeysAge
<1>5. QED
  BY <1>1, <1>4, ManageInv

LEMMA RevokeKeyInv ==
    ASSUME KeysInv, NEW t \in Requests, RevokeKey(t)
    PROVE  KeysInv'
<1> DEFINE k == task[t].id
<1>1. /\ task[t].pc = "revoking"
      /\ task' = [task EXCEPT ![t].pc = "ending", ![t].id = None]
      /\ UNCHANGED <<open, bound, handles, entries, idle, lock, cut>>
  BY DEF RevokeKey
<1>2. keys \in [Keys -> Accounts \cup {"unissued", "revoked"}]
  BY DEF KeysInv, TypeOK
<1>3. keys' = keys \/ keys' = [keys EXCEPT ![k] = "revoked"]
  BY DEF RevokeKey
<1>4. keys' \in [Keys -> Accounts \cup {"unissued", "revoked"}] /\ KeysAge
  <2> HIDE DEF k
  <2>1. QED
    BY <1>2, <1>3, GatewayAssumption DEF KeysAge
<1>5. QED
  BY <1>1, <1>4, ManageInv

----------------------------------------------------------------------------
(* The end of sessions, which requests and the reaper share. *)

LEMMA StartLogoutInv ==
    ASSUME KeysInv, NEW t \in Requests, NEW i \in Cookies, StartLogout(t, i)
    PROVE  KeysInv'
<1> DEFINE r == [task[t] EXCEPT !.pc = "ending", !.doomed = {i}]
<1>1. t \in Tasks /\ task[t] \in Task /\ task[t].pc = "free"
  BY TaskTyped DEF Tasks, StartLogout
<1>2. UNCHANGED <<open, bound, handles, keys, entries, idle, lock, cut>> /\ keys' = keys
  BY DEF StartLogout
<1>3. r \in Task /\ r.pc = "ending"
  BY <1>1 DEF Task, Ids
<1>4. task' = [task EXCEPT ![t] = r]
  BY DEF StartLogout
<1>5. t \in Requests => Honest(r)
  BY <1>1, <1>2, StaysHonest DEF Task
<1> HIDE DEF r
<1>6. /\ open' \subseteq Conns /\ handles' \in [Conns -> Int] /\ cut' \subseteq Accounts
      /\ bound' \in [Conns -> Accounts \cup {None}]
  BY <1>2 DEF KeysInv, TypeOK
<1>7. QED
  BY <1>1, <1>2, <1>3, <1>4, <1>5, <1>6, QuietStep

LEMMA BeginEndInv ==
    ASSUME KeysInv, NEW t \in Tasks, BeginEnd(t)
    PROVE  KeysInv'
<1>1. /\ task[t] \in Task /\ task[t].pc = "ending" /\ lock = None
      /\ entries \in Seq(Entry) /\ idle \in 0 .. Len(entries)
  BY TaskTyped DEF BeginEnd, KeysInv, TypeOK
<1>2. UNCHANGED <<open, bound, handles, keys, cut>> /\ keys' = keys
  BY DEF BeginEnd
<1>3. ASSUME NEW i \in task[t].doomed, Stored(i),
             task' = [task EXCEPT ![t].pc = "loggingout", ![t].ended = EntryOf(i).conn,
                                  ![t].doomed = @ \ {i}],
             entries' = Without(i), idle' = IdleWithout(i), lock' = t
      PROVE  KeysInv'
  <2> DEFINE c == EntryOf(i).conn
             r == [task[t] EXCEPT !.pc = "loggingout", !.ended = c, !.doomed = @ \ {i}]
  <2>1. c \in Conns
    BY <1>1, <1>3, EntryFound
  <2>2. task' = [task EXCEPT ![t] = r]
    BY <1>3
  <2> HIDE DEF c
  <2>3. r \in Task /\ r.pc = "loggingout"
    BY <1>1, <2>1 DEF Task
  <2>4. t \in Requests => Honest(r)
    BY <1>1, <1>2, StaysHonest DEF Task
  <2> HIDE DEF r
  <2>5. /\ task' \in [Tasks -> Task] /\ KeysOnlyDie' /\ RevokedKeysDie'
    BY <1>2, <2>2, <2>3, <2>4, KeysAgeUnchanged, KeysStep
  <2>6. \A u \in Tasks : task'[u] = IF u = t THEN r ELSE task[u]
    BY <2>2 DEF KeysInv, TypeOK
  <2>7. LockIsOfTheEnding'
    <3>1. LockIsOfTheEnding
      BY DEF KeysInv
    <3>2. None \notin Tasks
      BY GatewayAssumption DEF Tasks
    <3>3. \A u \in Tasks : task[u].pc # "loggingout"
      BY <1>1, <3>1, <3>2 DEF LockIsOfTheEnding
    <3>4. \A u \in Tasks : lock' = u <=> u = t
      BY <1>3
    <3>5. QED
      BY <2>3, <2>6, <3>3, <3>4 DEF LockIsOfTheEnding
  <2>8. entries' \in Seq(Entry) /\ idle' \in 0 .. Len(entries')
    BY <1>1, <1>3, WithoutType
  <2>9. QED
    BY <1>2, <1>3, <2>5, <2>7, <2>8 DEF KeysInv, TypeOK
<1>4. ASSUME NEW i \in task[t].doomed, task' = [task EXCEPT ![t].doomed = @ \ {i}],
             UNCHANGED <<entries, idle, lock>>
      PROVE  KeysInv'
  <2> DEFINE r == [task[t] EXCEPT !.doomed = @ \ {i}]
  <2>1. task' = [task EXCEPT ![t] = r]
    BY <1>4
  <2>2. r \in Task /\ r.pc = "ending"
    BY <1>1 DEF Task
  <2>3. t \in Requests => Honest(r)
    BY <1>1, <1>2, StaysHonest DEF Task
  <2> HIDE DEF r
  <2>4. /\ open' \subseteq Conns /\ handles' \in [Conns -> Int] /\ cut' \subseteq Accounts
        /\ bound' \in [Conns -> Accounts \cup {None}]
    BY <1>2 DEF KeysInv, TypeOK
  <2>5. QED
    BY <1>1, <1>2, <1>4, <2>1, <2>2, <2>3, <2>4, QuietStep
<1>5. QED
  BY <1>3, <1>4 DEF BeginEnd

LEMMA LogoutInv ==
    ASSUME KeysInv, NEW t \in Tasks, Logout(t)
    PROVE  KeysInv'
<1>1. bound' \in [Conns -> Accounts \cup {None}]
  BY DEF Logout, KeysInv, TypeOK
<1>2. UNCHANGED <<open, handles, keys, entries, idle, lock, task, cut>>
  BY DEF Logout
<1>3. QED
  BY <1>1, <1>2 DEF KeysInv, TypeOK, LockIsOfTheEnding, KeysOnlyDie, RevokedKeysDie

(* The task that waits for a logout frees the lock.                        *)
LEMMA UnlockStep ==
    ASSUME KeysInv, NEW t \in Tasks, NEW r \in Task, task' = [task EXCEPT ![t] = r],
           r.pc # "loggingout", lock' = IF lock = t THEN None ELSE lock
    PROVE  LockIsOfTheEnding' /\ lock' \in Tasks \cup {None}
<1>1. \A u \in Tasks : task'[u] = IF u = t THEN r ELSE task[u]
  BY DEF KeysInv, TypeOK
<1>2. None \notin Tasks
  BY GatewayAssumption DEF Tasks
<1>3. LockIsOfTheEnding /\ lock \in Tasks \cup {None}
  BY DEF KeysInv, TypeOK
<1>4. LockIsOfTheEnding'
  BY <1>1, <1>2, <1>3 DEF LockIsOfTheEnding
<1>5. QED
  BY <1>3, <1>4

LEMMA FinishEndInv ==
    ASSUME KeysInv, NEW t \in Tasks, FinishEnd(t)
    PROVE  KeysInv'
<1> DEFINE r == [task[t] EXCEPT !.pc = "ending", !.ended = None]
<1>1. task[t] \in Task /\ task[t].pc = "loggingout" /\ lock = t
  BY TaskTyped DEF FinishEnd, KeysInv, LockIsOfTheEnding
<1>2. UNCHANGED <<keys, entries, idle, cut>> /\ keys' = keys /\ lock' = None
  BY DEF FinishEnd
<1>3. task' = [task EXCEPT ![t] = r]
  BY DEF FinishEnd
<1>4. r \in Task /\ r.pc = "ending"
  BY <1>1 DEF Task
<1>5. t \in Requests => Honest(r)
  BY <1>1, <1>2, StaysHonest DEF Task
<1> HIDE DEF r
<1>6. /\ task' \in [Tasks -> Task] /\ KeysOnlyDie' /\ RevokedKeysDie'
  BY <1>2, <1>3, <1>4, <1>5, KeysAgeUnchanged, KeysStep
<1>7. LockIsOfTheEnding' /\ lock' \in Tasks \cup {None}
  BY <1>1, <1>2, <1>3, <1>4, UnlockStep
<1>8. <<>> \in Seq(Conns \cup {None}) /\ <<task[t].ended>> \in Seq(Conns \cup {None})
  BY <1>1, SeqsOfHandles DEF Task
<1>9. Released(<<>>, <<task[t].ended>>, {task[t].ended})
  BY DEF FinishEnd
<1>10. /\ open' \subseteq Conns /\ handles' \in [Conns -> Int]
       /\ bound' \in [Conns -> Accounts \cup {None}]
  BY <1>8, <1>9, ReleaseType
<1>11. QED
  BY <1>2, <1>6, <1>7, <1>10 DEF KeysInv, TypeOK

LEMMA AnswerInv ==
    ASSUME KeysInv, NEW t \in Tasks, Answer(t)
    PROVE  KeysInv'
<1>1. task[t] \in Task /\ task[t].pc = "ending"
  BY TaskTyped DEF Answer
<1>2. UNCHANGED <<keys, lock, entries, idle>> /\ cut' \subseteq Accounts
  BY DEF Answer, KeysInv, TypeOK
<1>3. task' = [task EXCEPT ![t] = Free] /\ Released(<<>>, <<task[t].conn>>, {})
  BY DEF Answer
<1>4. <<>> \in Seq(Conns \cup {None}) /\ <<task[t].conn>> \in Seq(Conns \cup {None})
  BY <1>1, SeqsOfHandles DEF Task
<1>5. /\ open' \subseteq Conns /\ handles' \in [Conns -> Int]
      /\ bound' \in [Conns -> Accounts \cup {None}]
  BY <1>3, <1>4, ReleaseType
<1>6. QED
  BY <1>1, <1>2, <1>3, <1>5, FreeIsHonest, QuietStep

LEMMA TimeoutInv ==
    ASSUME KeysInv, NEW t \in Requests, Timeout(t)
    PROVE  KeysInv'
<1>1. t \in Tasks /\ task[t] \in Task
  BY TaskTyped DEF Tasks
<1>2. UNCHANGED <<keys, entries, idle>> /\ keys' = keys
  BY DEF Timeout
<1>3. cut' \subseteq Accounts
  BY DEF Timeout, KeysInv, TypeOK
<1>4. /\ task' = [task EXCEPT ![t] = Free]
      /\ lock' = IF lock = t THEN None ELSE lock
      /\ Released(<<>>, <<task[t].conn, task[t].ended>>, {})
  BY DEF Timeout
<1>5. /\ task' \in [Tasks -> Task] /\ KeysOnlyDie' /\ RevokedKeysDie'
  BY <1>1, <1>2, <1>4, FreeIsHonest, KeysAgeUnchanged, KeysStep
<1>6. LockIsOfTheEnding' /\ lock' \in Tasks \cup {None}
  BY <1>1, <1>4, FreeIsHonest, UnlockStep
<1>7. /\ <<>> \in Seq(Conns \cup {None})
      /\ <<task[t].conn, task[t].ended>> \in Seq(Conns \cup {None})
  BY <1>1, SeqsOfHandles DEF Task
<1>8. /\ open' \subseteq Conns /\ handles' \in [Conns -> Int]
      /\ bound' \in [Conns -> Accounts \cup {None}]
  BY <1>4, <1>7, ReleaseType
<1>9. QED
  BY <1>2, <1>3, <1>5, <1>6, <1>8 DEF KeysInv, TypeOK

LEMMA ReapInv ==
    ASSUME KeysInv, Reap
    PROVE  KeysInv'
<1> DEFINE d == {entries[n].id : n \in 1 .. idle}
           r == [task[Reaper] EXCEPT !.pc = "ending", !.doomed = d]
<1>1. /\ Reaper \in Tasks /\ task[Reaper] \in Task /\ task[Reaper].pc = "free"
      /\ entries \in Seq(Entry) /\ idle \in 0 .. Len(entries)
  BY TaskTyped DEF Tasks, Reap, KeysInv, TypeOK
<1>2. UNCHANGED <<open, bound, handles, keys, entries, idle, lock, cut>>
  BY DEF Reap
<1>3. task' = [task EXCEPT ![Reaper] = r]
  BY DEF Reap
<1>4. \A n \in 1 .. idle : entries[n] \in Entry
  BY <1>1, ElementOfSeq
<1>5. d \subseteq Ids
  BY <1>4 DEF Entry
<1> HIDE DEF d
<1>6. r \in Task /\ r.pc = "ending"
  BY <1>1, <1>5 DEF Task
<1> HIDE DEF r
<1>7. Reaper \notin Requests
  BY GatewayAssumption
<1>8. /\ open' \subseteq Conns /\ handles' \in [Conns -> Int] /\ cut' \subseteq Accounts
      /\ bound' \in [Conns -> Accounts \cup {None}]
  BY <1>2 DEF KeysInv, TypeOK
<1>9. QED
  BY <1>1, <1>2, <1>3, <1>6, <1>7, <1>8, QuietStep

LEMMA ElapseInv ==
    ASSUME KeysInv, Elapse
    PROVE  KeysInv'
<1>1. UNCHANGED <<open, bound, handles, keys, entries, lock, task, cut>>
  BY DEF Elapse
<1>2. idle \in 0 .. Len(entries) /\ Len(entries) \in Nat
  BY LenProperties DEF KeysInv, TypeOK
<1>3. idle' \in 0 .. Len(entries)
  BY <1>2 DEF Elapse
<1>4. QED
  BY <1>1, <1>3 DEF KeysInv, TypeOK, LockIsOfTheEnding, KeysOnlyDie, RevokedKeysDie

LEMMA DropInv ==
    ASSUME KeysInv, NEW c \in Conns, Drop(c)
    PROVE  KeysInv'
<1>1. open' \subseteq Conns /\ bound' \in [Conns -> Accounts \cup {None}]
  BY DEF Drop, KeysInv, TypeOK
<1>2. UNCHANGED <<handles, keys, entries, idle, lock, task, cut>>
  BY DEF Drop
<1>3. QED
  BY <1>1, <1>2 DEF KeysInv, TypeOK, LockIsOfTheEnding, KeysOnlyDie, RevokedKeysDie

----------------------------------------------------------------------------
LEMMA InitInv == Init => KeysInv
<1> SUFFICES ASSUME Init PROVE KeysInv
  OBVIOUS
<1>1. task = [t \in Tasks |-> Free] /\ Free \in Task /\ Free.pc = "free" /\ Free.id = None
      /\ ~Free.granted
  BY FreeIsHonest, BegunFields DEF Init, Free
<1>2. \A t \in Tasks : task[t] = Free
  BY <1>1
<1>3. entries = <<>> /\ idle = 0 /\ lock = None /\ open = {} /\ cut = {}
  BY DEF Init
<1>4. <<>> \in Seq(Entry) /\ Len(<<>>) = 0
  OBVIOUS
<1>5. TypeOK
  BY <1>1, <1>3, <1>4 DEF TypeOK, Init
<1>6. LockIsOfTheEnding
  BY <1>1, <1>2, <1>3, GatewayAssumption DEF LockIsOfTheEnding, Tasks
<1>7. KeysOnlyDie /\ RevokedKeysDie
  BY <1>1, <1>2, GatewayAssumption DEF KeysOnlyDie, RevokedKeysDie, Tasks
<1>8. QED
  BY <1>5, <1>6, <1>7 DEF KeysInv

LEMMA EndingInv ==
    ASSUME KeysInv, NEW t \in Tasks, Ending(t)
    PROVE  KeysInv'
BY BeginEndInv, LogoutInv, FinishEndInv, AnswerInv DEF Ending

LEMMA NextInv == KeysInv /\ [Next]_vars => KeysInv'
<1> SUFFICES ASSUME KeysInv, [Next]_vars PROVE KeysInv'
  OBVIOUS
<1>1. CASE UNCHANGED vars
  BY <1>1 DEF vars, KeysInv, TypeOK, LockIsOfTheEnding, KeysOnlyDie, RevokedKeysDie
<1>2. ASSUME NEW t \in Requests, Arrival(t) PROVE KeysInv'
  BY <1>2, StartLoginInv, StartKeyInv, StartManageInv, StartLogoutInv DEF Arrival
<1>3. ASSUME NEW t \in Requests, Handling(t) PROVE KeysInv'
  <2>1. t \in Tasks
    BY DEF Tasks
  <2>2. QED
    BY <1>3, <2>1, ConnectInv, AuthenticateInv, ReauthenticateInv, InsertInv, CreateKeyInv,
       RevokeKeyInv, EndingInv DEF Handling
<1>4. ASSUME NEW t \in Requests, Timeout(t) PROVE KeysInv'
  BY <1>4, TimeoutInv
<1>5. ASSUME NEW i \in Cookies, Read(i) PROVE KeysInv'
  BY <1>5, ReadInv
<1>6. CASE Reap
  BY <1>6, ReapInv
<1>7. CASE Ending(Reaper)
  BY <1>7, EndingInv DEF Tasks
<1>8. CASE Elapse
  BY <1>8, ElapseInv
<1>9. ASSUME NEW c \in Conns, Drop(c) PROVE KeysInv'
  BY <1>9, DropInv
<1>10. QED
  BY <1>1, <1>2, <1>3, <1>4, <1>5, <1>6, <1>7, <1>8, <1>9 DEF Next

----------------------------------------------------------------------------
(* Where the entries are once one is taken out of the store.               *)
LEMMA WithoutEntries ==
    ASSUME entries \in Seq(Entry), NEW i, Stored(i)
    PROVE  LET p == Position(i)
               skip == [n \in 1 .. (Len(entries) - 1) |-> IF n < p THEN n ELSE n + 1]
           IN  /\ p \in 1 .. Len(entries) /\ entries[p].id = i /\ entries[p] \in Entry
               /\ Without(i) \in Seq(Entry) /\ Len(Without(i)) = Len(entries) - 1
               /\ \A n \in 1 .. (Len(entries) - 1) :
                     skip[n] \in 1 .. Len(entries) /\ Without(i)[n] = entries[skip[n]]
<1> DEFINE p == Position(i)
           skip == [n \in 1 .. (Len(entries) - 1) |-> IF n < p THEN n ELSE n + 1]
           before == SubSeq(entries, 1, p - 1)
           after == SubSeq(entries, p + 1, Len(entries))
<1>1. p \in 1 .. Len(entries) /\ entries[p].id = i
  BY DEF Stored, Position
<1>2. \A n \in 1 .. Len(entries) : entries[n] \in Entry
  BY ElementOfSeq
<1>3. Len(entries) \in Nat
  BY LenProperties
<1> HIDE DEF p
<1>4. /\ before \in Seq(Entry) /\ Len(before) = p - 1
      /\ \A n \in 1 .. (p - 1) : before[n] = entries[n]
  <2>1. \A n \in 1 .. (p - 1) : entries[n] \in Entry
    BY <1>1, <1>2, <1>3
  <2>2. p - 1 \in Int
    BY <1>1, <1>3
  <2> DEFINE q == p - 1
  <2> HIDE DEF q
  <2>3. /\ SubSeq(entries, 1, q) \in Seq(Entry)
        /\ Len(SubSeq(entries, 1, q)) = IF 1 <= q THEN q - 1 + 1 ELSE 0
        /\ \A n \in 1 .. q - 1 + 1 : SubSeq(entries, 1, q)[n] = entries[1 + n - 1]
    BY <2>1, <2>2, SubSeqProperties DEF q
  <2>4. QED
    BY <2>3, <1>1, <1>3 DEF q
<1>5. /\ after \in Seq(Entry) /\ Len(after) = Len(entries) - p
      /\ \A n \in 1 .. (Len(entries) - p) : after[n] = entries[p + n]
  <2>1. \A n \in p + 1 .. Len(entries) : entries[n] \in Entry
    BY <1>1, <1>2, <1>3
  <2> DEFINE q == p + 1
  <2>2. q \in Int /\ Len(entries) \in Int
    BY <1>1, <1>3
  <2> HIDE DEF q
  <2>3. /\ SubSeq(entries, q, Len(entries)) \in Seq(Entry)
        /\ Len(SubSeq(entries, q, Len(entries)))
              = IF q <= Len(entries) THEN Len(entries) - q + 1 ELSE 0
        /\ \A n \in 1 .. Len(entries) - q + 1 :
              SubSeq(entries, q, Len(entries))[n] = entries[q + n - 1]
    BY <2>1, <2>2, SubSeqProperties DEF q
  <2>4. QED
    BY <2>3, <1>1, <1>3 DEF q
<1>6. Without(i) = before \o after
  BY DEF Without, RemoveAt, p
<1> HIDE DEF before, after
<1>7. /\ Without(i) \in Seq(Entry) /\ Len(Without(i)) = Len(before) + Len(after)
      /\ \A n \in 1 .. Len(before) + Len(after) :
            Without(i)[n] = IF n <= Len(before) THEN before[n] ELSE after[n - Len(before)]
  <2>1. before \in Seq(Entry) /\ after \in Seq(Entry)
    BY <1>4, <1>5
  <2>2. QED
    BY <2>1, <1>6, ConcatProperties
<1>8. Len(Without(i)) = Len(entries) - 1
  BY <1>1, <1>3, <1>4, <1>5, <1>7
<1>9. ASSUME NEW n \in 1 .. (Len(entries) - 1)
      PROVE  skip[n] \in 1 .. Len(entries) /\ Without(i)[n] = entries[skip[n]]
  <2>1. skip[n] \in 1 .. Len(entries)
    BY <1>1, <1>3
  <2>2. CASE n < p
    <3>1. n <= Len(before) /\ n \in 1 .. Len(before) + Len(after)
      BY <1>1, <1>3, <1>4, <1>5, <2>2
    <3>2. Without(i)[n] = before[n]
      BY <1>7, <3>1
    <3>3. before[n] = entries[n]
      BY <1>1, <1>3, <1>4, <2>2
    <3>4. QED
      BY <2>1, <2>2, <3>2, <3>3
  <2>3. CASE ~(n < p)
    <3>1. ~(n <= Len(before)) /\ n \in 1 .. Len(before) + Len(after)
      BY <1>1, <1>3, <1>4, <1>5, <2>3
    <3>2. Without(i)[n] = after[n - Len(before)]
      BY <1>7, <3>1
    <3>3. n - Len(before) \in 1 .. (Len(entries) - p) /\ p + (n - Len(before)) = n + 1
      BY <1>1, <1>3, <1>4, <2>3
    <3>4. after[n - Len(before)] = entries[n + 1]
      BY <1>5, <3>3
    <3>5. QED
      BY <2>1, <2>3, <3>2, <3>4
  <2>4. QED
    BY <2>2, <2>3
<1>10. QED
  BY <1>1, <1>2, <1>7, <1>8, <1>9 DEF p

(* How many entries hold a handle of c.                                    *)
Places(s, c) == {n \in DOMAIN s : s[n].conn = c}
Held(s, c) == Cardinality(Places(s, c))
One(x, c) == IF x = c THEN 1 ELSE 0

LEMMA PlacesFinite ==
    ASSUME NEW s \in Seq(Entry), NEW c
    PROVE  IsFiniteSet(Places(s, c)) /\ Held(s, c) \in Nat
<1>1. Len(s) \in Nat /\ DOMAIN s = 1 .. Len(s)
  BY LenProperties
<1>2. IsFiniteSet(1 .. Len(s))
  BY <1>1, FS_Interval
<1>3. Places(s, c) \subseteq 1 .. Len(s)
  BY <1>1 DEF Places
<1>4. QED
  BY <1>2, <1>3, FS_Subset, FS_CardinalityType DEF Held

LEMMA HeldWithout ==
    ASSUME entries \in Seq(Entry), NEW i, NEW c
    PROVE  Held(Without(i), c)
              = Held(entries, c) - (IF Stored(i) THEN One(EntryOf(i).conn, c) ELSE 0)
<1>1. CASE ~Stored(i)
  BY <1>1, PlacesFinite DEF Without
<1>2. CASE Stored(i)
  <2> DEFINE p == Position(i)
             L == Len(entries)
             P == Places(entries, c)
             Q == Places(Without(i), c)
             skip == [n \in 1 .. (L - 1) |-> IF n < p THEN n ELSE n + 1]
             f == [n \in Q |-> skip[n]]
  <2>1. /\ p \in 1 .. L
        /\ Without(i) \in Seq(Entry) /\ Len(Without(i)) = L - 1
        /\ \A n \in 1 .. (L - 1) :
              skip[n] \in 1 .. L /\ Without(i)[n] = entries[skip[n]]
    BY <1>2, WithoutEntries
  <2>2. L \in Nat /\ DOMAIN entries = 1 .. L /\ DOMAIN Without(i) = 1 .. (L - 1)
    BY <2>1, LenProperties
  <2>3. f \in [Q -> P \ {p}]
    <3>1. ASSUME NEW n \in Q PROVE skip[n] \in P \ {p}
      <4>1. n \in 1 .. (L - 1) /\ Without(i)[n].conn = c
        BY <2>2 DEF Places
      <4>2. skip[n] # p
        BY <2>1, <2>2, <4>1
      <4>3. QED
        BY <2>1, <2>2, <4>1, <4>2 DEF Places
    <3> HIDE DEF skip
    <3>2. QED
      BY <3>1
  <2>4. \A m, n \in Q : f[m] = f[n] => m = n
    BY <2>1, <2>2 DEF Places
  <2>5. ASSUME NEW m \in P \ {p} PROVE \E n \in Q : f[n] = m
    <3> DEFINE n == IF m < p THEN m ELSE m - 1
    <3>1. m \in 1 .. L /\ entries[m].conn = c /\ m # p
      BY <2>2 DEF Places
    <3>2. n \in 1 .. (L - 1) /\ skip[n] = m
      BY <2>1, <2>2, <3>1
    <3> HIDE DEF n, skip
    <3>3. n \in Q
      BY <2>1, <2>2, <3>1, <3>2 DEF Places
    <3>4. QED
      BY <3>2, <3>3
  <2> HIDE DEF f, P, Q, skip
  <2>6. f \in Bijection(Q, P \ {p})
    BY <2>3, <2>4, <2>5 DEF Bijection, Injection, Surjection, IsInjective
  <2>7. IsFiniteSet(P) /\ IsFiniteSet(Q)
    BY <2>1, PlacesFinite DEF P, Q
  <2>8. Cardinality(P \ {p}) = Cardinality(Q)
    BY <2>6, <2>7, FS_Bijection DEF ExistsBijection
  <2>9. /\ Cardinality(P \ {p}) = IF p \in P THEN Cardinality(P) - 1 ELSE Cardinality(P)
        /\ Cardinality(P) \in Nat
    BY <2>7, FS_RemoveElement, FS_CardinalityType
  <2>10. p \in P <=> EntryOf(i).conn = c
    BY <2>1, <2>2 DEF P, Places, EntryOf
  <2>11. QED
    BY <1>2, <2>8, <2>9, <2>10 DEF Held, P, Q, One
<1>3. QED
  BY <1>1, <1>2

LEMMA HeldAppend ==
    ASSUME NEW s \in Seq(Entry), NEW e \in Entry, NEW c
    PROVE  Held(Append(s, e), c) = Held(s, c) + One(e.conn, c)
<1> DEFINE z == Append(s, e)
           k == Len(s) + 1
<1>1. /\ Len(s) \in Nat /\ DOMAIN s = 1 .. Len(s)
      /\ z \in Seq(Entry) /\ Len(z) = k /\ DOMAIN z = 1 .. k
      /\ \A n \in 1 .. Len(s) : z[n] = s[n]
      /\ z[k] = e
  BY AppendProperties, LenProperties
<1> HIDE DEF z
<1>2. Places(z, c) = Places(s, c) \cup (IF e.conn = c THEN {k} ELSE {})
  BY <1>1 DEF Places
<1>3. IsFiniteSet(Places(s, c)) /\ k \notin Places(s, c) /\ Held(s, c) \in Nat
  <2>1. k \notin Places(s, c)
    BY <1>1 DEF Places
  <2>2. QED
    BY <2>1, PlacesFinite
<1>4. Cardinality(Places(s, c) \cup {k}) = Cardinality(Places(s, c)) + 1
  BY <1>3, FS_AddElement
<1>5. CASE e.conn = c
  BY <1>2, <1>4, <1>5 DEF Held, One, z
<1>6. CASE e.conn # c
  <2>1. Places(z, c) = Places(s, c)
    BY <1>2, <1>6
  <2>2. QED
    BY <1>3, <1>6, <2>1 DEF Held, One, z
<1>7. QED
  BY <1>5, <1>6

(* Whether t counts changes from whether x is c to whether y is.           *)
LEMMA RecountOne ==
    ASSUME NEW A, IsFiniteSet(A), NEW t, t \notin A, NEW x, NEW y, NEW c,
           NEW G, G = IF x = c THEN A \cup {t} ELSE A,
           NEW H, H = IF y = c THEN A \cup {t} ELSE A
    PROVE  Cardinality(H) = Cardinality(G) - One(x, c) + One(y, c)
<1>1. Cardinality(A) \in Nat
  BY FS_CardinalityType
<1>2. Cardinality(A \cup {t}) = Cardinality(A) + 1
  BY FS_AddElement
<1>3. Cardinality(G) = Cardinality(A) + One(x, c)
  BY <1>1, <1>2 DEF One
<1>4. Cardinality(H) = Cardinality(A) + One(y, c)
  BY <1>1, <1>2 DEF One
<1>5. One(x, c) \in 0 .. 1 /\ One(y, c) \in 0 .. 1
  BY DEF One
<1>6. QED
  BY <1>1, <1>3, <1>4, <1>5

Handed(c) == Cardinality({u \in Tasks : task[u].conn = c})
Closing(c) == Cardinality({u \in Tasks : task[u].ended = c})

LEMMA HoldersAre ==
    ASSUME entries \in Seq(Entry), NEW c
    PROVE  /\ Holders(c) = Held(entries, c) + Handed(c) + Closing(c)
           /\ Held(entries, c) \in Nat /\ Handed(c) \in Nat /\ Closing(c) \in Nat
<1>1. Count(c, [n \in DOMAIN entries |-> entries[n].conn]) = Held(entries, c)
  <2>1. {k \in DOMAIN [n \in DOMAIN entries |-> entries[n].conn] :
            [n \in DOMAIN entries |-> entries[n].conn][k] = c} = Places(entries, c)
    BY DEF Places
  <2>2. QED
    BY <2>1 DEF Count, Held
<1>2. IsFiniteSet(Tasks)
  BY GatewayAssumption, FS_AddElement DEF Tasks
<1>3. Handed(c) \in Nat /\ Closing(c) \in Nat
  BY <1>2, FS_Subset, FS_CardinalityType DEF Handed, Closing
<1>4. QED
  BY <1>1, <1>3, PlacesFinite DEF Holders, Handed, Closing

(* The holders after a step of t whose task becomes r. *)
LEMMA HoldersStep ==
    ASSUME TypeOK, TypeOK', NEW t \in Tasks, NEW r, task' = [task EXCEPT ![t] = r], NEW c
    PROVE  /\ Holders(c)' = Holders(c) + Held(entries', c) - Held(entries, c)
                             + One(r.conn, c) - One(task[t].conn, c)
                             + One(r.ended, c) - One(task[t].ended, c)
           /\ Holders(c)' \in Nat
<1>1. IsFiniteSet(Tasks)
  BY GatewayAssumption, FS_AddElement DEF Tasks
<1>2. entries \in Seq(Entry) /\ entries' \in Seq(Entry) /\ task \in [Tasks -> Task]
  BY DEF TypeOK
<1>3. \A u \in Tasks : task'[u] = IF u = t THEN r ELSE task[u]
  BY <1>2
<1>4. Handed(c)' = Handed(c) - One(task[t].conn, c) + One(r.conn, c)
  <2> DEFINE A == {u \in Tasks \ {t} : task[u].conn = c}
             G == {u \in Tasks : task[u].conn = c}
             H == {u \in Tasks : task'[u].conn = c}
  <2>1. IsFiniteSet(A) /\ t \notin A
    BY <1>1, FS_Subset
  <2>2. G = IF task[t].conn = c THEN A \cup {t} ELSE A
    OBVIOUS
  <2>3. H = IF r.conn = c THEN A \cup {t} ELSE A
    BY <1>3
  <2> HIDE DEF A, G, H
  <2>4. Cardinality(H) = Cardinality(G) - One(task[t].conn, c) + One(r.conn, c)
    BY <2>1, <2>2, <2>3, RecountOne
  <2>5. QED
    BY <2>4 DEF Handed, G, H
<1>5. Closing(c)' = Closing(c) - One(task[t].ended, c) + One(r.ended, c)
  <2> DEFINE A == {u \in Tasks \ {t} : task[u].ended = c}
             G == {u \in Tasks : task[u].ended = c}
             H == {u \in Tasks : task'[u].ended = c}
  <2>1. IsFiniteSet(A) /\ t \notin A
    BY <1>1, FS_Subset
  <2>2. G = IF task[t].ended = c THEN A \cup {t} ELSE A
    OBVIOUS
  <2>3. H = IF r.ended = c THEN A \cup {t} ELSE A
    BY <1>3
  <2> HIDE DEF A, G, H
  <2>4. Cardinality(H) = Cardinality(G) - One(task[t].ended, c) + One(r.ended, c)
    BY <2>1, <2>2, <2>3, RecountOne
  <2>5. QED
    BY <2>4 DEF Closing, G, H
<1>6. /\ Holders(c) = Held(entries, c) + Handed(c) + Closing(c)
      /\ Held(entries, c) \in Nat /\ Handed(c) \in Nat /\ Closing(c) \in Nat
  BY <1>2, HoldersAre
<1>7. /\ Holders(c)' = Held(entries', c) + Handed(c)' + Closing(c)'
      /\ Held(entries', c) \in Nat
  <2>1. Count(c, [n \in DOMAIN entries' |-> entries'[n].conn]) = Held(entries', c)
    <3>1. {k \in DOMAIN [n \in DOMAIN entries' |-> entries'[n].conn] :
              [n \in DOMAIN entries' |-> entries'[n].conn][k] = c} = Places(entries', c)
      BY DEF Places
    <3>2. QED
      BY <3>1 DEF Count, Held
  <2>2. Held(entries', c) \in Nat
    BY <1>2, PlacesFinite
  <2>3. QED
    BY <2>1, <2>2 DEF Holders, Handed, Closing
<1>10. Handed(c)' \in Nat /\ Closing(c)' \in Nat
  BY <1>1, FS_Subset, FS_CardinalityType DEF Handed, Closing
<1>8. /\ One(task[t].conn, c) \in 0 .. 1 /\ One(r.conn, c) \in 0 .. 1
      /\ One(task[t].ended, c) \in 0 .. 1 /\ One(r.ended, c) \in 0 .. 1
  BY DEF One
<1>9. QED
  BY <1>4, <1>5, <1>6, <1>7, <1>8, <1>10

LEMMA CountOf ==
    ASSUME NEW c
    PROVE  /\ Count(c, <<>>) = 0
           /\ \A x : Count(c, <<x>>) = One(x, c)
           /\ \A x, y : Count(c, <<x, y>>) = One(x, c) + One(y, c)
<1>1. Count(c, <<>>) = 0
  <2>1. {n \in DOMAIN <<>> : <<>>[n] = c} = {}
    OBVIOUS
  <2>2. QED
    BY <2>1, FS_EmptySet DEF Count
<1>2. ASSUME NEW x PROVE Count(c, <<x>>) = One(x, c)
  <2>1. {n \in DOMAIN <<x>> : <<x>>[n] = c} = IF x = c THEN {1} ELSE {}
    OBVIOUS
  <2>2. QED
    BY <2>1, FS_EmptySet, FS_Singleton DEF Count, One
<1>3. ASSUME NEW x, NEW y PROVE Count(c, <<x, y>>) = One(x, c) + One(y, c)
  <2>1. {n \in DOMAIN <<x, y>> : <<x, y>>[n] = c}
           = (IF x = c THEN {1} ELSE {}) \cup (IF y = c THEN {2} ELSE {})
    OBVIOUS
  <2>2. IsFiniteSet({}) /\ Cardinality({}) = 0 /\ IsFiniteSet({1}) /\ Cardinality({1}) = 1
        /\ Cardinality({2}) = 1
    BY FS_EmptySet, FS_Singleton
  <2>3. Cardinality({1} \cup {2}) = 2
    BY <2>2, FS_AddElement
  <2>4. QED
    BY <2>1, <2>2, <2>3 DEF Count, One
<1>4. QED
  BY <1>1, <1>2, <1>3

----------------------------------------------------------------------------
(* The store as a map from ids.                                            *)
UniqueIn(s) == \A m, n \in DOMAIN s : s[m].id = s[n].id => m = n
OwnedIn(s, a) == {s[n].id : n \in {m \in DOMAIN s : s[m].account = a}}

LEMMA OwnedIs == \A a : Owned(a) = OwnedIn(entries, a)
BY DEF Owned, OwnedIn, ToSet

LEMMA WithoutMap ==
    ASSUME entries \in Seq(Entry), NEW i, UniqueIn(entries)
    PROVE  /\ UniqueIn(Without(i))
           /\ \A n \in DOMAIN Without(i) : Without(i)[n].id # i
           /\ \A a : OwnedIn(Without(i), a) = OwnedIn(entries, a) \ {i}
<1>1. CASE ~Stored(i)
  BY <1>1 DEF Without, Stored, OwnedIn
<1>2. CASE Stored(i)
  <2> DEFINE p == Position(i)
             L == Len(entries)
             w == Without(i)
             skip == [n \in 1 .. (L - 1) |-> IF n < p THEN n ELSE n + 1]
  <2>1. /\ p \in 1 .. L /\ entries[p].id = i
        /\ w \in Seq(Entry) /\ Len(w) = L - 1
        /\ \A n \in 1 .. (L - 1) : skip[n] \in 1 .. L /\ w[n] = entries[skip[n]]
    BY <1>2, WithoutEntries
  <2>2. L \in Nat /\ DOMAIN entries = 1 .. L /\ DOMAIN w = 1 .. (L - 1)
    BY <2>1, LenProperties
  <2>3. /\ \A m, n \in 1 .. (L - 1) : skip[m] = skip[n] => m = n
        /\ \A n \in 1 .. (L - 1) : skip[n] # p
        /\ \A m \in 1 .. L : m # p => \E n \in 1 .. (L - 1) : skip[n] = m
    <3>1. ASSUME NEW m \in 1 .. L, m # p PROVE \E n \in 1 .. (L - 1) : skip[n] = m
      <4> DEFINE n == IF m < p THEN m ELSE m - 1
      <4>1. n \in 1 .. (L - 1) /\ skip[n] = m
        BY <2>1, <2>2, <3>1
      <4>2. QED
        BY <4>1
    <3>2. QED
      BY <2>1, <2>2, <3>1
  <2> HIDE DEF w, skip, p
  <2>4. UniqueIn(w)
    <3>1. SUFFICES ASSUME NEW m \in 1 .. (L - 1), NEW n \in 1 .. (L - 1), w[m].id = w[n].id
                   PROVE  m = n
      BY <2>2 DEF UniqueIn
    <3>2. /\ entries[skip[m]].id = entries[skip[n]].id
          /\ skip[m] \in 1 .. L /\ skip[n] \in 1 .. L
      BY <2>1, <3>1
    <3>3. skip[m] = skip[n]
      BY <2>2, <3>2 DEF UniqueIn
    <3>4. QED
      BY <2>3, <3>3
  <2>5. ASSUME NEW m \in 1 .. L, entries[m].id = i PROVE m = p
    <3>1. p \in 1 .. L /\ entries[m].id = entries[p].id
      BY <2>1, <2>5
    <3>2. QED
      BY <2>2, <2>5, <3>1 DEF UniqueIn
  <2>6. ASSUME NEW n \in DOMAIN w PROVE w[n].id # i
    <3>1. n \in 1 .. (L - 1)
      BY <2>2
    <3>2. skip[n] \in 1 .. L /\ w[n] = entries[skip[n]] /\ skip[n] # p
      BY <2>1, <2>3, <3>1
    <3>3. entries[skip[n]].id = i => skip[n] = p
      BY <2>5, <3>2
    <3>4. QED
      BY <3>2, <3>3
  <2>7. ASSUME NEW a PROVE OwnedIn(w, a) = OwnedIn(entries, a) \ {i}
    <3>1. ASSUME NEW x \in OwnedIn(w, a) PROVE x \in OwnedIn(entries, a) \ {i}
      <4>1. PICK n \in 1 .. (L - 1) : w[n].account = a /\ x = w[n].id
        BY <2>2 DEF OwnedIn
      <4>2. QED
        BY <2>1, <2>2, <2>6, <4>1 DEF OwnedIn
    <3>2. ASSUME NEW x \in OwnedIn(entries, a) \ {i} PROVE x \in OwnedIn(w, a)
      <4>1. PICK m \in 1 .. L : entries[m].account = a /\ x = entries[m].id
        BY <2>2 DEF OwnedIn
      <4>2. m # p
        BY <2>1, <4>1
      <4>3. PICK n \in 1 .. (L - 1) : skip[n] = m
        BY <2>3, <4>2
      <4>4. QED
        BY <2>1, <2>2, <4>1, <4>3 DEF OwnedIn
    <3>3. QED
      BY <3>1, <3>2
  <2>8. QED
    BY <2>4, <2>6, <2>7 DEF w
<1>3. QED
  BY <1>1, <1>2

LEMMA AppendMap ==
    ASSUME NEW s \in Seq(Entry), NEW e \in Entry,
           UniqueIn(s), \A n \in DOMAIN s : s[n].id # e.id
    PROVE  /\ UniqueIn(Append(s, e))
           /\ \A a : OwnedIn(Append(s, e), a)
                        = OwnedIn(s, a) \cup (IF e.account = a THEN {e.id} ELSE {})
<1> DEFINE z == Append(s, e)
           k == Len(s) + 1
<1>1. /\ Len(s) \in Nat /\ DOMAIN s = 1 .. Len(s)
      /\ z \in Seq(Entry) /\ Len(z) = k /\ DOMAIN z = 1 .. k
      /\ \A n \in 1 .. Len(s) : z[n] = s[n]
      /\ z[k] = e
  BY AppendProperties, LenProperties
<1> HIDE DEF z
<1>2. UniqueIn(z)
  BY <1>1 DEF UniqueIn
<1>3. ASSUME NEW a
      PROVE  OwnedIn(z, a) = OwnedIn(s, a) \cup (IF e.account = a THEN {e.id} ELSE {})
  <2>1. {m \in DOMAIN z : z[m].account = a}
           = {m \in DOMAIN s : s[m].account = a} \cup (IF e.account = a THEN {k} ELSE {})
    BY <1>1
  <2>2. \A m \in {m \in DOMAIN s : s[m].account = a} : z[m] = s[m]
    BY <1>1
  <2>3. QED
    BY <1>1, <2>1, <2>2 DEF OwnedIn
<1>4. QED
  BY <1>2, <1>3 DEF z

(* A look-up moves an entry to the end and changes nothing else.           *)
LEMMA TouchMap ==
    ASSUME entries \in Seq(Entry), NEW i, Stored(i), Touch(i), IdsUnique
    PROVE  /\ IdsUnique'
           /\ \A a : Owned(a)' = Owned(a)
           /\ \A c : Held(entries', c) = Held(entries, c)
<1> DEFINE w == Without(i)
           e == EntryOf(i)
<1>1. entries' = Append(w, e)
  BY DEF Touch
<1>2. e \in Entry /\ e.id = i /\ w \in Seq(Entry) /\ i \in {i}
  BY EntryFound, WithoutEntries DEF EntryOf
<1>3. UniqueIn(entries)
  BY DEF UniqueIn, IdsUnique
<1>4. /\ UniqueIn(w)
      /\ \A n \in DOMAIN w : w[n].id # e.id
      /\ \A a : OwnedIn(w, a) = OwnedIn(entries, a) \ {i}
  BY <1>2, <1>3, WithoutMap
<1>5. \A c : Held(w, c) = Held(entries, c) - One(e.conn, c)
  BY HeldWithout
<1>6. \A a : e.account = a <=> i \in OwnedIn(entries, a)
  <2>1. Position(i) \in DOMAIN entries /\ entries[Position(i)].id = i
    BY DEF Stored, Position
  <2>2. QED
    BY <1>3, <2>1 DEF OwnedIn, UniqueIn, EntryOf
<1> HIDE DEF w, e
<1>7. /\ UniqueIn(Append(w, e))
      /\ \A a : OwnedIn(Append(w, e), a) = OwnedIn(w, a) \cup (IF e.account = a THEN {e.id} ELSE {})
  BY <1>2, <1>4, AppendMap
<1>8. \A c : Held(Append(w, e), c) = Held(w, c) + One(e.conn, c)
  BY <1>2, HeldAppend
<1>9. IdsUnique'
  BY <1>1, <1>7 DEF UniqueIn, IdsUnique
<1>10. ASSUME NEW a PROVE Owned(a)' = Owned(a)
  <2>1. Owned(a)' = OwnedIn(entries', a)
    BY DEF Owned, OwnedIn, ToSet
  <2>2. Owned(a) = OwnedIn(entries, a)
    BY OwnedIs
  <2>3. OwnedIn(entries', a)
           = (OwnedIn(entries, a) \ {i}) \cup (IF e.account = a THEN {i} ELSE {})
    BY <1>1, <1>2, <1>4, <1>7
  <2>4. e.account = a <=> i \in OwnedIn(entries, a)
    BY <1>6
  <2>5. QED
    BY <2>1, <2>2, <2>3, <2>4
<1>11. ASSUME NEW c PROVE Held(entries', c) = Held(entries, c)
  <2>1. Held(entries, c) \in Nat /\ One(e.conn, c) \in Nat
    BY PlacesFinite DEF One
  <2>2. QED
    BY <1>1, <1>5, <1>8, <2>1
<1>12. QED
  BY <1>9, <1>10, <1>11

----------------------------------------------------------------------------
(* Places of which each has fewer than K later ones are at most K.         *)
LEMMA LaterFew ==
    ASSUME NEW S \in SUBSET Nat, IsFiniteSet(S), NEW K \in Nat,
           \A n \in S : Cardinality({m \in S : m > n}) < K
    PROVE  Cardinality(S) <= K
<1>1. CASE S = {}
  BY <1>1, FS_EmptySet
<1>2. CASE S # {}
  <2> DEFINE below(n) == {m \in S : m < n}
             T == {below(n) : n \in S}
  <2>1. T \subseteq FiniteSubsetsOf(S)
    BY FS_Subset DEF FiniteSubsetsOf
  <2>2. T # {}
    BY <1>2
  <2>3. IsWellFoundedOn(StrictSubsetOrdering(S), FiniteSubsetsOf(S))
    BY FS_StrictSubsetOrderingWellFounded
  <2> HIDE DEF T
  <2>4. PICK x \in T : \A y \in T : ~(<<y, x>> \in StrictSubsetOrdering(S))
    BY <2>1, <2>2, <2>3, WFMin
  <2>5. PICK n \in S : x = below(n)
    BY DEF T
  <2>6. ASSUME NEW k \in S PROVE ~(k < n)
    <3>1. SUFFICES ASSUME k < n PROVE FALSE
      OBVIOUS
    <3>a. \A m \in S : m \in Nat
      OBVIOUS
    <3>2. below(k) \subseteq below(n) /\ k \in below(n) /\ k \notin below(k)
      <4>1. \A m \in S : m < k => m < n
        BY <3>1, <3>a
      <4>2. ~(k < k)
        BY <3>a
      <4>3. QED
        BY <3>1, <4>1, <4>2
    <3>3. below(k) \in T /\ below(k) \in SUBSET S /\ below(n) \in SUBSET S
      BY DEF T
    <3> HIDE DEF below
    <3>4. <<below(k), below(n)>> \in StrictSubsetOrdering(S)
      BY <3>2, <3>3 DEF StrictSubsetOrdering
    <3>5. QED
      BY <2>4, <2>5, <3>3, <3>4
  <2> DEFINE later == {m \in S : m > n}
  <2>7. S = later \cup {n} /\ n \notin later
    <3>1. \A m \in S : m \in Nat /\ ~(m < n)
      BY <2>6
    <3>2. ~(n > n) /\ \A m \in S : m > n \/ m = n
      BY <3>1
    <3>3. QED
      BY <3>2
  <2>8. IsFiniteSet(later)
    BY FS_Subset
  <2>9. Cardinality(later) \in Nat /\ Cardinality(later) < K
    BY <2>8, FS_CardinalityType
  <2> HIDE DEF later
  <2>10. Cardinality(later \cup {n}) = Cardinality(later) + 1
    BY <2>7, <2>8, FS_AddElement
  <2>11. QED
    BY <2>7, <2>9, <2>10
<1>3. QED
  BY <1>1, <1>2

(* What an insert does not evict of the sessions of its account.           *)
LEMMA OverCapBound ==
    ASSUME NEW s \in Seq(Entry), NEW a, a # None, NEW i,
           NEW left, left \subseteq OwnedIn(s, a) \ over_cap(s, a, i)
    PROVE  IsFiniteSet(left) /\ Cardinality(left) <= MAX_SESSIONS_PER_ACCOUNT
<1> DEFINE owned == {n \in DOMAIN s : s[n].account = a /\ s[n].id # i}
           newer(n) == {m \in owned : m > n}
           K == MAX_SESSIONS_PER_ACCOUNT - 1
           kept == {n \in owned : ~(Cardinality(newer(n)) >= K)}
           ids == {s[n].id : n \in kept}
<1>1. Len(s) \in Nat /\ DOMAIN s = 1 .. Len(s)
  BY LenProperties
<1>2. IsFiniteSet(1 .. Len(s))
  BY <1>1, FS_Interval
<1>3. owned \subseteq 1 .. Len(s) /\ kept \subseteq 1 .. Len(s)
  BY <1>1
<1>4. IsFiniteSet(owned) /\ IsFiniteSet(kept)
  BY <1>2, <1>3, FS_Subset
<1>5. K \in Nat
  BY GatewayAssumption
<1>6. ASSUME NEW n \in kept PROVE Cardinality({m \in kept : m > n}) < K
  <2> DEFINE few == {m \in kept : m > n}
             more == newer(n)
  <2>1. few \subseteq more /\ more \subseteq owned
    OBVIOUS
  <2>2. ~(Cardinality(more) >= K)
    OBVIOUS
  <2> HIDE DEF few, more, kept, owned
  <2>3. IsFiniteSet(more)
    BY <1>4, <2>1, FS_Subset
  <2>4. /\ IsFiniteSet(few) /\ Cardinality(few) <= Cardinality(more)
        /\ Cardinality(few) \in Nat /\ Cardinality(more) \in Nat
    BY <2>1, <2>3, FS_Subset, FS_CardinalityType
  <2>5. Cardinality(few) < K
    BY <1>5, <2>2, <2>4
  <2>6. QED
    BY <2>5 DEF few
<1>7. OwnedIn(s, a) \ over_cap(s, a, i) \subseteq ids \cup {i}
  <2>1. over_cap(s, a, i) = {s[n].id : n \in {m \in owned : Cardinality(newer(m)) >= K}}
    BY DEF over_cap
  <2>2. ASSUME NEW n \in DOMAIN s, s[n].account = a, s[n].id \notin over_cap(s, a, i),
               s[n].id # i
        PROVE  s[n].id \in ids
    <3>1. n \in owned
      BY <2>2
    <3>2. ~(Cardinality(newer(n)) >= K)
      <4> HIDE DEF owned, newer, K
      <4>1. QED
        BY <2>1, <2>2, <3>1
    <3>3. QED
      BY <3>1, <3>2
  <2>3. QED
    BY <2>2 DEF OwnedIn
<1> HIDE DEF kept, owned, K
<1>8. Cardinality(kept) <= K
  <2>1. kept \in SUBSET Nat
    BY <1>1, <1>3
  <2>2. QED
    BY <1>4, <1>5, <1>6, <2>1, LaterFew
<1>9. IsFiniteSet(ids) /\ Cardinality(ids) <= Cardinality(kept)
  <2> DEFINE f == [n \in kept |-> s[n].id]
  <2>1. f \in Surjection(kept, ids)
    BY DEF Surjection
  <2> HIDE DEF f, ids
  <2>2. QED
    BY <1>4, <2>1, FS_Surjection
<1> HIDE DEF ids
<1>10. /\ IsFiniteSet(ids \cup {i})
       /\ Cardinality(ids \cup {i}) \in {Cardinality(ids), Cardinality(ids) + 1}
       /\ Cardinality(ids) \in Nat /\ Cardinality(kept) \in Nat
  <2>1. CASE i \in ids
    <3>1. ids \cup {i} = ids
      BY <2>1
    <3>2. QED
      BY <1>4, <1>9, <3>1, FS_CardinalityType
  <2>2. CASE i \notin ids
    <3>1. IsFiniteSet(ids \cup {i}) /\ Cardinality(ids \cup {i}) = Cardinality(ids) + 1
      BY <1>9, <2>2, FS_AddElement
    <3>2. QED
      BY <1>4, <1>9, <3>1, FS_CardinalityType
  <2>3. QED
    BY <2>1, <2>2
<1>11. Cardinality(ids \cup {i}) <= MAX_SESSIONS_PER_ACCOUNT
  BY <1>5, <1>8, <1>9, <1>10, GatewayAssumption DEF K
<1>12. left \subseteq ids \cup {i}
  BY <1>7
<1>13. /\ IsFiniteSet(left) /\ Cardinality(left) <= Cardinality(ids \cup {i})
       /\ Cardinality(left) \in Nat
  <2> DEFINE all == ids \cup {i}
  <2>1. IsFiniteSet(all) /\ left \subseteq all
    BY <1>10, <1>12
  <2> HIDE DEF all
  <2>2. IsFiniteSet(left) /\ Cardinality(left) <= Cardinality(all)
    BY <2>1, FS_Subset
  <2>3. QED
    BY <2>2, FS_CardinalityType DEF all
<1>14. Cardinality(ids \cup {i}) \in Nat
  BY <1>10
<1>15. QED
  BY <1>11, <1>13, <1>14, GatewayAssumption

(* What counts against an account's allowance.                             *)
Evicted == UNION {Evicting(u) : u \in Requests}
Pending(a) == Owned(a) \ Evicted

LEMMA OwnedFinite ==
    ASSUME entries \in Seq(Entry), NEW a
    PROVE  IsFiniteSet(Owned(a))
<1>1. Len(entries) \in Nat /\ DOMAIN entries = 1 .. Len(entries)
  BY LenProperties
<1>2. IsFiniteSet(1 .. Len(entries))
  BY <1>1, FS_Interval
<1> DEFINE P == {n \in DOMAIN entries : entries[n].account = a}
           O == OwnedIn(entries, a)
           f == [n \in P |-> entries[n].id]
<1>3. IsFiniteSet(P)
  BY <1>1, <1>2, FS_Subset
<1>4. f \in Surjection(P, O)
  BY DEF Surjection, OwnedIn
<1> HIDE DEF P, O, f
<1>5. IsFiniteSet(O)
  BY <1>3, <1>4, FS_Surjection
<1>6. QED
  BY <1>5, OwnedIs DEF O

(* A step that adds nothing to what counts.                                *)
LEMMA CapStep ==
    ASSUME entries \in Seq(Entry), SessionsCapped, NEW a \in Accounts, a \notin cut,
           Pending(a)' \subseteq Pending(a)
    PROVE  Cardinality(Pending(a)') <= MAX_SESSIONS_PER_ACCOUNT
<1>1. Cardinality(Pending(a)) <= MAX_SESSIONS_PER_ACCOUNT
  BY DEF SessionsCapped, Pending, Evicted
<1>2. IsFiniteSet(Pending(a))
  BY OwnedFinite, FS_Subset DEF Pending
<1> DEFINE P == Pending(a)
           Q == Pending(a)'
<1>3. Q \subseteq P /\ IsFiniteSet(P) /\ Cardinality(P) <= MAX_SESSIONS_PER_ACCOUNT
  BY <1>1, <1>2
<1> HIDE DEF P, Q
<1>4. Cardinality(Q) <= Cardinality(P) /\ Cardinality(Q) \in Nat /\ Cardinality(P) \in Nat
  BY <1>3, FS_Subset, FS_CardinalityType
<1>5. Cardinality(Q) <= MAX_SESSIONS_PER_ACCOUNT
  BY <1>3, <1>4, GatewayAssumption
<1>6. QED
  BY <1>5 DEF Q

----------------------------------------------------------------------------
(* The rest of what the proof carries from step to step.                   *)
Rest == HandsTidy /\ IdsUnique /\ NoSocketLeaks /\ SessionsCapped
Full == KeysInv /\ Rest

Neat(r) ==
    /\ r.pc \in {"free", "connecting"} => r.conn = None
    /\ r.pc # "loggingout" => r.ended = None
    /\ r.pc \notin {"ending", "loggingout"} => r.doomed = {}

LEMMA TidyTask ==
    ASSUME HandsTidy, NEW t \in Tasks
    PROVE  Neat(task[t])
BY DEF HandsTidy, Neat

LEMMA TidyStep ==
    ASSUME Full, NEW t \in Tasks, NEW r, Neat(r), task' = [task EXCEPT ![t] = r]
    PROVE  HandsTidy'
<1>1. \A u \in Tasks : task'[u] = IF u = t THEN r ELSE task[u]
  BY DEF Full, KeysInv, TypeOK
<1>2. HandsTidy
  BY DEF Full, Rest
<1>3. QED
  BY <1>1, <1>2 DEF HandsTidy, Neat

(* By how much the holders of c change when t's task becomes r.            *)
Shift(c, t, r) == Held(entries', c) - Held(entries, c)
                    + One(r.conn, c) - One(task[t].conn, c)
                    + One(r.ended, c) - One(task[t].ended, c)

LEMMA HandlesStep ==
    ASSUME KeysInv, KeysInv', NoSocketLeaks, NEW t \in Tasks, NEW r,
           task' = [task EXCEPT ![t] = r], NEW c \in Conns,
           handles'[c] = handles[c] + Shift(c, t, r)
    PROVE  handles'[c] = Holders(c)' /\ handles'[c] \in Nat
<1>1. TypeOK /\ TypeOK'
  BY DEF KeysInv
<1>2. /\ Holders(c)' = Holders(c) + Held(entries', c) - Held(entries, c)
                         + One(r.conn, c) - One(task[t].conn, c)
                         + One(r.ended, c) - One(task[t].ended, c)
      /\ Holders(c)' \in Nat
  BY <1>1, HoldersStep
<1>3. handles[c] = Holders(c) /\ handles[c] \in Int
  BY <1>1 DEF NoSocketLeaks, TypeOK
<1>4. Held(entries, c) \in Nat /\ Held(entries', c) \in Nat
  BY <1>1, PlacesFinite DEF TypeOK
<1>5. One(r.conn, c) \in 0 .. 1 /\ One(task[t].conn, c) \in 0 .. 1
      /\ One(r.ended, c) \in 0 .. 1 /\ One(task[t].ended, c) \in 0 .. 1
  BY DEF One
<1>6. handles'[c] = Holders(c)'
  BY <1>2, <1>3, <1>4, <1>5 DEF Shift
<1>7. QED
  BY <1>2, <1>6

(* Sockets and session rows that are up have handles.                      *)
Sound == \A c \in Conns : /\ c \in open => handles[c] > 0
                          /\ bound[c] # None => c \in open

LEMMA LeaksStep ==
    ASSUME KeysInv, KeysInv', NoSocketLeaks, NEW t \in Tasks, NEW r,
           task' = [task EXCEPT ![t] = r],
           \A c \in Conns : handles'[c] = handles[c] + Shift(c, t, r),
           (\A c \in Conns : handles'[c] \in Nat) => Sound'
    PROVE  NoSocketLeaks'
<1>1. \A c \in Conns : handles'[c] = Holders(c)' /\ handles'[c] \in Nat
  BY HandlesStep
<1>2. Sound'
  BY <1>1
<1>3. QED
  BY <1>1, <1>2 DEF NoSocketLeaks, Sound

(* A step that opens, closes and releases nothing.                         *)
LEMMA SoundKept ==
    ASSUME NoSocketLeaks, UNCHANGED <<open, bound>>,
           \A c \in Conns : handles'[c] \in Int /\ handles[c] \in Int /\ handles'[c] >= handles[c]
    PROVE  Sound'
BY DEF NoSocketLeaks, Sound

LEMMA SoundReleased ==
    ASSUME KeysInv, NoSocketLeaks, NEW gained, NEW lost, NEW shut,
           Released(gained, lost, shut), \A c \in Conns : handles'[c] \in Nat
    PROVE  Sound'
<1> DEFINE counted == Counted(gained, lost)
           closed == shut \cup {c \in Conns : counted[c] = 0}
<1>1. /\ handles' = counted /\ open' = open \ closed
      /\ bound' = [c \in Conns |-> IF c \in closed THEN None ELSE bound[c]]
  BY DEF Released
<1>2. ASSUME NEW c \in Conns
      PROVE  /\ c \in open' => handles'[c] > 0
             /\ bound'[c] # None => c \in open'
  <2>1. c \in open' => counted[c] # 0
    BY <1>1
  <2>2. bound'[c] # None => c \notin closed /\ bound[c] # None
    BY <1>1
  <2>3. bound[c] # None => c \in open
    BY DEF NoSocketLeaks
  <2>4. handles'[c] \in Nat
    OBVIOUS
  <2> HIDE DEF counted, closed
  <2>5. QED
    BY <1>1, <2>1, <2>2, <2>3, <2>4
<1>3. QED
  BY <1>2 DEF Sound

LEMMA CountedIs ==
    ASSUME NEW gained, NEW lost, NEW c \in Conns
    PROVE  Counted(gained, lost)[c] = handles[c] + Count(c, gained) - Count(c, lost)
BY DEF Counted

(* The evictions under way are not fewer after a step of t.                *)
LEMMA EvictedGrows ==
    ASSUME KeysInv, NEW t \in Tasks, NEW r, task' = [task EXCEPT ![t] = r],
           t \in Requests /\ task[t].granted /\ task[t].doomed # {}
                => r.granted /\ task[t].doomed \subseteq r.doomed
    PROVE  Evicted \subseteq Evicted'
<1>1. \A u \in Requests : task'[u] = IF u = t THEN r ELSE task[u]
  BY DEF KeysInv, TypeOK, Tasks
<1>2. ASSUME NEW u \in Requests PROVE Evicting(u) \subseteq Evicting(u)'
  BY <1>1 DEF Evicting
<1>3. Evicted' = UNION {Evicting(u)' : u \in Requests}
  BY DEF Evicted
<1>4. QED
  BY <1>2, <1>3 DEF Evicted

LEMMA CapKept ==
    ASSUME KeysInv, SessionsCapped, cut' = cut, \A a \in Accounts : Owned(a)' \subseteq Owned(a),
           Evicted \subseteq Evicted'
    PROVE  SessionsCapped'
<1>1. ASSUME NEW a \in Accounts, a \notin cut'
      PROVE  Cardinality(Pending(a)') <= MAX_SESSIONS_PER_ACCOUNT
  <2>1. Pending(a)' \subseteq Pending(a)
    BY DEF Pending
  <2>2. QED
    BY <1>1, <2>1, CapStep DEF KeysInv, TypeOK
<1>2. QED
  BY <1>1 DEF SessionsCapped, Pending, Evicted

(* A store whose entries are the same, though in another order.            *)
SameStore == /\ IdsUnique'
             /\ \A a : Owned(a)' = Owned(a)
             /\ \A c : Held(entries', c) = Held(entries, c)

LEMMA SameEntries ==
    ASSUME UNCHANGED entries, IdsUnique
    PROVE  SameStore
BY DEF SameStore, IdsUnique, Owned

LEMMA TouchSame ==
    ASSUME Full, NEW i, Stored(i), Touch(i)
    PROVE  SameStore
BY TouchMap DEF SameStore, Full, Rest, KeysInv, TypeOK

(* What most steps have to show.                                           *)
LEMMA RestStep ==
    ASSUME Full, KeysInv', NEW t \in Tasks, NEW r, task' = [task EXCEPT ![t] = r], Neat(r),
           SameStore, cut' = cut,
           t \in Requests /\ task[t].granted /\ task[t].doomed # {}
                => r.granted /\ task[t].doomed \subseteq r.doomed,
           \A c \in Conns : handles'[c] = handles[c] + One(r.conn, c) - One(task[t].conn, c)
                                            + One(r.ended, c) - One(task[t].ended, c),
           (\A c \in Conns : handles'[c] \in Nat) => Sound'
    PROVE  Rest'
<1>1. KeysInv /\ HandsTidy /\ NoSocketLeaks /\ SessionsCapped
  BY DEF Full, Rest
<1>2. HandsTidy'
  BY TidyStep
<1>3. IdsUnique'
  BY DEF SameStore
<1>4. \A c \in Conns : handles'[c] = handles[c] + Shift(c, t, r)
  <2>1. SUFFICES ASSUME NEW c \in Conns PROVE handles'[c] = handles[c] + Shift(c, t, r)
    OBVIOUS
  <2>2. Held(entries', c) = Held(entries, c) /\ Held(entries, c) \in Nat
    BY <1>1, PlacesFinite DEF SameStore, KeysInv, TypeOK
  <2>3. handles[c] \in Int
    BY <1>1 DEF KeysInv, TypeOK
  <2>4. One(r.conn, c) \in 0 .. 1 /\ One(task[t].conn, c) \in 0 .. 1
        /\ One(r.ended, c) \in 0 .. 1 /\ One(task[t].ended, c) \in 0 .. 1
    BY DEF One
  <2>5. QED
    BY <2>2, <2>3, <2>4 DEF Shift
<1>5. NoSocketLeaks'
  BY <1>1, <1>4, LeaksStep
<1>6. Evicted \subseteq Evicted'
  BY <1>1, EvictedGrows
<1>7. SessionsCapped'
  BY <1>1, <1>6, CapKept DEF SameStore
<1>8. QED
  BY <1>2, <1>3, <1>5, <1>7 DEF Rest

(* A step of t that leaves the store, the sockets and all handles alone.   *)
LEMMA QuietRest ==
    ASSUME Full, KeysInv', NEW t \in Tasks, NEW r, task' = [task EXCEPT ![t] = r], Neat(r),
           UNCHANGED <<entries, handles, cut>>,
           t \in Requests /\ task[t].granted /\ task[t].doomed # {}
                => r.granted /\ task[t].doomed \subseteq r.doomed,
           r.conn = task[t].conn, r.ended = task[t].ended,
           Sound'
    PROVE  Rest'
<1>1. KeysInv /\ IdsUnique
  BY DEF Full, Rest
<1>2. SameStore
  BY <1>1, SameEntries
<1>3. \A c \in Conns : handles'[c] = handles[c] + One(r.conn, c) - One(task[t].conn, c)
                                       + One(r.ended, c) - One(task[t].ended, c)
  <2>1. SUFFICES ASSUME NEW c \in Conns
                 PROVE  handles'[c] = handles[c] + One(r.conn, c) - One(task[t].conn, c)
                                        + One(r.ended, c) - One(task[t].ended, c)
    OBVIOUS
  <2>2. handles[c] \in Int
    BY <1>1 DEF KeysInv, TypeOK
  <2>3. One(task[t].conn, c) \in 0 .. 1 /\ One(task[t].ended, c) \in 0 .. 1
    BY DEF One
  <2>4. QED
    BY <2>2, <2>3
<1>4. QED
  BY <1>2, <1>3, RestStep

----------------------------------------------------------------------------
LEMMA SoundUnchanged ==
    ASSUME NoSocketLeaks, UNCHANGED <<open, bound, handles>>
    PROVE  Sound'
BY DEF NoSocketLeaks, Sound

LEMMA FreeIsNeat ==
    /\ Neat(Free) /\ Free.conn = None /\ Free.ended = None /\ Free.doomed = {}
    /\ ~Free.granted
BY DEF Free, Begun, Neat

(* What a task that has not begun to end sessions holds.                   *)
LEMMA BeforeTheEnd ==
    ASSUME Full, NEW t \in Tasks, task[t].pc \notin {"ending", "loggingout"}
    PROVE  task[t].doomed = {} /\ task[t].ended = None
BY DEF Full, Rest, HandsTidy

LEMMA StartLoginRest ==
    ASSUME Full, KeysInv', NEW t \in Requests, StartLogin(t)
    PROVE  Rest'
<1> DEFINE r == [task[t] EXCEPT !.pc = "connecting"]
<1>1. t \in Tasks /\ task[t] \in Task /\ task[t].pc = "free"
  BY TaskTyped DEF Tasks, StartLogin, Full
<1>2. task[t].doomed = {} /\ task[t].ended = None /\ task[t].conn = None
  BY <1>1 DEF Full, Rest, HandsTidy
<1>3. Neat(r) /\ r.conn = task[t].conn /\ r.ended = task[t].ended
  BY <1>1, <1>2 DEF Task, Neat
<1>4. task' = [task EXCEPT ![t] = r] /\ UNCHANGED <<open, bound, entries, handles, cut>>
  BY DEF StartLogin
<1>5. Sound'
  BY <1>4, SoundUnchanged DEF Full, Rest
<1> HIDE DEF r
<1>6. QED
  BY <1>1, <1>2, <1>3, <1>4, <1>5, QuietRest

(* A request takes a handle of the connection of an entry it looked up.    *)
LEMMA AcquireRest ==
    ASSUME Full, KeysInv', NEW t \in Requests, NEW i, Stored(i), Touch(i),
           task[t].pc = "free", NEW p \in {"reauth", "creating", "revoking"}, NEW k, NEW a,
           task' = [task EXCEPT ![t] = Begun(p, k, EntryOf(i).conn, a)],
           handles' = Counted(<<EntryOf(i).conn>>, <<>>),
           UNCHANGED <<open, bound, cut>>
    PROVE  Rest'
<1> DEFINE d == EntryOf(i).conn
           r == Begun(p, k, d, a)
<1>1. t \in Tasks /\ KeysInv /\ NoSocketLeaks
  BY DEF Tasks, Full, Rest
<1>2. task[t].doomed = {} /\ task[t].ended = None /\ task[t].conn = None
  BY <1>1 DEF Full, Rest, HandsTidy
<1>3. r.conn = d /\ r.ended = None /\ Neat(r)
  BY DEF Begun, Neat
<1>4. SameStore
  BY TouchSame
<1> HIDE DEF d
<1>5. ASSUME NEW c \in Conns
      PROVE  /\ handles'[c] = handles[c] + One(d, c)
             /\ handles[c] \in Int /\ One(d, c) \in 0 .. 1 /\ One(None, c) = 0
  <2>1. Counted(<<d>>, <<>>)[c] = handles[c] + Count(c, <<d>>) - Count(c, <<>>)
    BY CountedIs
  <2>2. Count(c, <<>>) = 0 /\ Count(c, <<d>>) = One(d, c)
    BY CountOf
  <2>3. handles[c] \in Int
    BY <1>1 DEF KeysInv, TypeOK
  <2>4. One(d, c) \in 0 .. 1 /\ One(None, c) = 0
    BY GatewayAssumption DEF One
  <2>5. QED
    BY <2>1, <2>2, <2>3, <2>4 DEF d
<1> HIDE DEF r
<1>6. \A c \in Conns : handles'[c] = handles[c] + One(r.conn, c) - One(task[t].conn, c)
                                       + One(r.ended, c) - One(task[t].ended, c)
  BY <1>2, <1>3, <1>5
<1>7. \A c \in Conns : handles'[c] \in Int /\ handles[c] \in Int /\ handles'[c] >= handles[c]
  BY <1>5
<1>8. Sound'
  BY <1>1, <1>7, SoundKept
<1>9. task' = [task EXCEPT ![t] = r] /\ cut' = cut
  BY DEF r, d
<1>10. QED
  BY <1>1, <1>2, <1>3, <1>4, <1>6, <1>8, <1>9, RestStep

LEMMA StartKeyRest ==
    ASSUME Full, KeysInv', NEW t \in Requests, NEW k \in Keys, StartKey(t, k)
    PROVE  Rest'
<1>1. task[t].pc = "free" /\ UNCHANGED <<open, bound, cut>>
  BY DEF StartKey
<1>2. CASE Stored(k)
  <2>1. /\ task' = [task EXCEPT ![t] = Begun("reauth", k, EntryOf(k).conn, keys[k])]
        /\ handles' = Counted(<<EntryOf(k).conn>>, <<>>)
        /\ Touch(k)
    BY <1>2 DEF StartKey
  <2>2. QED
    BY <1>1, <1>2, <2>1, AcquireRest
<1>3. CASE ~Stored(k)
  <2> DEFINE r == Begun("connecting", k, None, keys[k])
  <2>1. task' = [task EXCEPT ![t] = r] /\ UNCHANGED <<entries, handles>>
    BY <1>3 DEF StartKey
  <2>2. t \in Tasks /\ NoSocketLeaks
    BY DEF Tasks, Full, Rest
  <2>3. task[t].doomed = {} /\ task[t].ended = None /\ task[t].conn = None
    BY <1>1, <2>2 DEF Full, Rest, HandsTidy
  <2>4. Neat(r) /\ r.conn = None /\ r.ended = None
    BY DEF Begun, Neat
  <2>5. Sound'
    BY <1>1, <2>1, <2>2, SoundUnchanged
  <2> HIDE DEF r
  <2>6. QED
    BY <1>1, <2>1, <2>2, <2>3, <2>4, <2>5, QuietRest
<1>4. QED
  BY <1>2, <1>3

LEMMA StartManageRest ==
    ASSUME Full, KeysInv', NEW t \in Requests, NEW i \in Cookies, NEW k \in Keys,
           StartManage(t, i, k)
    PROVE  Rest'
<1>1. /\ task[t].pc = "free" /\ Stored(i) /\ Touch(i)
      /\ handles' = Counted(<<EntryOf(i).conn>>, <<>>)
      /\ UNCHANGED <<open, bound, cut>>
  BY DEF StartManage
<1>2. PICK call \in {"creating", "revoking"} :
        task' = [task EXCEPT ![t] = Begun(call, k, EntryOf(i).conn, None)]
  BY DEF StartManage
<1>3. QED
  BY <1>1, <1>2, AcquireRest

LEMMA ConnectRest ==
    ASSUME Full, KeysInv', NEW t \in Requests, Connect(t)
    PROVE  Rest'
<1>1. /\ t \in Tasks /\ task[t] \in Task /\ task[t].pc = "connecting"
      /\ NoSocketLeaks /\ IdsUnique /\ TypeOK
  BY TaskTyped DEF Tasks, Connect, Full, Rest, KeysInv
<1>2. task[t].doomed = {} /\ task[t].ended = None /\ task[t].conn = None
  BY <1>1 DEF Full, Rest, HandsTidy
<1>3. UNCHANGED <<bound, entries, cut>>
  BY DEF Connect
<1>4. ASSUME NEW d \in Conns, handles[d] = 0, open' = open \cup {d},
             handles' = Counted(<<d>>, <<>>),
             task' = [task EXCEPT ![t].pc = "authenticating", ![t].conn = d]
      PROVE  Rest'
  <2> DEFINE r == [task[t] EXCEPT !.pc = "authenticating", !.conn = d]
  <2>1. task' = [task EXCEPT ![t] = r]
    BY <1>4
  <2>2. Neat(r) /\ r.conn = d /\ r.ended = None
    BY <1>1, <1>2 DEF Task, Neat
  <2> HIDE DEF r
  <2>3. ASSUME NEW c \in Conns
        PROVE  /\ handles'[c] = handles[c] + One(d, c)
               /\ handles[c] \in Int /\ One(None, c) = 0
               /\ One(d, c) = IF c = d THEN 1 ELSE 0
    <3>1. Counted(<<d>>, <<>>)[c] = handles[c] + Count(c, <<d>>) - Count(c, <<>>)
      BY CountedIs
    <3>2. Count(c, <<>>) = 0 /\ Count(c, <<d>>) = One(d, c)
      BY CountOf
    <3>3. handles[c] \in Int
      BY <1>1 DEF TypeOK
    <3>4. One(None, c) = 0 /\ One(d, c) = IF c = d THEN 1 ELSE 0
      BY GatewayAssumption DEF One
    <3>5. QED
      BY <1>4, <3>1, <3>2, <3>3, <3>4
  <2>4. \A c \in Conns : handles'[c] = handles[c] + One(r.conn, c) - One(task[t].conn, c)
                                         + One(r.ended, c) - One(task[t].ended, c)
    BY <1>2, <2>2, <2>3
  <2>5. ASSUME NEW c \in Conns
        PROVE  (c \in open' => handles'[c] > 0) /\ (bound'[c] # None => c \in open')
    <3>1. (c \in open => handles[c] > 0) /\ (bound[c] # None => c \in open)
      BY <1>1 DEF NoSocketLeaks
    <3>2. handles[c] > 0 \/ c = d => handles'[c] > 0
      BY <1>4, <2>3
    <3>3. QED
      BY <1>3, <1>4, <3>1, <3>2
  <2>6. Sound'
    BY <2>5 DEF Sound
  <2>7. SameStore
    BY <1>1, <1>3, SameEntries
  <2>8. QED
    BY <1>1, <1>2, <1>3, <2>1, <2>2, <2>4, <2>6, <2>7, RestStep
<1>5. CASE task' = [task EXCEPT ![t] = Free] /\ UNCHANGED <<open, handles>>
  <2>1. Sound'
    BY <1>1, <1>3, <1>5, SoundUnchanged
  <2>2. QED
    BY <1>1, <1>2, <1>3, <1>5, <2>1, FreeIsNeat, QuietRest
<1>6. QED
  BY <1>4, <1>5 DEF Connect

(* The server binds an account to a connection whose socket is up.         *)
LEMMA SoundBound ==
    ASSUME NoSocketLeaks, TypeOK, NEW t \in Tasks, NEW a \in Accounts, Authenticates(t, a),
           bound' = [bound EXCEPT ![task[t].conn] = a], UNCHANGED <<open, handles>>
    PROVE  Sound'
<1>1. task[t].conn \in open
  BY GatewayAssumption DEF Authenticates
<1>2. bound \in [Conns -> Accounts \cup {None}]
  BY DEF TypeOK
<1>3. \A c \in Conns : bound'[c] # None => c = task[t].conn \/ bound[c] # None
  BY <1>2
<1>4. QED
  BY <1>1, <1>3 DEF NoSocketLeaks, Sound

(* A step of t that only gives up the handle of its connection.            *)
LEMMA LetGoRest ==
    ASSUME Full, KeysInv', NEW t \in Tasks, task[t].ended = None,
           t \in Requests /\ task[t].granted => task[t].doomed = {},
           task' = [task EXCEPT ![t] = Free], NEW shut,
           Released(<<>>, <<task[t].conn>>, shut), UNCHANGED <<entries, cut>>
    PROVE  Rest'
<1>1. KeysInv /\ NoSocketLeaks /\ IdsUnique /\ TypeOK
  BY DEF Full, Rest, KeysInv
<1> DEFINE d == task[t].conn
<1>2. ASSUME NEW c \in Conns
      PROVE  handles'[c] = handles[c] + One(Free.conn, c) - One(task[t].conn, c)
                             + One(Free.ended, c) - One(task[t].ended, c)
  <2>1. handles'[c] = handles[c] + Count(c, <<>>) - Count(c, <<d>>)
    BY CountedIs DEF Released
  <2>2. Count(c, <<>>) = 0 /\ Count(c, <<d>>) = One(d, c)
    BY CountOf
  <2>3. handles[c] \in Int /\ One(d, c) \in 0 .. 1 /\ One(None, c) = 0
    BY <1>1, GatewayAssumption DEF TypeOK, One
  <2>4. QED
    BY <2>1, <2>2, <2>3, FreeIsNeat
<1>3. (\A c \in Conns : handles'[c] \in Nat) => Sound'
  BY <1>1, SoundReleased
<1>4. SameStore
  BY <1>1, SameEntries
<1>5. QED
  BY <1>2, <1>3, <1>4, FreeIsNeat, RestStep

LEMMA AuthenticateRest ==
    ASSUME Full, KeysInv', NEW t \in Requests, Authenticate(t)
    PROVE  Rest'
<1>1. /\ t \in Tasks /\ task[t] \in Task /\ task[t].pc = "authenticating"
      /\ NoSocketLeaks /\ TypeOK /\ UNCHANGED <<entries, cut>>
  BY TaskTyped DEF Tasks, Authenticate, Full, Rest, KeysInv
<1>2. task[t].doomed = {} /\ task[t].ended = None
  BY <1>1, BeforeTheEnd
<1>3. ASSUME NEW a \in Accounts, Authenticates(t, a),
             bound' = [bound EXCEPT ![task[t].conn] = a],
             task' = [task EXCEPT ![t].pc = "authenticated"],
             UNCHANGED <<open, handles>>
      PROVE  Rest'
  <2> DEFINE r == [task[t] EXCEPT !.pc = "authenticated"]
  <2>1. Neat(r) /\ r.conn = task[t].conn /\ r.ended = task[t].ended
    BY <1>1, <1>2 DEF Task, Neat
  <2>2. task' = [task EXCEPT ![t] = r]
    BY <1>3
  <2>3. Sound'
    BY <1>1, <1>3, SoundBound
  <2> HIDE DEF r
  <2>4. QED
    BY <1>1, <1>2, <1>3, <2>1, <2>2, <2>3, QuietRest
<1>4. CASE /\ task' = [task EXCEPT ![t] = Free]
           /\ Released(<<>>, <<task[t].conn>>, {task[t].conn})
  BY <1>1, <1>2, <1>4, LetGoRest
<1>5. QED
  BY <1>3, <1>4 DEF Authenticate

LEMMA ReauthenticateRest ==
    ASSUME Full, KeysInv', NEW t \in Requests, Reauthenticate(t)
    PROVE  Rest'
<1>1. /\ t \in Tasks /\ task[t] \in Task /\ task[t].pc = "reauth"
      /\ NoSocketLeaks /\ TypeOK /\ UNCHANGED <<open, handles, entries, cut>>
  BY TaskTyped DEF Tasks, Reauthenticate, Full, Rest, KeysInv
<1>2. task[t].doomed = {} /\ task[t].ended = None
  BY <1>1, BeforeTheEnd
<1>3. ASSUME NEW a \in Accounts, Authenticates(t, a),
             bound' = [bound EXCEPT ![task[t].conn] = a],
             task' = [task EXCEPT ![t].pc = "ending", ![t].granted = TRUE]
      PROVE  Rest'
  <2> DEFINE r == [task[t] EXCEPT !.pc = "ending", !.granted = TRUE]
  <2>1. Neat(r) /\ r.conn = task[t].conn /\ r.ended = task[t].ended
    BY <1>1, <1>2 DEF Task, Neat
  <2>2. task' = [task EXCEPT ![t] = r]
    BY <1>3
  <2>3. Sound'
    BY <1>1, <1>3, SoundBound
  <2> HIDE DEF r
  <2>4. QED
    BY <1>1, <1>2, <2>1, <2>2, <2>3, QuietRest
<1>4. CASE /\ task' = [task EXCEPT ![t].pc = "ending", ![t].doomed = {task[t].id}]
           /\ UNCHANGED bound
  <2> DEFINE r == [task[t] EXCEPT !.pc = "ending", !.doomed = {task[t].id}]
  <2>1. Neat(r) /\ r.conn = task[t].conn /\ r.ended = task[t].ended
    BY <1>1, <1>2 DEF Task, Neat
  <2>2. task' = [task EXCEPT ![t] = r]
    BY <1>4
  <2>3. Sound'
    BY <1>1, <1>4, SoundUnchanged
  <2> HIDE DEF r
  <2>4. QED
    BY <1>1, <1>2, <2>1, <2>2, <2>3, QuietRest
<1>5. QED
  BY <1>3, <1>4, GatewayAssumption DEF Reauthenticate

----------------------------------------------------------------------------
(* What an insert does to the store and its handles.                       *)
LEMMA InsertMap ==
    ASSUME entries \in Seq(Entry), IdsUnique, NEW i, NEW e \in Entry, e.id = i,
           entries' = Append(Without(i), e)
    PROVE  /\ IdsUnique'
           /\ \A b : b # e.account => Owned(b)' \subseteq Owned(b)
           /\ \A b : Owned(b)' = OwnedIn(entries', b)
           /\ \A c : Held(entries', c)
                        = Held(entries, c) - (IF Stored(i) THEN One(EntryOf(i).conn, c) ELSE 0)
                            + One(e.conn, c)
<1> DEFINE w == Without(i)
<1>1. w \in Seq(Entry)
  <2>1. CASE Stored(i)
    BY <2>1, WithoutEntries
  <2>2. CASE ~Stored(i)
    BY <2>2 DEF Without
  <2>3. QED
    BY <2>1, <2>2
<1>2. UniqueIn(entries)
  BY DEF UniqueIn, IdsUnique
<1>3. /\ UniqueIn(w)
      /\ \A n \in DOMAIN w : w[n].id # e.id
      /\ \A b : OwnedIn(w, b) = OwnedIn(entries, b) \ {i}
  BY <1>2, WithoutMap
<1>4. \A c : Held(w, c) = Held(entries, c) - (IF Stored(i) THEN One(EntryOf(i).conn, c) ELSE 0)
  BY HeldWithout
<1> HIDE DEF w
<1>5. /\ UniqueIn(Append(w, e))
      /\ \A b : OwnedIn(Append(w, e), b) = OwnedIn(w, b) \cup (IF e.account = b THEN {e.id} ELSE {})
  BY <1>1, <1>3, AppendMap
<1>6. \A c : Held(Append(w, e), c) = Held(w, c) + One(e.conn, c)
  BY <1>1, HeldAppend
<1>7. entries' = Append(w, e)
  BY DEF w
<1>8. IdsUnique'
  BY <1>5, <1>7 DEF UniqueIn, IdsUnique
<1>9. \A b : Owned(b)' = OwnedIn(entries', b)
  BY DEF Owned, OwnedIn, ToSet
<1>10. ASSUME NEW b, b # e.account PROVE Owned(b)' \subseteq Owned(b)
  <2>1. OwnedIn(entries', b) = OwnedIn(w, b)
    BY <1>5, <1>7, <1>10
  <2>2. QED
    BY <1>3, <1>9, <2>1, OwnedIs
<1>11. QED
  BY <1>4, <1>6, <1>7, <1>8, <1>9, <1>10

LEMMA InsertRest ==
    ASSUME Full, KeysInv', NEW t \in Requests, NEW i \in Ids, Insert(t, i)
    PROVE  Rest'
<1> DEFINE d == task[t].conn
           a == bound[d]
           e == [id |-> i, conn |-> d, account |-> a]
           stored == Append(Without(i), e)
           gained == IF i \in Keys THEN <<d>> ELSE <<>>
           old == EntryOf(i).conn
           lost == IF Stored(i) THEN <<old>> ELSE <<>>
           h == IF i \in Keys THEN d ELSE None
           o == over_cap(stored, a, i)
           r == [task[t] EXCEPT !.pc = "ending", !.conn = h, !.doomed = o, !.granted = TRUE]
<1>1. /\ t \in Tasks /\ task[t] \in Task /\ task[t].pc = "authenticated"
      /\ KeysInv /\ TypeOK /\ NoSocketLeaks /\ IdsUnique /\ SessionsCapped
      /\ entries \in Seq(Entry) /\ entries' \in Seq(Entry)
      /\ bound \in [Conns -> Accounts \cup {None}]
  BY TaskTyped DEF Tasks, Insert, Full, Rest, KeysInv, TypeOK
<1>2. task[t].doomed = {} /\ task[t].ended = None
  BY <1>1, BeforeTheEnd
<1>3. d \in Conns /\ a \in Accounts \cup {None} /\ e \in Entry /\ e.id = i /\ e.conn = d
      /\ e.account = a
  BY <1>1 DEF Task, Entry
<1>4. /\ entries' = stored /\ cut' = cut \ {a} /\ Released(gained, lost, {})
      /\ task' = [task EXCEPT ![t] = r]
  BY DEF Insert
<1>5. /\ r.conn = h /\ r.ended = None /\ r.doomed = o /\ r.granted /\ r.pc = "ending"
  BY <1>1, <1>2 DEF Task
<1>6. Neat(r)
  BY <1>5 DEF Neat
<1> HIDE DEF r, e
<1>7. /\ IdsUnique'
      /\ \A b : b # a => Owned(b)' \subseteq Owned(b)
      /\ \A b : Owned(b)' = OwnedIn(entries', b)
      /\ \A c : Held(entries', c) = Held(entries, c) - (IF Stored(i) THEN One(old, c) ELSE 0)
                                      + One(d, c)
  BY <1>1, <1>3, <1>4, InsertMap
<1>8. HandsTidy'
  BY <1>1, <1>4, <1>6, TidyStep
<1>9. \A c \in Conns : handles'[c] = handles[c] + Shift(c, t, r)
  <2>1. SUFFICES ASSUME NEW c \in Conns PROVE handles'[c] = handles[c] + Shift(c, t, r)
    OBVIOUS
  <2>2. handles'[c] = handles[c] + Count(c, gained) - Count(c, lost)
    BY <1>4, CountedIs DEF Released
  <2>3. Count(c, gained) = IF i \in Keys THEN One(d, c) ELSE 0
    BY CountOf
  <2>4. Count(c, lost) = IF Stored(i) THEN One(old, c) ELSE 0
    BY CountOf
  <2>5. /\ Held(entries, c) \in Nat /\ handles[c] \in Int
        /\ One(d, c) \in 0 .. 1 /\ One(old, c) \in 0 .. 1 /\ One(None, c) = 0
    BY <1>1, PlacesFinite, GatewayAssumption DEF TypeOK, One
  <2>6. One(h, c) = IF i \in Keys THEN One(d, c) ELSE 0
    BY <2>5
  <2>7. Shift(c, t, r) = Held(entries', c) - Held(entries, c)
                            + One(h, c) - One(d, c) + One(None, c) - One(None, c)
    BY <1>2, <1>5 DEF Shift
  <2> HIDE DEF gained, lost, old, h, d
  <2>8. QED
    BY <1>7, <2>2, <2>3, <2>4, <2>5, <2>6, <2>7
<1>10. (\A c \in Conns : handles'[c] \in Nat) => Sound'
  <2> HIDE DEF gained, lost
  <2>1. QED
    BY <1>1, <1>4, SoundReleased
<1>11. NoSocketLeaks'
  BY <1>1, <1>4, <1>9, <1>10, LeaksStep
<1>12. ASSUME NEW b \in Accounts, b \notin cut'
       PROVE  Cardinality(Pending(b)') <= MAX_SESSIONS_PER_ACCOUNT
  <2>1. CASE b = a
    <3>1. task'[t] = r
      BY <1>1, <1>4 DEF TypeOK
    <3>2. Evicting(t)' = o
      BY <1>5, <3>1 DEF Evicting
    <3>3. o \subseteq Evicted'
      BY <3>2 DEF Evicted
    <3>4. Pending(b)' \subseteq OwnedIn(stored, a) \ o
      BY <1>4, <1>7, <2>1, <3>3 DEF Pending
    <3>5. stored \in Seq(Entry) /\ a # None
      BY <1>1, <1>4, <2>1, GatewayAssumption
    <3> DEFINE left == Pending(b)'
    <3> HIDE DEF left, stored, a
    <3>6. Cardinality(left) <= MAX_SESSIONS_PER_ACCOUNT
      BY <3>4, <3>5, OverCapBound DEF left
    <3>7. QED
      BY <3>6 DEF left
  <2>2. CASE b # a
    <3>1. Owned(b)' \subseteq Owned(b) /\ b \notin cut
      BY <1>4, <1>7, <1>12, <2>2
    <3>2. Evicted \subseteq Evicted'
      BY <1>1, <1>2, <1>4, EvictedGrows
    <3>3. Pending(b)' \subseteq Pending(b)
      BY <3>1, <3>2 DEF Pending
    <3>4. QED
      BY <1>1, <3>1, <3>3, CapStep
  <2>3. QED
    BY <2>1, <2>2
<1>13. SessionsCapped'
  BY <1>12 DEF SessionsCapped, Pending, Evicted
<1>14. QED
  BY <1>7, <1>8, <1>11, <1>13 DEF Rest

(* A step that changes no task and no handle.                              *)
LEMMA TasksAloneRest ==
    ASSUME Full, KeysInv', UNCHANGED <<task, handles, cut>>, SameStore, Sound'
    PROVE  Rest'
<1> DEFINE r == task[Reaper]
<1>1. Reaper \in Tasks /\ KeysInv /\ TypeOK /\ HandsTidy
  BY DEF Tasks, Full, Rest, KeysInv
<1>2. task' = [task EXCEPT ![Reaper] = r] /\ Neat(r)
  BY <1>1, TidyTask DEF TypeOK
<1>3. \A c \in Conns : handles'[c] = handles[c] + One(r.conn, c) - One(r.conn, c)
                                       + One(r.ended, c) - One(r.ended, c)
  <2>1. SUFFICES ASSUME NEW c \in Conns
                 PROVE  handles'[c] = handles[c] + One(r.conn, c) - One(r.conn, c)
                                       + One(r.ended, c) - One(r.ended, c)
    OBVIOUS
  <2>2. handles[c] \in Int /\ One(r.conn, c) \in 0 .. 1 /\ One(r.ended, c) \in 0 .. 1
    BY <1>1 DEF TypeOK, One
  <2>3. QED
    BY <2>2
<1>4. QED
  BY <1>1, <1>2, <1>3, RestStep

LEMMA ReadRest ==
    ASSUME Full, KeysInv', NEW i \in Cookies, Read(i)
    PROVE  Rest'
<1>1. Stored(i) /\ Touch(i) /\ UNCHANGED <<open, bound, handles, task, cut>>
  BY DEF Read
<1>2. SameStore
  BY <1>1, TouchSame
<1>3. Sound'
  BY <1>1, SoundUnchanged DEF Full, Rest
<1>4. QED
  BY <1>1, <1>2, <1>3, TasksAloneRest

LEMMA LogoutRest ==
    ASSUME Full, KeysInv', NEW t \in Tasks, Logout(t)
    PROVE  Rest'
<1>1. /\ UNCHANGED <<open, handles, entries, task, cut>>
      /\ bound' = [bound EXCEPT ![task[t].ended] = None]
  BY DEF Logout
<1>2. NoSocketLeaks /\ IdsUnique /\ bound \in [Conns -> Accounts \cup {None}]
  BY DEF Full, Rest, KeysInv, TypeOK
<1>3. \A c \in Conns : bound'[c] # None => bound[c] # None
  BY <1>1, <1>2
<1>4. Sound'
  BY <1>1, <1>2, <1>3 DEF NoSocketLeaks, Sound
<1>5. SameStore
  BY <1>1, <1>2, SameEntries
<1>6. QED
  BY <1>1, <1>4, <1>5, TasksAloneRest

LEMMA DropRest ==
    ASSUME Full, KeysInv', NEW d \in Conns, Drop(d)
    PROVE  Rest'
<1>1. /\ UNCHANGED <<handles, entries, task, cut>>
      /\ open' = open \ {d} /\ bound' = [bound EXCEPT ![d] = None]
  BY DEF Drop
<1>2. NoSocketLeaks /\ IdsUnique /\ bound \in [Conns -> Accounts \cup {None}]
  BY DEF Full, Rest, KeysInv, TypeOK
<1>3. \A c \in Conns : bound'[c] # None => bound[c] # None /\ c # d
  BY <1>1, <1>2
<1>4. Sound'
  BY <1>1, <1>2, <1>3 DEF NoSocketLeaks, Sound
<1>5. SameStore
  BY <1>1, <1>2, SameEntries
<1>6. QED
  BY <1>1, <1>4, <1>5, TasksAloneRest

LEMMA ElapseRest ==
    ASSUME Full, KeysInv', Elapse
    PROVE  Rest'
<1>1. UNCHANGED <<open, bound, handles, entries, task, cut>>
  BY DEF Elapse
<1>2. SameStore /\ Sound'
  BY <1>1, SameEntries, SoundUnchanged DEF Full, Rest
<1>3. QED
  BY <1>1, <1>2, TasksAloneRest

LEMMA ManageRest ==
    ASSUME Full, KeysInv', NEW t \in Requests, task[t].pc \in {"creating", "revoking"},
           task' = [task EXCEPT ![t].pc = "ending", ![t].id = None],
           UNCHANGED <<open, bound, handles, entries, cut>>
    PROVE  Rest'
<1> DEFINE r == [task[t] EXCEPT !.pc = "ending", !.id = None]
<1>1. t \in Tasks /\ task[t] \in Task
  BY TaskTyped DEF Tasks, Full
<1>2. task[t].doomed = {} /\ task[t].ended = None
  BY <1>1, BeforeTheEnd
<1>3. Neat(r) /\ r.conn = task[t].conn /\ r.ended = task[t].ended
  BY <1>1, <1>2 DEF Task, Neat
<1>4. task' = [task EXCEPT ![t] = r]
  OBVIOUS
<1>5. Sound'
  BY SoundUnchanged DEF Full, Rest
<1> HIDE DEF r
<1>6. QED
  BY <1>1, <1>2, <1>3, <1>4, <1>5, QuietRest

LEMMA CreateKeyRest ==
    ASSUME Full, KeysInv', NEW t \in Requests, CreateKey(t)
    PROVE  Rest'
BY ManageRest DEF CreateKey

LEMMA RevokeKeyRest ==
    ASSUME Full, KeysInv', NEW t \in Requests, RevokeKey(t)
    PROVE  Rest'
BY ManageRest DEF RevokeKey

(* A free task is given sessions to end.                                   *)
LEMMA DoomRest ==
    ASSUME Full, KeysInv', NEW t \in Tasks, task[t].pc = "free", NEW d,
           task' = [task EXCEPT ![t].pc = "ending", ![t].doomed = d],
           UNCHANGED <<open, bound, handles, entries, cut>>
    PROVE  Rest'
<1> DEFINE r == [task[t] EXCEPT !.pc = "ending", !.doomed = d]
<1>1. task[t] \in Task
  BY TaskTyped DEF Full
<1>2. task[t].doomed = {} /\ task[t].ended = None
  BY <1>1, BeforeTheEnd
<1>3. Neat(r) /\ r.conn = task[t].conn /\ r.ended = task[t].ended
  BY <1>1, <1>2 DEF Task, Neat
<1>4. task' = [task EXCEPT ![t] = r]
  OBVIOUS
<1>5. Sound'
  BY SoundUnchanged DEF Full, Rest
<1> HIDE DEF r
<1>6. QED
  BY <1>1, <1>2, <1>3, <1>4, <1>5, QuietRest

LEMMA StartLogoutRest ==
    ASSUME Full, KeysInv', NEW t \in Requests, NEW i \in Cookies, StartLogout(t, i)
    PROVE  Rest'
BY DoomRest DEF StartLogout, Tasks

LEMMA ReapRest ==
    ASSUME Full, KeysInv', Reap
    PROVE  Rest'
<1> DEFINE d == {entries[n].id : n \in 1 .. idle}
<1>1. /\ task[Reaper].pc = "free" /\ Reaper \in Tasks
      /\ task' = [task EXCEPT ![Reaper].pc = "ending", ![Reaper].doomed = d]
      /\ UNCHANGED <<open, bound, handles, entries, cut>>
  BY DEF Reap, Tasks
<1> HIDE DEF d
<1>2. QED
  BY <1>1, DoomRest

----------------------------------------------------------------------------
(* One id is no longer to be ended by t; another account's entries, or     *)
(* none, are gone with it.                                                 *)
LEMMA OneLessDoomed ==
    ASSUME Full, KeysInv', NEW t \in Tasks, NEW i, NEW r, task' = [task EXCEPT ![t] = r],
           r.granted = task[t].granted, r.doomed = task[t].doomed \ {i}, cut' = cut,
           \A a : Owned(a)' = Owned(a) \ {i}
    PROVE  SessionsCapped'
<1>1. KeysInv /\ TypeOK /\ SessionsCapped /\ entries \in Seq(Entry)
  BY DEF Full, Rest, KeysInv, TypeOK
<1>2. \A u \in Requests : task'[u] = IF u = t THEN r ELSE task[u]
  BY <1>1 DEF TypeOK, Tasks
<1>3. \A u \in Requests : Evicting(u) \ {i} \subseteq Evicting(u)'
  BY <1>2 DEF Evicting
<1>4. Evicted' = UNION {Evicting(u)' : u \in Requests}
  BY DEF Evicted
<1>5. Evicted \ {i} \subseteq Evicted'
  BY <1>3, <1>4 DEF Evicted
<1>6. ASSUME NEW a \in Accounts, a \notin cut'
      PROVE  Cardinality(Pending(a)') <= MAX_SESSIONS_PER_ACCOUNT
  <2>1. Pending(a)' \subseteq Pending(a)
    BY <1>5 DEF Pending
  <2>2. QED
    BY <1>1, <1>6, <2>1, CapStep
<1>7. QED
  BY <1>6 DEF SessionsCapped, Pending, Evicted

LEMMA BeginEndRest ==
    ASSUME Full, KeysInv', NEW t \in Tasks, BeginEnd(t)
    PROVE  Rest'
<1>1. /\ task[t] \in Task /\ task[t].pc = "ending" /\ KeysInv /\ TypeOK /\ HandsTidy
      /\ IdsUnique /\ NoSocketLeaks /\ entries \in Seq(Entry)
      /\ UNCHANGED <<open, bound, handles, cut>>
  BY TaskTyped DEF BeginEnd, Full, Rest, KeysInv, TypeOK
<1>2. task[t].ended = None
  BY <1>1 DEF HandsTidy
<1>3. UniqueIn(entries)
  BY <1>1 DEF UniqueIn, IdsUnique
<1>4. Sound'
  BY <1>1, SoundUnchanged
<1>5. ASSUME NEW i \in task[t].doomed, Stored(i),
             task' = [task EXCEPT ![t].pc = "loggingout", ![t].ended = EntryOf(i).conn,
                                  ![t].doomed = @ \ {i}],
             entries' = Without(i)
      PROVE  Rest'
  <2> DEFINE d == EntryOf(i).conn
             r == [task[t] EXCEPT !.pc = "loggingout", !.ended = d, !.doomed = @ \ {i}]
  <2>1. task' = [task EXCEPT ![t] = r]
    BY <1>5
  <2> HIDE DEF d
  <2>2. /\ r.pc = "loggingout" /\ r.conn = task[t].conn /\ r.ended = d
        /\ r.granted = task[t].granted /\ r.doomed = task[t].doomed \ {i}
    BY <1>1 DEF Task
  <2> HIDE DEF r
  <2>3. HandsTidy'
    BY <1>1, <2>1, <2>2, TidyStep DEF Neat
  <2>4. UniqueIn(Without(i)) /\ \A a : OwnedIn(Without(i), a) = OwnedIn(entries, a) \ {i}
    BY <1>1, <1>3, WithoutMap
  <2>5. IdsUnique'
    BY <1>5, <2>4 DEF UniqueIn, IdsUnique
  <2>6. ASSUME NEW a PROVE Owned(a)' = Owned(a) \ {i}
    <3>1. Owned(a)' = OwnedIn(entries', a)
      BY DEF Owned, OwnedIn, ToSet
    <3>2. QED
      BY <1>5, <2>4, <3>1, OwnedIs
  <2>7. SessionsCapped'
    BY <1>1, <2>1, <2>2, <2>6, OneLessDoomed
  <2>8. \A c \in Conns : handles'[c] = handles[c] + Shift(c, t, r)
    <3>1. SUFFICES ASSUME NEW c \in Conns PROVE handles'[c] = handles[c] + Shift(c, t, r)
      OBVIOUS
    <3>2. Held(entries', c) = Held(entries, c) - One(d, c)
      BY <1>1, <1>5, HeldWithout DEF d
    <3>3. /\ Held(entries, c) \in Nat /\ handles[c] \in Int /\ One(None, c) = 0
          /\ One(d, c) \in 0 .. 1 /\ One(task[t].conn, c) \in 0 .. 1
      BY <1>1, PlacesFinite, GatewayAssumption DEF TypeOK, One
    <3>4. QED
      BY <1>1, <1>2, <2>2, <3>2, <3>3 DEF Shift
  <2>9. NoSocketLeaks'
    BY <1>1, <1>4, <2>1, <2>8, LeaksStep
  <2>10. QED
    BY <2>3, <2>5, <2>7, <2>9 DEF Rest
<1>6. ASSUME NEW i \in task[t].doomed, ~Stored(i),
             task' = [task EXCEPT ![t].doomed = @ \ {i}], UNCHANGED entries
      PROVE  Rest'
  <2> DEFINE r == [task[t] EXCEPT !.doomed = @ \ {i}]
  <2>1. task' = [task EXCEPT ![t] = r]
    BY <1>6
  <2>2. /\ r.pc = "ending" /\ r.conn = task[t].conn /\ r.ended = None
        /\ r.granted = task[t].granted /\ r.doomed = task[t].doomed \ {i}
    BY <1>1, <1>2 DEF Task
  <2> HIDE DEF r
  <2>3. HandsTidy'
    BY <1>1, <2>1, <2>2, TidyStep DEF Neat
  <2>4. IdsUnique'
    BY <1>1, <1>6 DEF IdsUnique
  <2>5. ASSUME NEW a PROVE Owned(a)' = Owned(a) \ {i}
    <3>1. Owned(a)' = Owned(a)
      BY <1>6 DEF Owned
    <3>2. i \notin OwnedIn(entries, a)
      BY <1>6 DEF OwnedIn, Stored
    <3>3. QED
      BY <3>1, <3>2, OwnedIs
  <2>6. SessionsCapped'
    BY <1>1, <2>1, <2>2, <2>5, OneLessDoomed
  <2>7. \A c \in Conns : handles'[c] = handles[c] + Shift(c, t, r)
    <3>1. SUFFICES ASSUME NEW c \in Conns PROVE handles'[c] = handles[c] + Shift(c, t, r)
      OBVIOUS
    <3>2. /\ Held(entries, c) \in Nat /\ handles[c] \in Int /\ One(None, c) = 0
          /\ One(task[t].conn, c) \in 0 .. 1
      BY <1>1, PlacesFinite, GatewayAssumption DEF TypeOK, One
    <3>3. QED
      BY <1>1, <1>2, <1>6, <2>2, <3>2 DEF Shift
  <2>8. NoSocketLeaks'
    BY <1>1, <1>4, <2>1, <2>7, LeaksStep
  <2>9. QED
    BY <2>3, <2>4, <2>6, <2>8 DEF Rest
<1>7. QED
  BY <1>5, <1>6 DEF BeginEnd

LEMMA FinishEndRest ==
    ASSUME Full, KeysInv', NEW t \in Tasks, FinishEnd(t)
    PROVE  Rest'
<1> DEFINE r == [task[t] EXCEPT !.pc = "ending", !.ended = None]
           d == task[t].ended
<1>1. /\ task[t] \in Task /\ task[t].pc = "loggingout" /\ KeysInv /\ TypeOK
      /\ IdsUnique /\ NoSocketLeaks /\ UNCHANGED <<entries, cut>>
      /\ Released(<<>>, <<d>>, {d})
  BY TaskTyped DEF FinishEnd, Full, Rest, KeysInv
<1>2. task' = [task EXCEPT ![t] = r]
  BY DEF FinishEnd
<1>3. /\ r.pc = "ending" /\ r.conn = task[t].conn /\ r.ended = None
      /\ r.granted = task[t].granted /\ r.doomed = task[t].doomed
  BY <1>1 DEF Task
<1>4. Neat(r)
  BY <1>3 DEF Neat
<1> HIDE DEF r
<1>5. ASSUME NEW c \in Conns
      PROVE  handles'[c] = handles[c] + One(r.conn, c) - One(task[t].conn, c)
                             + One(r.ended, c) - One(task[t].ended, c)
  <2>1. handles'[c] = handles[c] + Count(c, <<>>) - Count(c, <<d>>)
    BY <1>1, CountedIs DEF Released
  <2>2. Count(c, <<>>) = 0 /\ Count(c, <<d>>) = One(d, c)
    BY CountOf
  <2>3. handles[c] \in Int /\ One(d, c) \in 0 .. 1 /\ One(None, c) = 0
        /\ One(task[t].conn, c) \in 0 .. 1
    BY <1>1, GatewayAssumption DEF TypeOK, One
  <2>4. QED
    BY <1>3, <2>1, <2>2, <2>3
<1>6. (\A c \in Conns : handles'[c] \in Nat) => Sound'
  BY <1>1, SoundReleased
<1>7. SameStore
  BY <1>1, SameEntries
<1>8. QED
  BY <1>1, <1>2, <1>3, <1>4, <1>5, <1>6, <1>7, RestStep

LEMMA AnswerRest ==
    ASSUME Full, KeysInv', NEW t \in Tasks, Answer(t)
    PROVE  Rest'
<1>1. task[t].pc = "ending" /\ task[t].doomed = {}
  BY DEF Answer
<1>2. task[t].ended = None
  BY <1>1 DEF Full, Rest, HandsTidy
<1>3. /\ task' = [task EXCEPT ![t] = Free] /\ Released(<<>>, <<task[t].conn>>, {})
      /\ UNCHANGED <<entries, cut>>
  BY DEF Answer
<1>4. QED
  BY <1>1, <1>2, <1>3, LetGoRest

LEMMA TimeoutRest ==
    ASSUME Full, KeysInv', NEW t \in Requests, Timeout(t)
    PROVE  Rest'
<1> DEFINE d == task[t].conn
           e == task[t].ended
<1>1. /\ t \in Tasks /\ KeysInv /\ TypeOK /\ IdsUnique /\ NoSocketLeaks /\ SessionsCapped
      /\ entries \in Seq(Entry) /\ entries' = entries
      /\ task' = [task EXCEPT ![t] = Free]
      /\ Released(<<>>, <<d, e>>, {})
      /\ cut' = cut \cup {a \in Accounts : Owned(a) \cap Evicting(t) # {}}
  BY DEF Timeout, Tasks, Full, Rest, KeysInv, TypeOK
<1>2. HandsTidy'
  BY <1>1, FreeIsNeat, TidyStep
<1>3. IdsUnique'
  BY <1>1 DEF IdsUnique
<1>4. \A c \in Conns : handles'[c] = handles[c] + Shift(c, t, Free)
  <2>1. SUFFICES ASSUME NEW c \in Conns PROVE handles'[c] = handles[c] + Shift(c, t, Free)
    OBVIOUS
  <2>2. handles'[c] = handles[c] + Count(c, <<>>) - Count(c, <<d, e>>)
    BY <1>1, CountedIs DEF Released
  <2>3. Count(c, <<>>) = 0 /\ Count(c, <<d, e>>) = One(d, c) + One(e, c)
    BY CountOf
  <2>4. /\ handles[c] \in Int /\ Held(entries, c) \in Nat
        /\ One(d, c) \in 0 .. 1 /\ One(e, c) \in 0 .. 1 /\ One(None, c) = 0
    BY <1>1, PlacesFinite, GatewayAssumption DEF TypeOK, One
  <2>5. QED
    BY <1>1, <2>2, <2>3, <2>4, FreeIsNeat DEF Shift
<1>5. (\A c \in Conns : handles'[c] \in Nat) => Sound'
  BY <1>1, SoundReleased
<1>6. NoSocketLeaks'
  BY <1>1, <1>4, <1>5, LeaksStep
<1>7. \A u \in Requests : task'[u] = IF u = t THEN Free ELSE task[u]
  BY <1>1 DEF TypeOK, Tasks
<1>8. \A u \in Requests : Evicting(u) \subseteq Evicting(u)' \cup Evicting(t)
  BY <1>7 DEF Evicting
<1>9. Evicted' = UNION {Evicting(u)' : u \in Requests}
  BY DEF Evicted
<1>10. Evicted \subseteq Evicted' \cup Evicting(t)
  BY <1>8, <1>9 DEF Evicted
<1>11. ASSUME NEW a \in Accounts, a \notin cut'
       PROVE  Cardinality(Pending(a)') <= MAX_SESSIONS_PER_ACCOUNT
  <2>1. a \notin cut /\ Owned(a) \cap Evicting(t) = {}
    BY <1>1, <1>11
  <2>2. Owned(a)' = Owned(a)
    BY <1>1 DEF Owned
  <2>3. Pending(a)' \subseteq Pending(a)
    BY <1>10, <2>1, <2>2 DEF Pending
  <2>4. QED
    BY <1>1, <2>1, <2>3, CapStep
<1>12. SessionsCapped'
  BY <1>11 DEF SessionsCapped, Pending, Evicted
<1>13. QED
  BY <1>2, <1>3, <1>6, <1>12 DEF Rest

LEMMA EndingRest ==
    ASSUME Full, KeysInv', NEW t \in Tasks, Ending(t)
    PROVE  Rest'
BY BeginEndRest, LogoutRest, FinishEndRest, AnswerRest DEF Ending

LEMMA InitRest == Init => Rest
<1> SUFFICES ASSUME Init PROVE Rest
  OBVIOUS
<1>1. KeysInv
  BY InitInv
<1>2. /\ entries = <<>> /\ open = {} /\ \A t \in Tasks : task[t] = Free
      /\ \A c \in Conns : bound[c] = None /\ handles[c] = 0
  BY DEF Init
<1>3. HandsTidy
  BY <1>2, FreeIsNeat DEF HandsTidy, Free, Begun
<1>4. IdsUnique
  BY <1>2 DEF IdsUnique
<1>5. ASSUME NEW c \in Conns PROVE Holders(c) = 0
  <2>1. {k \in DOMAIN [n \in DOMAIN entries |-> entries[n].conn] :
            [n \in DOMAIN entries |-> entries[n].conn][k] = c} = {}
    BY <1>2
  <2>2. {t \in Tasks : task[t].conn = c} = {} /\ {t \in Tasks : task[t].ended = c} = {}
    BY <1>2, FreeIsNeat, GatewayAssumption
  <2>3. Count(c, [n \in DOMAIN entries |-> entries[n].conn]) = 0
    BY <2>1, FS_EmptySet DEF Count
  <2>4. /\ Cardinality({t \in Tasks : task[t].conn = c}) = 0
        /\ Cardinality({t \in Tasks : task[t].ended = c}) = 0
    BY <2>2, FS_EmptySet
  <2>5. QED
    BY <2>3, <2>4 DEF Holders
<1>6. NoSocketLeaks
  BY <1>2, <1>5 DEF NoSocketLeaks
<1>7. ASSUME NEW a \in Accounts PROVE Pending(a) = {}
  <2>1. OwnedIn(entries, a) = {}
    BY <1>2 DEF OwnedIn
  <2>2. QED
    BY <2>1, OwnedIs DEF Pending
<1>8. SessionsCapped
  BY <1>7, FS_EmptySet, GatewayAssumption DEF SessionsCapped, Pending, Evicted
<1>9. QED
  BY <1>3, <1>4, <1>6, <1>8 DEF Rest

LEMMA NextRest == Full /\ [Next]_vars => Full'
<1> SUFFICES ASSUME Full, [Next]_vars PROVE Full'
  OBVIOUS
<1>0. KeysInv'
  BY NextInv DEF Full
<1>1. CASE UNCHANGED vars
  <2>1. /\ UNCHANGED <<open, bound, handles, entries, task, cut>>
    BY <1>1 DEF vars
  <2>2. SameStore /\ Sound'
    BY <2>1, SameEntries, SoundUnchanged DEF Full, Rest
  <2>3. QED
    BY <1>0, <2>1, <2>2, TasksAloneRest DEF Full
<1>2. ASSUME NEW t \in Requests, Arrival(t) PROVE Rest'
  BY <1>0, <1>2, StartLoginRest, StartKeyRest, StartManageRest, StartLogoutRest DEF Arrival
<1>3. ASSUME NEW t \in Requests, Handling(t) PROVE Rest'
  <2>1. t \in Tasks
    BY DEF Tasks
  <2>2. QED
    BY <1>0, <1>3, <2>1, ConnectRest, AuthenticateRest, ReauthenticateRest, InsertRest,
       CreateKeyRest, RevokeKeyRest, EndingRest DEF Handling
<1>4. ASSUME NEW t \in Requests, Timeout(t) PROVE Rest'
  BY <1>0, <1>4, TimeoutRest
<1>5. ASSUME NEW i \in Cookies, Read(i) PROVE Rest'
  BY <1>0, <1>5, ReadRest
<1>6. CASE Reap
  BY <1>0, <1>6, ReapRest DEF Full
<1>7. CASE Ending(Reaper)
  BY <1>0, <1>7, EndingRest DEF Full, Tasks
<1>8. CASE Elapse
  BY <1>0, <1>8, ElapseRest DEF Full
<1>9. ASSUME NEW d \in Conns, Drop(d) PROVE Rest'
  BY <1>0, <1>9, DropRest
<1>10. QED
  BY <1>0, <1>1, <1>2, <1>3, <1>4, <1>5, <1>6, <1>7, <1>8, <1>9 DEF Next, Full

----------------------------------------------------------------------------
(* The inductive invariant: the types; the store's lock is held by the     *)
(* task that waits for a logout and by no other (session.rs:116); keys     *)
(* only die, and no revoked key opens a door; a task holds handles and has *)
(* sessions to end only at the points of its handler where it may; the     *)
(* store has one entry per id.                                             *)
THEOREM Invariance == Spec => []IInv
<1>1. Init => Full
  BY InitInv, InitRest DEF Full
<1>2. Full => IInv
  BY DEF Full, Rest, IInv
<1>3. QED
  BY <1>1, <1>2, NextRest, PTL DEF Spec

(* No request is answered with success if its API key had been revoked     *)
(* when it came in, for any number of keys, requests, connections and any  *)
(* caps, although a key's connection is cached, shared, replaced, evicted  *)
(* and reaped meanwhile (auth.rs:226).                                     *)
THEOREM RevokedKeysStayDead == Spec => []RevokedKeysDie
<1>1. IInv => RevokedKeysDie
  BY DEF IInv, KeysInv
<1>2. QED
  BY <1>1, Invariance, PTL

(* The store's lock is free whenever no task waits for a logout: neither a *)
(* timeout nor a failed call leaves it held (api/mod.rs:52).               *)
THEOREM LockIsReleased == Spec => []LockIsOfTheEnding
<1>1. IInv => LockIsOfTheEnding
  BY DEF IInv, KeysInv
<1>2. QED
  BY <1>1, Invariance, PTL

(* The handles of a connection are those of the entries and the tasks that *)
(* hold one, whatever is replaced, evicted, reaped or dropped at a timeout *)
(* on the way, so the socket closes with the last of them, and no socket   *)
(* or session row is up without one (connection.rs:81).                    *)
THEOREM HandlesBalance == Spec => []NoSocketLeaks
<1>1. Init => Full
  BY InitInv, InitRest DEF Full
<1>2. Full => NoSocketLeaks
  BY DEF Full, Rest
<1>3. QED
  BY <1>1, <1>2, NextRest, PTL DEF Spec

(* An account of which no eviction was cut short by a timeout has at most  *)
(* MAX_SESSIONS_PER_ACCOUNT sessions besides those about to be evicted,    *)
(* for any cap and however the logins interleave (session.rs:27).          *)
THEOREM AllowanceHolds == Spec => []SessionsCapped
<1>1. Init => Full
  BY InitInv, InitRest DEF Full
<1>2. Full => SessionsCapped
  BY DEF Full, Rest
<1>3. QED
  BY <1>1, <1>2, NextRest, PTL DEF Spec
=============================================================================
