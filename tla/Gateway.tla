------------------------------ MODULE Gateway ------------------------------
(***************************************************************************)
(* The web gateway's session store, its connections to the game server and *)
(* the requests that share them (apps/gateway: stdb/session.rs,            *)
(* stdb/connection.rs, api/auth.rs, api/api_keys.rs), with the part of the *)
(* server those requests reach (reducers/api_keys.rs, and the session row  *)
(* that login, logout and client_disconnected write).                      *)
(*                                                                         *)
(* A task is an HTTP request being handled, or the reaper.  A step of a    *)
(* task is what it does between two awaits; an await is a reply of the     *)
(* server, a connection being opened, or the store's lock.  The lock of    *)
(* get, insert and the reaper's scan is released before the next await:    *)
(* such a step only needs the lock free.  end keeps its guard while it     *)
(* waits for the reply of logout, so it takes the lock and frees it in     *)
(* separate steps.                                                         *)
(*                                                                         *)
(* A connection's handles are counted as the Arc behind _guard counts      *)
(* them: its socket closes with the last one.  A call is served and its    *)
(* reply awaited in separate steps, so a request may time out before or    *)
(* after the server has done what it asked for.                            *)
(*                                                                         *)
(* last_seen is abstracted to the order of the entries, least recent       *)
(* first, and to how many of them are past SESSION_IDLE_TIMEOUT.  Cookie   *)
(* and connection names are reused once nothing refers to them.            *)
(*                                                                         *)
(* Left out: the HTTP layer, the rate limit, the directory's connection    *)
(* and what a handler reads once it has its connection.                    *)
(***************************************************************************)
EXTENDS Integers, FiniteSets, SequencesExt

CONSTANTS
    Conns,       \* connections to the server
    Requests,    \* requests handled at the same time
    Accounts,
    Cookies,     \* session ids minted by create
    Keys,        \* API keys; the session id of a key is the key itself
    MAX_SESSIONS_PER_ACCOUNT,    \* session.rs: 8
    MAX_API_KEYS_PER_ACCOUNT,    \* lib.rs: 20
    Reaper,
    None

ASSUME GatewayAssumption ==
    /\ IsFiniteSet(Requests)
    /\ MAX_SESSIONS_PER_ACCOUNT \in Nat \ {0}
    /\ MAX_API_KEYS_PER_ACCOUNT \in Nat
    /\ Cookies \cap Keys = {}
    /\ Reaper \notin Requests
    /\ None \notin Conns \cup Accounts \cup Cookies \cup Keys \cup Requests \cup {Reaper}
    /\ {"unissued", "revoked"} \cap Accounts = {}

VARIABLES
    open,      \* connections whose socket is up
    bound,     \* account of a connection's session row on the server
    handles,   \* handles alive of a connection
    keys,      \* account of an api_key row; "unissued" and "revoked": no row
    entries,   \* the session store, least recently seen first
    idle,      \* how many entries, from the first, are past the timeout
    lock,      \* the task that holds the store's write guard across an await
    task,      \* what each task is doing
    cut        \* accounts an eviction of which was cut short by the timeout

vars == <<open, bound, handles, keys, entries, idle, lock, task, cut>>

Tasks == Requests \cup {Reaper}
Ids == Cookies \cup Keys
Entry == [id : Ids, conn : Conns, account : Accounts \cup {None}]

(* conn: the handle the handler holds.  ended: the handle end has taken    *)
(* out of the store.  doomed: the ids the task has still to end.  granted: *)
(* the request will be answered with success.  whose: the account that     *)
(* owned its key when it came in, "revoked" if it had no row.              *)
Task == {r \in [pc : {"free", "connecting", "authenticating", "reauth", "authenticated",
                      "creating", "revoking", "ending", "loggingout"},
                id : Ids \cup {None}, conn : Conns \cup {None}, ended : Conns \cup {None},
                doomed : SUBSET Ids, granted : BOOLEAN,
                whose : Accounts \cup {"revoked", None}] :
            /\ r.pc \in {"authenticating", "authenticated", "creating", "revoking"}
                  => r.conn \in Conns
            /\ r.pc = "reauth" => r.id \in Keys}

(* A task that begins at p, about the id i, with a handle of c. *)
Begun(p, i, c, a) ==
    [pc |-> p, id |-> i, conn |-> c, ended |-> None,
     doomed |-> {}, granted |-> FALSE, whose |-> a]

Free == Begun("free", None, None, None)

TypeOK ==
    /\ open \subseteq Conns
    /\ bound \in [Conns -> Accounts \cup {None}]
    /\ handles \in [Conns -> Int]
    /\ keys \in [Keys -> Accounts \cup {"unissued", "revoked"}]
    /\ entries \in Seq(Entry)
    /\ idle \in 0 .. Len(entries)
    /\ lock \in Tasks \cup {None}
    /\ task \in [Tasks -> Task]
    /\ cut \subseteq Accounts

----------------------------------------------------------------------------
Stored(i) == \E n \in DOMAIN entries : entries[n].id = i
Position(i) == CHOOSE n \in DOMAIN entries : entries[n].id = i
EntryOf(i) == entries[Position(i)]
Without(i) == IF Stored(i) THEN RemoveAt(entries, Position(i)) ELSE entries
IsIdle(i) == Stored(i) /\ Position(i) <= idle

(* What is left of the idle entries when i leaves its place. *)
IdleWithout(i) == IF IsIdle(i) THEN idle - 1 ELSE idle

(* The handle counts once the handles in the sequence gained exist and     *)
(* those in lost are dropped; None stands for no handle.                   *)
Count(c, s) == Cardinality({n \in DOMAIN s : s[n] = c})
Counted(gained, lost) ==
    [c \in Conns |-> handles[c] + Count(c, gained) - Count(c, lost)]

(* The DisconnectGuard of the last handle closes the socket, disconnect    *)
(* closes it at once (shut); the server then deletes the session row.      *)
Released(gained, lost, shut) ==
    LET counted == Counted(gained, lost)
        closed == shut \cup {c \in Conns : counted[c] = 0}
    IN  /\ handles' = counted
        /\ open' = open \ closed
        /\ bound' = [c \in Conns |-> IF c \in closed THEN None ELSE bound[c]]

(* Mutant: the entry being inserted is not counted. *)
over_cap_forgets_keep(live, account, keep) ==
    LET owned == {n \in DOMAIN live : live[n].account = account /\ live[n].id # keep}
        newer(n) == {m \in owned : m > n}
    IN  IF account = None THEN {}
        ELSE {live[n].id : n \in {m \in owned :
                Cardinality(newer(m)) >= MAX_SESSIONS_PER_ACCOUNT}}

(* The ids to evict so that account is within its allowance, of which keep *)
(* takes one: all but the most recently seen.                              *)
over_cap(live, account, keep) ==
    LET owned == {n \in DOMAIN live : live[n].account = account /\ live[n].id # keep}
        newer(n) == {m \in owned : m > n}
    IN  IF account = None THEN {}
        ELSE {live[n].id : n \in {m \in owned :
                Cardinality(newer(m)) >= MAX_SESSIONS_PER_ACCOUNT - 1}}

----------------------------------------------------------------------------
Init ==
    /\ open = {}
    /\ bound = [c \in Conns |-> None]
    /\ handles = [c \in Conns |-> 0]
    /\ keys = [k \in Keys |-> "unissued"]
    /\ entries = <<>>
    /\ idle = 0
    /\ lock = None
    /\ task = [t \in Tasks |-> Free]
    /\ cut = {}

(* A login or a registration comes in. *)
StartLogin(t) ==
    /\ task[t].pc = "free"
    /\ task' = [task EXCEPT ![t].pc = "connecting"]
    /\ UNCHANGED <<open, bound, handles, keys, entries, idle, lock, cut>>

(* get: the entry's idle timer restarts. *)
Touch(i) ==
    /\ entries' = Append(Without(i), EntryOf(i))
    /\ idle' = IdleWithout(i)

(* connection_from_api_key, up to its first await: a request with the key  *)
(* k, which has been handed out, finds a cached connection or opens one.   *)
StartKey(t, k) ==
    /\ task[t].pc = "free"
    /\ keys[k] # "unissued"
    /\ lock = None
    /\ \/ /\ Stored(k)
          /\ task' = [task EXCEPT ![t] = Begun("reauth", k, EntryOf(k).conn, keys[k])]
          /\ handles' = Counted(<<EntryOf(k).conn>>, <<>>)
          /\ Touch(k)
       \/ /\ ~Stored(k)
          /\ task' = [task EXCEPT ![t] = Begun("connecting", k, None, keys[k])]
          /\ UNCHANGED <<handles, entries, idle>>
    /\ UNCHANGED <<open, bound, keys, lock, cut>>

(* GatewayConnection::connect; when it fails the request does. *)
Connect(t) ==
    /\ task[t].pc = "connecting"
    /\ \/ \E c \in Conns :
            /\ handles[c] = 0
            /\ open' = open \cup {c}
            /\ handles' = Counted(<<c>>, <<>>)
            /\ task' = [task EXCEPT ![t].pc = "authenticating", ![t].conn = c]
       \/ /\ task' = [task EXCEPT ![t] = Free]
          /\ UNCHANGED <<open, handles>>
    /\ UNCHANGED <<bound, keys, entries, idle, lock, cut>>

(* The account a call to register, login or authenticate_api_key on the    *)
(* task's connection authenticates it as; None when it is refused, or the  *)
(* socket is down.                                                         *)
Authenticates(t, a) ==
    LET k == task[t].id
    IN  IF task[t].conn \notin open THEN a = None
        ELSE IF k \in Keys THEN a = (IF keys[k] \in Accounts THEN keys[k] ELSE None)
        ELSE a \in Accounts \cup {None}

(* Mutant: a cached connection is handed out without asking the server. *)
Reauthenticate_trusts_the_cache(t) ==
    /\ task[t].pc = "reauth"
    /\ task' = [task EXCEPT ![t].pc = "ending", ![t].granted = TRUE]
    /\ UNCHANGED <<open, bound, handles, keys, entries, idle, lock, cut>>

(* authenticate_api_key on a cached connection: when it fails the handler  *)
(* goes on to end the session that is cached under the key.                *)
Reauthenticate(t) ==
    /\ task[t].pc = "reauth"
    /\ \E a \in Accounts \cup {None} :
        /\ Authenticates(t, a)
        /\ \/ /\ a # None
              /\ bound' = [bound EXCEPT ![task[t].conn] = a]
              /\ task' = [task EXCEPT ![t].pc = "ending", ![t].granted = TRUE]
           \/ /\ a = None
              /\ task' = [task EXCEPT ![t].pc = "ending", ![t].doomed = {task[t].id}]
              /\ UNCHANGED bound
    /\ UNCHANGED <<open, handles, keys, entries, idle, lock, cut>>

(* The first call on a fresh connection: register, login or                *)
(* authenticate_api_key.  A refused request disconnects it.                *)
Authenticate(t) ==
    /\ task[t].pc = "authenticating"
    /\ \E a \in Accounts \cup {None} :
        /\ Authenticates(t, a)
        /\ \/ /\ a # None
              /\ bound' = [bound EXCEPT ![task[t].conn] = a]
              /\ task' = [task EXCEPT ![t].pc = "authenticated"]
              /\ UNCHANGED <<open, handles>>
           \/ /\ a = None
              /\ task' = [task EXCEPT ![t] = Free]
              /\ Released(<<>>, <<task[t].conn>>, {task[t].conn})
    /\ UNCHANGED <<keys, entries, idle, lock, cut>>

(* SessionStore::insert, and create with a cookie that is nobody's: the    *)
(* account is read back from the connection, which has none if the socket  *)
(* died.  A login gives its handle to the store, a key request clones it.  *)
Insert(t, i) ==
    LET c == task[t].conn
        a == bound[c]
        key == i \in Keys
        stored == Append(Without(i), [id |-> i, conn |-> c, account |-> a])
    IN  /\ task[t].pc = "authenticated"
        /\ lock = None
        /\ IF key THEN i = task[t].id
           ELSE /\ task[t].id = None
                /\ ~Stored(i)
                /\ \A u \in Tasks : i \notin task[u].doomed
        /\ Released(IF key THEN <<c>> ELSE <<>>,
                    IF Stored(i) THEN <<EntryOf(i).conn>> ELSE <<>>, {})
        /\ entries' = stored
        /\ idle' = IdleWithout(i)
        /\ task' = [task EXCEPT ![t].pc = "ending",
                                ![t].conn = IF key THEN c ELSE None,
                                ![t].doomed = over_cap(stored, a, i),
                                ![t].granted = TRUE]
        /\ cut' = cut \ {a}
        /\ UNCHANGED <<keys, lock>>

----------------------------------------------------------------------------
(* A request that only reads (profile, wallet, stats, the list of keys),   *)
(* by cookie: the clone of the handle is gone when the step ends.          *)
Read(i) ==
    /\ Stored(i)
    /\ lock = None
    /\ Touch(i)
    /\ UNCHANGED <<open, bound, handles, keys, lock, task, cut>>

(* create and revoke of api_keys.rs, by cookie only, up to their call. *)
StartManage(t, i, k) ==
    /\ task[t].pc = "free"
    /\ Stored(i)
    /\ lock = None
    /\ bound[EntryOf(i).conn] # None
    /\ \E call \in {"creating", "revoking"} :
        task' = [task EXCEPT ![t] = Begun(call, k, EntryOf(i).conn, None)]
    /\ handles' = Counted(<<EntryOf(i).conn>>, <<>>)
    /\ Touch(i)
    /\ UNCHANGED <<open, bound, keys, lock, cut>>

(* The reducer create_api_key; the secret is drawn at random, so the key   *)
(* is one that nobody has used.                                            *)
CreateKey(t) ==
    LET k == task[t].id
        a == bound[task[t].conn]
    IN  /\ task[t].pc = "creating"
        /\ keys' = IF /\ a # None
                      /\ keys[k] = "unissued"
                      /\ Cardinality({j \in Keys : keys[j] = a}) < MAX_API_KEYS_PER_ACCOUNT
                   THEN [keys EXCEPT ![k] = a] ELSE keys
        /\ task' = [task EXCEPT ![t].pc = "ending", ![t].id = None]
        /\ UNCHANGED <<open, bound, handles, entries, idle, lock, cut>>

(* The reducer revoke_api_key: one of the caller's own keys. *)
RevokeKey(t) ==
    LET k == task[t].id
        a == bound[task[t].conn]
    IN  /\ task[t].pc = "revoking"
        /\ keys' = IF a # None /\ keys[k] = a THEN [keys EXCEPT ![k] = "revoked"] ELSE keys
        /\ task' = [task EXCEPT ![t].pc = "ending", ![t].id = None]
        /\ UNCHANGED <<open, bound, handles, entries, idle, lock, cut>>

(* The logout handler: it ends whatever the cookie names. *)
StartLogout(t, i) ==
    /\ task[t].pc = "free"
    /\ Stored(i)
    /\ task' = [task EXCEPT ![t].pc = "ending", ![t].doomed = {i}]
    /\ UNCHANGED <<open, bound, handles, keys, entries, idle, lock, cut>>

----------------------------------------------------------------------------
(* end, up to its await: the entry leaves the store, and the guard that    *)
(* removed it is kept to the end of the body of the if-let.  Ids that are  *)
(* ended one after another are taken in any order.                         *)
BeginEnd(t) ==
    /\ task[t].pc = "ending"
    /\ lock = None
    /\ \E i \in task[t].doomed :
        \/ /\ Stored(i)
           /\ task' = [task EXCEPT ![t].pc = "loggingout", ![t].ended = EntryOf(i).conn,
                                   ![t].doomed = @ \ {i}]
           /\ entries' = Without(i)
           /\ idle' = IdleWithout(i)
           /\ lock' = t
        \/ /\ ~Stored(i)
           /\ task' = [task EXCEPT ![t].doomed = @ \ {i}]
           /\ UNCHANGED <<entries, idle, lock>>
    /\ UNCHANGED <<open, bound, handles, keys, cut>>

(* The server runs the reducer logout; its reply is on the way. *)
Logout(t) ==
    /\ task[t].pc = "loggingout"
    /\ bound[task[t].ended] # None
    /\ bound' = [bound EXCEPT ![task[t].ended] = None]
    /\ UNCHANGED <<open, handles, keys, entries, idle, lock, task, cut>>

(* end, after its await: whether or not logout succeeded the connection is *)
(* closed, and the guard and the handle go.                                *)
FinishEnd(t) ==
    /\ task[t].pc = "loggingout"
    /\ Released(<<>>, <<task[t].ended>>, {task[t].ended})
    /\ lock' = None
    /\ task' = [task EXCEPT ![t].pc = "ending", ![t].ended = None]
    /\ UNCHANGED <<keys, entries, idle, cut>>

(* The request is answered, or the reaper's round is over. *)
Answer(t) ==
    /\ task[t].pc = "ending"
    /\ task[t].doomed = {}
    /\ Released(<<>>, <<task[t].conn>>, {})
    /\ task' = [task EXCEPT ![t] = Free]
    /\ UNCHANGED <<keys, entries, idle, lock, cut>>

Owned(a) == {e.id : e \in {f \in ToSet(entries) : f.account = a}}

(* What an insert of task t has still to evict. *)
Evicting(t) == IF task[t].granted THEN task[t].doomed ELSE {}

(* Mutant: the handle that end holds is forgotten, not dropped. *)
Timeout_leaks(t) ==
    /\ task[t].pc # "free"
    /\ Released(<<>>, <<task[t].conn>>, {})
    /\ lock' = IF lock = t THEN None ELSE lock
    /\ cut' = cut \cup {a \in Accounts : Owned(a) \cap Evicting(t) # {}}
    /\ task' = [task EXCEPT ![t] = Free]
    /\ UNCHANGED <<keys, entries, idle>>

(* Mutant: the guard outlives the handler. *)
Timeout_keeps_the_guard(t) ==
    /\ task[t].pc # "free"
    /\ Released(<<>>, <<task[t].conn, task[t].ended>>, {})
    /\ cut' = cut \cup {a \in Accounts : Owned(a) \cap Evicting(t) # {}}
    /\ task' = [task EXCEPT ![t] = Free]
    /\ UNCHANGED <<keys, entries, idle, lock>>

(* REQUEST_TIMEOUT: the handler's future is dropped where it awaits, and   *)
(* with it the guard and the handles it holds.                             *)
Timeout(t) ==
    /\ task[t].pc # "free"
    /\ Released(<<>>, <<task[t].conn, task[t].ended>>, {})
    /\ lock' = IF lock = t THEN None ELSE lock
    /\ cut' = cut \cup {a \in Accounts : Owned(a) \cap Evicting(t) # {}}
    /\ task' = [task EXCEPT ![t] = Free]
    /\ UNCHANGED <<keys, entries, idle>>

(* Mutant: the most recently seen of the idle sessions is spared. *)
Reap_spares_one ==
    /\ task[Reaper].pc = "free"
    /\ lock = None
    /\ idle > 1
    /\ task' = [task EXCEPT ![Reaper].pc = "ending",
                            ![Reaper].doomed = {entries[n].id : n \in 1 .. idle - 1}]
    /\ UNCHANGED <<open, bound, handles, keys, entries, idle, lock, cut>>

(* reap_idle, up to its first end: the ids that are past the timeout. *)
Reap ==
    /\ task[Reaper].pc = "free"
    /\ lock = None
    /\ idle > 0
    /\ task' = [task EXCEPT ![Reaper].pc = "ending",
                            ![Reaper].doomed = {entries[n].id : n \in 1 .. idle}]
    /\ UNCHANGED <<open, bound, handles, keys, entries, idle, lock, cut>>

(* Time passes: more of the entries are past the timeout. *)
Elapse ==
    /\ \E n \in idle + 1 .. Len(entries) : idle' = n
    /\ UNCHANGED <<open, bound, handles, keys, entries, lock, task, cut>>

(* A socket dies under its connection; the server drops its session row. *)
Drop(c) ==
    /\ c \in open
    /\ open' = open \ {c}
    /\ bound' = [bound EXCEPT ![c] = None]
    /\ UNCHANGED <<handles, keys, entries, idle, lock, task, cut>>

----------------------------------------------------------------------------
(* What a task does to end the sessions it has to, and then. *)
Ending(t) == BeginEnd(t) \/ Logout(t) \/ FinishEnd(t) \/ Answer(t)

Handling(t) ==
    \/ Connect(t)
    \/ Authenticate(t)
    \/ Reauthenticate(t)
    \/ \E i \in Ids : Insert(t, i)
    \/ CreateKey(t)
    \/ RevokeKey(t)
    \/ Ending(t)

Arrival(t) ==
    \/ StartLogin(t)
    \/ \E k \in Keys : StartKey(t, k)
    \/ \E i \in Cookies, k \in Keys : StartManage(t, i, k)
    \/ \E i \in Cookies : StartLogout(t, i)

Next ==
    \/ \E t \in Requests : Arrival(t) \/ Handling(t) \/ Timeout(t)
    \/ \E i \in Cookies : Read(i)
    \/ Reap \/ Ending(Reaper)
    \/ Elapse
    \/ \E c \in Conns : Drop(c)

(* The reaper runs every REAP_INTERVAL and is never cancelled; a request   *)
(* goes on or times out.  The store's lock is granted in the order it is   *)
(* asked for, so a task that keeps asking gets it (SF).  Nothing makes     *)
(* requests arrive, sockets die or time pass.                              *)
Fairness ==
    /\ SF_vars(Reap)
    /\ SF_vars(BeginEnd(Reaper))
    /\ WF_vars(FinishEnd(Reaper) \/ Answer(Reaper))
    /\ \A t \in Requests : WF_vars(Handling(t) \/ Timeout(t))

Spec == Init /\ [][Next]_vars
FairSpec == Spec /\ Fairness

----------------------------------------------------------------------------
(* "A revoked key dies even if the socket is still cached" (auth.rs:226):  *)
(* no request is answered with success if its key had been revoked when it *)
(* came in, whatever is cached, replaced, evicted or reaped meanwhile.     *)
RevokedKeysDie ==
    \A t \in Requests :
        task[t].granted /\ task[t].id \in Keys => task[t].whose \in Accounts

(* A key that a task came with has been handed out; if it still has a row  *)
(* then it had it when the task came, and so it had if the server has      *)
(* accepted it since.                                                      *)
KeysOnlyDie ==
    \A t \in Requests :
        task[t].id \in Keys /\ task[t].pc \notin {"creating", "revoking"} =>
            /\ keys[task[t].id] # "unissued"
            /\ keys[task[t].id] \in Accounts => task[t].whose = keys[task[t].id]
            /\ task[t].pc = "authenticated" => task[t].whose \in Accounts

(* The task that waits for a logout, and no other, holds the store's lock: *)
(* one session ends at a time, and no handler that is dropped in the       *)
(* middle of its end (api/mod.rs:52) leaves the store locked.              *)
LockIsOfTheEnding == \A t \in Tasks : lock = t <=> task[t].pc = "loggingout"

(* A task has a handle from the time it has a connection, a second one     *)
(* only while it ends a session, and sessions to end only from then on.    *)
HandsTidy ==
    \A t \in Tasks :
        /\ task[t].pc \in {"free", "connecting"} => task[t].conn = None
        /\ task[t].pc # "loggingout" => task[t].ended = None
        /\ task[t].pc \notin {"ending", "loggingout"} => task[t].doomed = {}

(* One entry per id: the store is a map. *)
IdsUnique == \A m, n \in DOMAIN entries : entries[m].id = entries[n].id => m = n

(* The inductive invariant of GatewayProofs, of which KeysInv needs no     *)
(* other part.                                                             *)
KeysInv == TypeOK /\ LockIsOfTheEnding /\ KeysOnlyDie /\ RevokedKeysDie
IInv == KeysInv /\ HandsTidy /\ IdsUnique

(* Nothing leaks a socket, neither a replaced or evicted entry nor a       *)
(* handler dropped in the middle of an await (connection.rs:81): the count *)
(* of a connection's handles is that of the entries and tasks that hold    *)
(* one, and a socket or a session row that is up has a handle.             *)
Holders(c) == Count(c, [n \in DOMAIN entries |-> entries[n].conn])
                + Cardinality({t \in Tasks : task[t].conn = c})
                + Cardinality({t \in Tasks : task[t].ended = c})
NoSocketLeaks ==
    \A c \in Conns : /\ handles[c] = Holders(c)
                     /\ c \in open => handles[c] > 0
                     /\ bound[c] # None => c \in open

(* An account has no more sessions than MAX_SESSIONS_PER_ACCOUNT, not      *)
(* counting what inserts on the way are about to evict, however logins     *)
(* interleave (session.rs:27); only an eviction that a timeout cut short   *)
(* leaves more, until the account's next login.                            *)
SessionsCapped ==
    \A a \in Accounts \ cut :
        Cardinality(Owned(a) \ UNION {Evicting(t) : t \in Requests})
            <= MAX_SESSIONS_PER_ACCOUNT

(* A forgotten session does not hold a connection open forever             *)
(* (session.rs:20): once idle it is used again or it ends.                 *)
IdleSessionsEnd == \A i \in Ids : IsIdle(i) ~> ~IsIdle(i)

=============================================================================
