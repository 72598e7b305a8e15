----------------------------- MODULE Lifecycle -----------------------------
(***************************************************************************)
(* Who plays which character: connections, sessions, characters and        *)
(* presence (reducers/account.rs and reducers/lifecycle.rs).               *)
(*                                                                         *)
(* A connection authenticates as an account (register, login) and then     *)
(* selects or creates a character (join).  The session row that records    *)
(* both is keyed by the connection's identity, which the client caches on  *)
(* disk: two windows on one machine are two connections of one identity,   *)
(* and a client that lost its cached token comes back under another.       *)
(*                                                                         *)
(* client_disconnected does not run for the connections that die with an   *)
(* instance of the server (lifecycle.rs:617): Crash closes them and leaves *)
(* every row as it is.  Presence is inferred from heartbeats; last_seen is *)
(* abstracted to whether it is younger than PRESENCE_TIMEOUT_SECONDS.      *)
(*                                                                         *)
(* Left out: what the same handlers do to the entity (its move target and  *)
(* its stats), the starter items, and the credentials, which are data.     *)
(***************************************************************************)
EXTENDS Integers, FiniteSets

CONSTANTS
    Conns,            \* sockets
    Identities,
    Accounts,
    Characters,
    MAX_CHARACTERS_PER_ACCOUNT,   \* lib.rs: 3
    None              \* no identity, no account, no character

ASSUME LifecycleAssumption ==
    /\ IsFiniteSet(Characters)
    /\ None \notin Identities \cup Accounts \cup Characters
    /\ MAX_CHARACTERS_PER_ACCOUNT \in Nat
    /\ {"unborn", "gone"} \cap Accounts = {}

VARIABLES
    conn,         \* the identity of an open connection, None when closed
    registered,   \* accounts with a row
    sessAccount,  \* session.account_id of an identity, None: no session row
    sessChar,     \* session.character_id of an identity
    owner,        \* player.account_id; "unborn" and "gone": no player row
    online,       \* player.online
    fresh         \* player.last_seen is younger than the timeout

vars == <<conn, registered, sessAccount, sessChar, owner, online, fresh>>

TypeOK ==
    /\ conn \in [Conns -> Identities \cup {None}]
    /\ registered \subseteq Accounts
    /\ sessAccount \in [Identities -> Accounts \cup {None}]
    /\ sessChar \in [Identities -> Characters \cup {None}]
    /\ owner \in [Characters -> Accounts \cup {"unborn", "gone"}]
    /\ online \in [Characters -> BOOLEAN]
    /\ fresh \in [Characters -> BOOLEAN]

----------------------------------------------------------------------------
Open(k) == conn[k] # None
Exists(c) == owner[c] \in Accounts
Roster(a) == {c \in Characters : owner[c] = a}

(* The character that identity i plays; none if the one its session names  *)
(* has been deleted since.                                                 *)
active_character(i) ==
    IF sessChar[i] # None /\ Exists(sessChar[i]) THEN sessChar[i] ELSE None

at_character_cap(a) == Cardinality(Roster(a)) >= MAX_CHARACTERS_PER_ACCOUNT

(* Another identity's session names the character. *)
already_played(i, c) == \E j \in Identities \ {i} : sessChar[j] = c

----------------------------------------------------------------------------
Init ==
    /\ conn = [k \in Conns |-> None]
    /\ registered = {}
    /\ sessAccount = [i \in Identities |-> None]
    /\ sessChar = [i \in Identities |-> None]
    /\ owner = [c \in Characters |-> "unborn"]
    /\ online = [c \in Characters |-> FALSE]
    /\ fresh = [c \in Characters |-> FALSE]

(* player.online and player.last_seen written together. *)
MarkOnline(c) ==
    /\ online' = [online EXCEPT ![c] = TRUE]
    /\ fresh' = [fresh EXCEPT ![c] = TRUE]

MarkOffline(c) ==
    /\ online' = [online EXCEPT ![c] = FALSE]
    /\ fresh' = [fresh EXCEPT ![c] = TRUE]

(* client_connected: a session that outlived its connection resumes. *)
Connect(k, i) ==
    /\ ~Open(k)
    /\ conn' = [conn EXCEPT ![k] = i]
    /\ IF active_character(i) # None THEN MarkOnline(active_character(i))
                                     ELSE UNCHANGED <<online, fresh>>
    /\ UNCHANGED <<registered, sessAccount, sessChar, owner>>

(* client_disconnected *)
Disconnect(k) ==
    LET i == conn[k]
    IN  /\ Open(k)
        /\ conn' = [conn EXCEPT ![k] = None]
        /\ IF active_character(i) # None THEN MarkOffline(active_character(i))
                                         ELSE UNCHANGED <<online, fresh>>
        /\ sessAccount' = [sessAccount EXCEPT ![i] = None]
        /\ sessChar' = [sessChar EXCEPT ![i] = None]
        /\ UNCHANGED <<registered, owner>>

(* The server dies or is republished; its connections go unannounced. *)
Crash ==
    /\ \E k \in Conns : Open(k)
    /\ conn' = [k \in Conns |-> None]
    /\ UNCHANGED <<registered, sessAccount, sessChar, owner, online, fresh>>

(* Mutant: the character is kept whatever account the session had. *)
bind_session_keeps_character(i, a) ==
    /\ sessAccount' = [sessAccount EXCEPT ![i] = a]
    /\ UNCHANGED sessChar

(* A session re-bound to the same account keeps its character. *)
bind_session(i, a) ==
    /\ sessAccount' = [sessAccount EXCEPT ![i] = a]
    /\ sessChar' = [sessChar EXCEPT ![i] = IF sessAccount[i] = a THEN @ ELSE None]

register(k, a) ==
    /\ Open(k)
    /\ a \notin registered
    /\ registered' = registered \cup {a}
    /\ bind_session(conn[k], a)
    /\ UNCHANGED <<conn, owner, online, fresh>>

(* With the right password. *)
login(k, a) ==
    /\ Open(k)
    /\ a \in registered
    /\ bind_session(conn[k], a)
    /\ UNCHANGED <<conn, registered, owner, online, fresh>>

logout(k) ==
    /\ Open(k)
    /\ sessAccount' = [sessAccount EXCEPT ![conn[k]] = None]
    /\ sessChar' = [sessChar EXCEPT ![conn[k]] = None]
    /\ UNCHANGED <<conn, registered, owner, online, fresh>>

set_active_character(i, c) == sessChar' = [sessChar EXCEPT ![i] = c]

(* Mutant: only a session whose character is online counts. *)
MaySelectOffline(i, c) ==
    /\ owner[c] = sessAccount[i]
    /\ ~(already_played(i, c) /\ online[c])

MaySelect(i, c) == owner[c] = sessAccount[i] /\ ~already_played(i, c)

(* join with the name of a character of the account.  The character the    *)
(* connection played before is left as it is.                              *)
JoinExisting(k, c) ==
    LET i == conn[k]
    IN  /\ Open(k)
        /\ sessAccount[i] # None
        /\ Exists(c)
        /\ MaySelect(i, c)
        /\ set_active_character(i, c)
        /\ MarkOnline(c)
        /\ UNCHANGED <<conn, registered, sessAccount, owner>>

(* join with a name nobody has. *)
JoinNew(k, c) ==
    LET i == conn[k]
    IN  /\ Open(k)
        /\ sessAccount[i] # None
        /\ owner[c] = "unborn"
        /\ ~at_character_cap(sessAccount[i])
        /\ owner' = [owner EXCEPT ![c] = sessAccount[i]]
        /\ set_active_character(i, c)
        /\ MarkOnline(c)
        /\ UNCHANGED <<conn, registered, sessAccount>>

leave(k) ==
    LET c == active_character(conn[k])
    IN  /\ Open(k)
        /\ c # None
        /\ MarkOffline(c)
        /\ set_active_character(conn[k], None)
        /\ UNCHANGED <<conn, registered, sessAccount, owner>>

(* Whether or not the character is active, here or on another connection   *)
(* of the account.                                                         *)
delete_character(k, c) ==
    LET i == conn[k]
    IN  /\ Open(k)
        /\ Exists(c)
        /\ owner[c] = sessAccount[i]
        /\ owner' = [owner EXCEPT ![c] = "gone"]
        /\ online' = [online EXCEPT ![c] = FALSE]
        /\ fresh' = [fresh EXCEPT ![c] = FALSE]
        /\ sessChar' = [sessChar EXCEPT ![i] = IF @ = c THEN None ELSE @]
        /\ UNCHANGED <<conn, registered, sessAccount>>

heartbeat(k) ==
    LET c == active_character(conn[k])
    IN  /\ Open(k)
        /\ c # None
        /\ MarkOnline(c)
        /\ UNCHANGED <<conn, registered, sessAccount, sessChar, owner>>

(* PRESENCE_TIMEOUT_SECONDS go by without a call that writes last_seen. *)
Lapse(c) ==
    /\ Exists(c)
    /\ fresh[c]
    /\ fresh' = [fresh EXCEPT ![c] = FALSE]
    /\ UNCHANGED <<conn, registered, sessAccount, sessChar, owner, online>>

(* Mutant: a character that a session names is taken for present. *)
StaleUnlessNamed ==
    {c \in Characters : online[c] /\ ~fresh[c] /\ \A i \in Identities : sessChar[i] # c}

Stale == {c \in Characters : online[c] /\ ~fresh[c]}

(* Called from the tick, once a second. *)
expire_stale_presence ==
    /\ Stale # {}
    /\ online' = [c \in Characters |-> online[c] /\ c \notin Stale]
    /\ UNCHANGED <<conn, registered, sessAccount, sessChar, owner, fresh>>

Next ==
    \/ \E k \in Conns :
          \/ Disconnect(k) \/ logout(k) \/ leave(k) \/ heartbeat(k)
          \/ \E i \in Identities : Connect(k, i)
          \/ \E a \in Accounts : register(k, a) \/ login(k, a)
          \/ \E c \in Characters :
                JoinExisting(k, c) \/ JoinNew(k, c) \/ delete_character(k, c)
    \/ \E c \in Characters : Lapse(c)
    \/ expire_stale_presence
    \/ Crash

Spec == Init /\ [][Next]_vars

(* Time passes and the tick runs; nobody has to call anything. *)
FairSpec ==
    /\ Spec
    /\ \A c \in Characters : WF_vars(Lapse(c))
    /\ WF_vars(expire_stale_presence)

----------------------------------------------------------------------------
(* Properties.                                                             *)

(* An existing character is the active character of at most one session,   *)
(* whatever the order of joins, re-logins, crashes and reconnections: two  *)
(* connections never steer the same character under two identities.        *)
OneSessionPerCharacter ==
    \A i, j \in Identities :
        i # j /\ sessChar[i] # None => sessChar[i] # sessChar[j]

(* A session plays only characters of the account that it is authenticated *)
(* as, after re-logins on the same connection and after the character was  *)
(* deleted by another connection as well.                                  *)
SessionWithinAccount ==
    \A i \in Identities :
        /\ sessChar[i] # None => sessAccount[i] # None
        /\ active_character(i) # None => owner[active_character(i)] = sessAccount[i]

(* A session never names an id before the character was created; with it,  *)
(* the two invariants above are inductive (LifecycleProofs).               *)
NamedWasBorn ==
    \A i \in Identities : sessChar[i] # None => owner[sessChar[i]] # "unborn"

(* No account ever holds more characters than the cap. *)
CharacterCap ==
    \A a \in Accounts : Cardinality(Roster(a)) <= MAX_CHARACTERS_PER_ACCOUNT

(* Some open connection plays the character. *)
Played(c) == \E k \in Conns : Open(k) /\ sessChar[conn[k]] = c

(* A character that no connection plays does not stay online: one whose    *)
(* connection died with the server, logged out or switched to another      *)
(* character decays within the timeout (lifecycle.rs:638).                 *)
GhostsFade ==
    \A c \in Characters : online[c] /\ ~Played(c) ~> ~online[c] \/ Played(c)

============================================================================
