---------------------------- MODULE LoginSessions ----------------------------
(***************************************************************************)
(* The login sessions of one user: a Redis hash with one field per token   *)
(* and one time-to-live for the whole key.  A login and a logout are several *)
(* commands each, sent one after the other, and those of different requests *)
(* interleave.  A command may fail before or after it was carried out, and *)
(* the Redis client sends one again whose reply it did not get.            *)
(***************************************************************************)
EXTENDS Integers

CONSTANTS
  AuthCall,   \* requests in progress at the same time
  MaxTokens   \* bound: tokens ever made

ASSUME AuthTokens == MaxTokens \in Nat

\* Tokens are random; they are numbered as they are made.
Token == 1 .. MaxTokens

VARIABLES
  hash,       \* the tokens in the hash; without any there is no key
  expiring,   \* whether the key has a time-to-live
  auth,       \* what each request is doing
  issued,     \* number of tokens made so far
  loggedOut,  \* history: tokens whose logout was answered with success
  broken      \* history: a command of a login failed or was sent twice

authVars == <<hash, expiring, auth, issued, loggedOut, broken>>

AuthIdle == [step |-> "idle"]
AuthState == [step : {"idle"}]
             \cup [step : {"save", "expire", "count", "drop", "extend"}, token : Token]

AuthAt(c, s) == auth[c].step = s
AuthGoes(c, s) == auth' = [auth EXCEPT ![c].step = s]
AuthEnds(c) == auth' = [auth EXCEPT ![c] = AuthIdle]

\* The hash gets these tokens: the key disappears with the last of them, and
\* a new key has no time-to-live.
Holds(S) ==
  /\ hash' = S
  /\ expiring' = (expiring /\ hash # {} /\ S # {})

-----------------------------------------------------------------------------
\* Login: any token that is there is answered as it is, which changes nothing;
\* if there is none, a new one is made.
LoginBegin(c) ==
  /\ AuthAt(c, "idle")
  /\ hash = {}
  /\ issued < MaxTokens
  /\ issued' = issued + 1
  /\ auth' = [auth EXCEPT ![c] = [step |-> "save", token |-> issued']]
  /\ UNCHANGED <<hash, expiring, loggedOut, broken>>

\* A LoginSave without its EXPIRE.
LoginSave_NoExpire(c) ==
  /\ AuthAt(c, "save")
  /\ Holds(hash \cup {auth[c].token})
  /\ AuthEnds(c)
  /\ UNCHANGED <<issued, loggedOut, broken>>

\* Save: HSET.  Without a reply it is sent again, or fails.
LoginSave(c) ==
  /\ AuthAt(c, "save")
  /\ \/ /\ Holds(hash \cup {auth[c].token})
        /\ AuthGoes(c, "expire")
        /\ UNCHANGED broken
     \/ /\ Holds(hash \cup {auth[c].token})
        /\ auth' \in {auth, [auth EXCEPT ![c] = AuthIdle]}
        /\ broken' = TRUE
  /\ UNCHANGED <<issued, loggedOut>>

\* ... and EXPIRE, which does nothing to a key that is gone.
LoginExpire(c) ==
  /\ AuthAt(c, "expire")
  /\ AuthEnds(c)
  /\ \/ expiring' = (hash # {}) /\ UNCHANGED broken
     \/ expiring' = expiring /\ broken' = TRUE
  /\ UNCHANGED <<hash, issued, loggedOut>>

\* Logout: HDEL.  A token that is not there is refused.
LogoutRemove(c, t) ==
  /\ AuthAt(c, "idle")
  /\ t \in hash
  /\ Holds(hash \ {t})
  /\ auth' = [auth EXCEPT ![c] = [step |-> "count", token |-> t]]
  /\ UNCHANGED <<issued, loggedOut, broken>>

\* HLEN: is anything left?
LogoutCount(c) ==
  /\ AuthAt(c, "count")
  /\ AuthGoes(c, IF hash = {} THEN "drop" ELSE "extend")
  /\ UNCHANGED <<hash, expiring, issued, loggedOut, broken>>

\* DEL of the whole key, with whatever was saved in it since.
LogoutDrop(c) ==
  /\ AuthAt(c, "drop")
  /\ Holds({})
  /\ loggedOut' = loggedOut \cup {auth[c].token}
  /\ AuthEnds(c)
  /\ UNCHANGED <<issued, broken>>

\* EXPIRE for the tokens that are left.
LogoutExtend(c) ==
  /\ AuthAt(c, "extend")
  /\ expiring' = (hash # {})
  /\ loggedOut' = loggedOut \cup {auth[c].token}
  /\ AuthEnds(c)
  /\ UNCHANGED <<hash, issued, broken>>

\* A logout ends with an error: its command was not carried out, or was.
LogoutFail(c) ==
  /\ auth[c].step \in {"count", "drop", "extend"}
  /\ \/ UNCHANGED <<hash, expiring>>
     \/ AuthAt(c, "drop") /\ Holds({})
  /\ AuthEnds(c)
  /\ UNCHANGED <<issued, loggedOut, broken>>

\* loginTTL passes.
SessionsExpire ==
  /\ expiring
  /\ Holds({})
  /\ UNCHANGED <<auth, issued, loggedOut, broken>>

-----------------------------------------------------------------------------
AuthStart ==
  /\ hash = {}
  /\ expiring = FALSE
  /\ auth = [c \in AuthCall |-> AuthIdle]
  /\ issued = 0
  /\ loggedOut = {}
  /\ broken = FALSE

AuthNext ==
  \/ \E c \in AuthCall :
       \/ LoginBegin(c)
       \/ \E t \in Token : LogoutRemove(c, t)
       \/ LoginSave(c)
       \/ LoginExpire(c)
       \/ LogoutCount(c)
       \/ LogoutDrop(c)
       \/ LogoutExtend(c)
       \/ LogoutFail(c)
  \/ SessionsExpire

AuthSpec == AuthStart /\ [][AuthNext]_authVars

-----------------------------------------------------------------------------
(* Properties. *)

AuthTypeOK ==
  /\ hash \subseteq 1 .. issued
  /\ expiring \in BOOLEAN
  /\ auth \in [AuthCall -> AuthState]
  /\ issued \in 0 .. MaxTokens
  /\ loggedOut \subseteq 1 .. issued
  /\ broken \in BOOLEAN

\* As long as no command of a login fails or is repeated, every session ends:
\* a token whose logout succeeded never authenticates again, and tokens that
\* nobody logs out expire, however the commands of several logins and logouts
\* interleave.
SessionsEnd ==
  ~broken =>
    /\ loggedOut \cap hash = {}
    /\ (hash # {} /\ \A c \in AuthCall : AuthAt(c, "idle")) => expiring
=============================================================================
