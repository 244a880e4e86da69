---------------------------- MODULE TokenRefresh ----------------------------
(***************************************************************************)
(* The OAuth refresh-token protocol of one user (oauth_refresh.py), the    *)
(* Redis single-flight lock it runs under (redis_lock.py), and its two     *)
(* kinds of caller: web requests, which hold a copy of the users row from  *)
(* the start of the request (app.py), and worker calls, which read the row *)
(* inside the protocol (worker.py).                                        *)
(*                                                                         *)
(* A refresh token is the number under which the provider minted it, and   *)
(* token_expires_at is the number of the reply it came with ("stamp"):     *)
(* the code compares both for equality only, and later stamps expire       *)
(* later.  Lifetimes pass by moving "horizon": stamps up to it are within  *)
(* TOKEN_REFRESH_BUFFER of their expiry.                                   *)
(***************************************************************************)
EXTENDS Naturals, FiniteSets

CONSTANTS
    Web,            \* web requests: hold a copy, give up when the store fails
    Worker,         \* worker calls: read the row, keep what they cannot store
    NoCaller,       \* the lock key does not exist
    NoCred,         \* read_user_tokens returned None
    NoToken,        \* the reply of a login carried no refresh token
    Unreadable,     \* the stored token cannot be decrypted any more
    MaxCalls,       \* bound: refresh_tokens calls per caller
    MaxLogins,      \* bound: OAuth logins of the user
    KeepsToken,     \* the endpoint may leave the refresh token unrotated
    RedisFails,     \* Redis may be absent or fail at any command
    SlowHolders     \* the lock's TTL may run out while its holder still works

Callers == Web \union Worker

ASSUME CallersAssumption ==
    /\ Web \intersect Worker = {}
    /\ NoCaller \notin Callers
ASSUME TokenAssumption ==
    /\ NoToken \notin Nat
    /\ Unreadable \notin Nat
    /\ NoToken # Unreadable
ASSUME BoundAssumption == MaxCalls \in Nat /\ MaxLogins \in Nat
ASSUME FaultAssumption ==
    /\ KeepsToken \in BOOLEAN
    /\ RedisFails \in BOOLEAN /\ SlowHolders \in BOOLEAN

TokenSets == [rt : Nat \union {NoToken, Unreadable}, stamp : Nat]
ASSUME NoCredAssumption == NoCred \notin TokenSets

VARIABLES
    row,          \* users.refresh_token / token_expires_at of the user
    horizon,      \* stamps <= horizon are about to expire
    minted,       \* number of token sets the provider has handed out
    live,         \* refresh tokens the provider still accepts
    superseded,   \* history: refresh tokens replaced by a stored successor
    heirs,        \* <<t, n>>: the provider issued n for t, or for an heir of t
    orphaned,     \* history: refresh tokens whose successor was lost unstored
    revoked,      \* history: tokens cancelled by the replay of a call's first read
    logins,       \* token sets fetched by a login and not yet written
    nLogins,
    lock,         \* value of the Redis key oauth-refresh:<user>
    pc, cred, reply, acquired, holdsCopy, out, calls   \* per caller

tokenHistory == <<superseded, orphaned, revoked>>
sharedVars == <<row, horizon, minted, live, heirs, tokenHistory, logins, nLogins, lock>>
vars == <<row, horizon, minted, live, heirs, superseded, orphaned, revoked, logins,
          nLogins, lock, pc, cred, reply, acquired, holdsCopy, out, calls>>

Phases == {"idle", "check", "lock", "reread", "exchange", "store", "winner",
           "wait", "release"}
Outcomes == {"none", "ok", "kept", "permanent", "transient", "raised"}

(* The shape of the state.  The stamp of every stored or returned set is a *)
(* number and its token a number or a sentinel: TokenSet of the code.      *)
TypeOK ==
    /\ row \in TokenSets
    /\ horizon \in Nat /\ minted \in Nat /\ nLogins \in Nat
    /\ live \subseteq Nat
    /\ heirs \subseteq Nat \X Nat
    /\ superseded \subseteq Nat /\ orphaned \subseteq Nat /\ revoked \subseteq Nat
    /\ logins \subseteq TokenSets
    /\ lock \in Callers \union {NoCaller}
    /\ pc \in [Callers -> Phases]
    /\ cred \in [Callers -> TokenSets \union {NoCred}]
    /\ reply \in [Callers -> TokenSets \union {NoCred}]
    /\ acquired \in [Callers -> BOOLEAN]
    /\ holdsCopy \in [Callers -> BOOLEAN]
    /\ out \in [Callers -> Outcomes]
    /\ calls \in [Callers -> Nat]

-----------------------------------------------------------------------------
Fresh(c) == c.stamp > horizon
Usable(c) == c # NoCred /\ c.rt # NoToken
\* What read_user_tokens makes of the row.
ReadRow == IF row.rt = Unreadable THEN NoCred ELSE row

(* The call ends with outcome o once the lock, if it is ours, is given up. *)
Finish(p, o) ==
    /\ pc' = [pc EXCEPT ![p] = "release"]
    /\ out' = [out EXCEPT ![p] = o]

(* A DatabaseError that refresh_tokens does not catch: the web caller      *)
(* reports a transient failure, the worker call raises.                    *)
ReadFails(p) == Finish(p, IF p \in Web THEN "transient" ELSE "raised")

Init ==
    /\ row = [rt |-> 0, stamp |-> 0]
    /\ horizon = 0 /\ minted = 0 /\ nLogins = 0
    /\ live = {0} /\ heirs = {}
    /\ superseded = {} /\ orphaned = {} /\ revoked = {}
    /\ logins = {}
    /\ lock = NoCaller
    /\ pc = [p \in Callers |-> "idle"]
    /\ cred = [p \in Callers |-> NoCred]
    /\ reply = [p \in Callers |-> NoCred]
    /\ acquired = [p \in Callers |-> FALSE]
    /\ holdsCopy = [p \in Callers |-> FALSE]
    /\ out = [p \in Callers |-> "none"]
    /\ calls = [p \in Callers |-> 0]

-----------------------------------------------------------------------------
(* A web request loads the users row (an undecryptable one ends the        *)
(* session) and may refresh from that copy much later.                     *)
StartWeb(p) ==
    /\ p \in Web /\ pc[p] = "idle" /\ calls[p] < MaxCalls
    /\ row.rt # Unreadable
    /\ cred' = [cred EXCEPT ![p] = row]
    /\ holdsCopy' = [holdsCopy EXCEPT ![p] = TRUE]
    /\ pc' = [pc EXCEPT ![p] = "check"]
    /\ calls' = [calls EXCEPT ![p] = @ + 1]
    /\ UNCHANGED <<sharedVars, reply, acquired, out>>

(* The worker passes no credentials: the call begins by reading the row.   *)
StartWorker(p) ==
    /\ p \in Worker /\ pc[p] = "idle" /\ calls[p] < MaxCalls
    /\ calls' = [calls EXCEPT ![p] = @ + 1]
    /\ holdsCopy' = [holdsCopy EXCEPT ![p] = FALSE]
    /\ \/ /\ cred' = [cred EXCEPT ![p] = ReadRow]
          /\ pc' = [pc EXCEPT ![p] = "check"]
          /\ UNCHANGED out
       \/ /\ ReadFails(p)
          /\ cred' = [cred EXCEPT ![p] = NoCred]
    /\ UNCHANGED <<sharedVars, reply, acquired>>

(* Nothing to refresh with; still valid; or go for the lock. *)
Check(p) ==
    /\ pc[p] = "check"
    /\ \/ ~Usable(cred[p]) /\ Finish(p, "permanent")
       \/ Usable(cred[p]) /\ Fresh(cred[p]) /\ Finish(p, "ok")
       \/ /\ Usable(cred[p]) /\ ~Fresh(cred[p])
          /\ pc' = [pc EXCEPT ![p] = "lock"]
          /\ UNCHANGED out
    /\ UNCHANGED <<sharedVars, cred, reply, acquired, holdsCopy, calls>>

(* single_flight: SET key NX EX.  Without Redis, or when the command fails *)
(* (whether or not it took effect), the caller proceeds unprotected and    *)
(* will not release.                                                       *)
SetWithoutNX == TRUE                                              \* mutant
KeyAbsent == lock = NoCaller
GotLockWithoutReread(p) == pc' = [pc EXCEPT ![p] = "exchange"]     \* mutant
GotLock(p) ==
    pc' = [pc EXCEPT ![p] = IF holdsCopy[p] THEN "reread" ELSE "exchange"]
Acquire(p) ==
    /\ pc[p] = "lock"
    /\ \/ /\ KeyAbsent
          /\ lock' = p
          /\ acquired' = [acquired EXCEPT ![p] = TRUE]
          /\ GotLock(p)
       \/ /\ ~KeyAbsent
          /\ pc' = [pc EXCEPT ![p] = "wait"]
          /\ UNCHANGED <<lock, acquired>>
       \/ /\ RedisFails
          /\ lock' \in {lock} \union (IF KeyAbsent THEN {p} ELSE {})
          /\ GotLock(p)
          /\ UNCHANGED acquired
    /\ UNCHANGED <<row, horizon, minted, live, heirs, tokenHistory, logins, nLogins,
                   cred, reply, holdsCopy, out, calls>>

(* Credentials the caller already held are read again under the lock. *)
Reread(p) ==
    /\ pc[p] = "reread"
    /\ \/ ReadFails(p) /\ UNCHANGED cred
       \/ /\ cred' = [cred EXCEPT ![p] = ReadRow]
          /\ \/ ~Usable(ReadRow) /\ Finish(p, "permanent")
             \/ Usable(ReadRow) /\ Fresh(ReadRow) /\ Finish(p, "ok")
             \/ /\ Usable(ReadRow) /\ ~Fresh(ReadRow)
                /\ pc' = [pc EXCEPT ![p] = "exchange"]
                /\ UNCHANGED out
    /\ UNCHANGED <<sharedVars, reply, acquired, holdsCopy, calls>>

(* The token endpoint: a live refresh token is traded for a new set.       *)
(* Wikimedia rotates it; a reply without a new one keeps the old.  A token *)
(* that was traded before is refused, and the endpoint may take the replay *)
(* for a theft and cancel what the first exchange gave out, and all that   *)
(* was issued for it since: the head comments of redis_lock.py and         *)
(* oauth_refresh.py expect that, and the user is logged out then.          *)
NoDefaultToken(p) == {minted + 1, NoToken}                         \* mutant
NewTokens(p) ==
    IF KeepsToken THEN {minted + 1, cred[p].rt} ELSE {minted + 1}
Heirs(t) == {h[2] : h \in {g \in heirs : g[1] = t}}
Ancestry(t) == {t} \union {h[1] : h \in {g \in heirs : g[2] = t}}
AddHeir(t, n) ==
    heirs' = IF n = t THEN heirs ELSE heirs \union (Ancestry(t) \X {n})
Replay(p) ==
    /\ live' \in {live, live \ Heirs(cred[p].rt)}
    /\ revoked' = IF holdsCopy[p] THEN revoked
                  ELSE revoked \union (live \ live')
Exchange(p) ==
    /\ pc[p] = "exchange"
    /\ \/ \E newRt \in NewTokens(p) :
          /\ cred[p].rt \in live
          /\ minted' = minted + 1
          /\ live' = (live \ {cred[p].rt}) \union {newRt}
          /\ AddHeir(cred[p].rt, newRt)
          /\ \/ /\ reply' = [reply EXCEPT ![p] =
                                [rt |-> newRt, stamp |-> minted + 1]]
                /\ pc' = [pc EXCEPT ![p] = "store"]
                /\ UNCHANGED <<out, orphaned>>
             \/ /\ Finish(p, "transient")             \* reply lost or useless
                /\ orphaned' = orphaned \union ({cred[p].rt} \ {newRt})
                /\ UNCHANGED reply
          /\ UNCHANGED revoked
       \/ /\ cred[p].rt \notin live        \* invalid_grant, or its reply lost
          /\ Replay(p)
          /\ \E o \in {"permanent", "transient"} : Finish(p, o)
          /\ UNCHANGED <<minted, heirs, reply, orphaned>>
       \/ /\ Finish(p, "transient")                   \* timeout, 5xx, 429
          /\ UNCHANGED <<minted, live, heirs, reply, orphaned, revoked>>
    /\ UNCHANGED <<row, horizon, superseded, logins, nLogins, lock, cred,
                   acquired, holdsCopy, calls>>

(* store_tokens: the UPDATE compares token_expires_at.  execute_query      *)
(* retries it when the connection fails, so an UPDATE that took effect can *)
(* be reported as 0 rows (its own retry lost) or as a DatabaseError.       *)
StoreFails(p) ==
    /\ Finish(p, IF p \in Worker THEN "kept" ELSE "transient")
    /\ cred' = IF p \in Worker THEN [cred EXCEPT ![p] = reply[p]] ELSE cred
ReadWinner(p) == pc' = [pc EXCEPT ![p] = "winner"] /\ UNCHANGED <<out, cred>>
NoCompare(p) == TRUE                                               \* mutant
Matches(p) == row.stamp = cred[p].stamp      \* nobody stored since our read
ExpiryOnly(p) == [reply[p] EXCEPT !.rt = cred[p].rt]               \* mutant
Stored(p) == reply[p]
Rotated(p) == {cred[p].rt} \ {reply[p].rt}
Store(p) ==
    /\ pc[p] = "store"
    /\ \/ /\ Matches(p)
          /\ row' = Stored(p)
          /\ superseded' = superseded \union Rotated(p)
          /\ UNCHANGED orphaned
          /\ \/ Finish(p, "ok") /\ cred' = [cred EXCEPT ![p] = reply[p]]
             \/ ReadWinner(p)
             \/ StoreFails(p)
       \/ ~Matches(p) /\ ReadWinner(p) /\ UNCHANGED <<row, superseded, orphaned>>
       \/ /\ StoreFails(p)
          /\ orphaned' = orphaned \union Rotated(p)
          /\ UNCHANGED <<row, superseded>>
    /\ UNCHANGED <<horizon, minted, live, heirs, revoked, logins, nLogins, lock, reply,
                   acquired, holdsCopy, calls>>

(* After a lost race the winner's tokens are returned as they are; here a  *)
(* DatabaseError is caught and is a transient failure for both callers.    *)
Winner(p) ==
    /\ pc[p] = "winner"
    /\ \/ ReadRow # NoCred /\ Finish(p, "ok")
          /\ cred' = [cred EXCEPT ![p] = ReadRow]
       \/ ReadRow = NoCred /\ Finish(p, "permanent") /\ UNCHANGED cred
       \/ Finish(p, "transient") /\ UNCHANGED cred
    /\ UNCHANGED <<sharedVars, reply, acquired, holdsCopy, calls>>

(* Not got the lock: after PEER_WAIT_SECONDS read what the peer stored,    *)
(* and start over from that copy when it is not fresh.                     *)
Wait(p) ==
    /\ pc[p] = "wait"
    /\ \/ /\ ReadFails(p) /\ UNCHANGED <<cred, holdsCopy>>
       \/ ReadRow = NoCred /\ Finish(p, "permanent") /\ UNCHANGED <<cred, holdsCopy>>
       \/ /\ ReadRow # NoCred
          /\ cred' = [cred EXCEPT ![p] = ReadRow]
          /\ \/ Fresh(ReadRow) /\ Finish(p, "ok") /\ UNCHANGED holdsCopy
             \/ /\ ~Fresh(ReadRow)
                /\ holdsCopy' = [holdsCopy EXCEPT ![p] = TRUE]
                /\ pc' = [pc EXCEPT ![p] = "check"]
                /\ UNCHANGED out
    /\ UNCHANGED <<sharedVars, reply, acquired, calls>>

(* The locals of the call go away with it. *)
Forget(p) ==
    /\ pc' = [pc EXCEPT ![p] = "idle"]
    /\ cred' = [cred EXCEPT ![p] = NoCred]
    /\ reply' = [reply EXCEPT ![p] = NoCred]
    /\ acquired' = [acquired EXCEPT ![p] = FALSE]
    /\ holdsCopy' = [holdsCopy EXCEPT ![p] = FALSE]
    /\ out' = [out EXCEPT ![p] = "none"]
    /\ UNCHANGED calls

(* single_flight's exit: compare-and-delete of our own value, if we set    *)
(* one; a failing Redis leaves it to the TTL.  The caller takes out[p].    *)
Release(p) ==
    /\ pc[p] = "release"
    /\ Forget(p)
    /\ \/ lock' = IF acquired[p] /\ lock = p THEN NoCaller ELSE lock
       \/ RedisFails /\ UNCHANGED lock
    /\ UNCHANGED <<row, horizon, minted, live, heirs, tokenHistory, logins, nLogins>>

-----------------------------------------------------------------------------
(* The caller's process dies (or its worker is restarted) mid-call. *)
Crash(p) ==
    /\ pc[p] # "idle"
    /\ Forget(p)
    /\ orphaned' = IF pc[p] = "store" THEN orphaned \union Rotated(p)
                   ELSE orphaned
    /\ UNCHANGED <<row, horizon, minted, live, heirs, superseded, revoked, logins, nLogins,
                   lock>>

(* LOCK_TTL_SECONDS run out.  A holder that keeps to the 10 s timeout of   *)
(* the exchange is done before that; SlowHolders drops this.               *)
NoTtl == FALSE /\ UNCHANGED vars                                   \* mutant
ExpireLock ==
    /\ lock # NoCaller
    /\ SlowHolders \/ ~acquired[lock]
    /\ lock' = NoCaller
    /\ UNCHANGED <<row, horizon, minted, live, heirs, tokenHistory, logins, nLogins,
                   pc, cred, reply, acquired, holdsCopy, out, calls>>

Age ==
    /\ horizon < minted
    /\ horizon' = horizon + 1
    /\ UNCHANGED <<row, minted, live, heirs, tokenHistory, logins, nLogins, lock,
                   pc, cred, reply, acquired, holdsCopy, out, calls>>

(* oauth_callback: the tokens of the new grant are fetched first and       *)
(* written without comparing anything, or dropped when the profile or the  *)
(* database fails in between.                                              *)
LoginFetch ==
    /\ nLogins < MaxLogins
    /\ nLogins' = nLogins + 1
    /\ minted' = minted + 1
    /\ \/ /\ logins' = logins \union {[rt |-> minted + 1, stamp |-> minted + 1]}
          /\ live' = live \union {minted + 1}
       \/ /\ logins' = logins \union {[rt |-> NoToken, stamp |-> minted + 1]}
          /\ UNCHANGED live
    /\ UNCHANGED <<row, horizon, heirs, tokenHistory, lock, pc, cred, reply, acquired,
                   holdsCopy, out, calls>>

LoginStore ==
    \E l \in logins :
      /\ logins' = logins \ {l}
      /\ row' \in {row, l}
      /\ UNCHANGED <<horizon, minted, live, heirs, tokenHistory, nLogins, lock, pc,
                     cred, reply, acquired, holdsCopy, out, calls>>

(* The encryption key is replaced: what is stored cannot be decrypted. *)
KeyLost ==
    /\ row.rt # Unreadable
    /\ row' = [row EXCEPT !.rt = Unreadable]
    /\ UNCHANGED <<horizon, minted, live, heirs, tokenHistory, logins, nLogins, lock,
                   pc, cred, reply, acquired, holdsCopy, out, calls>>

Step(p) ==
    \/ StartWeb(p) \/ StartWorker(p) \/ Check(p) \/ Acquire(p) \/ Reread(p)
    \/ Exchange(p) \/ Store(p) \/ Winner(p) \/ Wait(p) \/ Release(p)

Next ==
    \/ \E p \in Callers : Step(p) \/ Crash(p)
    \/ ExpireLock \/ Age \/ LoginFetch \/ LoginStore \/ KeyLost

Spec == Init /\ [][Next]_vars

(* Every call keeps running until it returns, and Redis removes an expired *)
(* key.                                                                    *)
Fairness ==
    /\ \A p \in Callers : WF_vars(pc[p] # "idle" /\ Step(p))
    /\ WF_vars(ExpireLock)

FairSpec == Spec /\ Fairness

-----------------------------------------------------------------------------
(* PROPERTIES *)

Section == {"reread", "exchange", "store", "winner"}
Exchanging(p) == pc[p] \in Section

(* Single flight: while the lock works (Redis answers and holders finish   *)
(* within the TTL), at most one caller in the cluster is between acquiring *)
(* the lock and settling its refresh, whichever callers crash, wait, start *)
(* over or let a crashed holder's key expire (redis_lock.single_flight).   *)
OneRefreshAtATime ==
    \A p, q \in Callers : Exchanging(p) /\ Exchanging(q) => p = q

(* A caller that re-read its copy under the lock (every web request, and a *)
(* worker call that started over) never sends the endpoint a refresh token *)
(* that a peer has already traded and replaced: refresh_tokens' reread.    *)
RereadersAreCurrent ==
    \A p \in Callers :
        pc[p] = "exchange" /\ holdsCopy[p] => cred[p].rt \notin superseded

(* The compare-and-swap by itself (no lock, no Redis) keeps the users row  *)
(* from falling back to a refresh token that was already replaced.         *)
RowNeverRegresses == row.rt \notin superseded

(* A refresh never overwrites a newer token set: a login that lands while  *)
(* an exchange is on its way wins (store_tokens' comparison).              *)
StoresReplaceOlder ==
    [][\A p \in Callers : pc[p] = "store" /\ pc'[p] # "store" /\ row' # row
                          => row'.stamp > row.stamp]_vars

(* The single-flight lock protects the grant itself: while it works, and   *)
(* with a provider that rotates on every exchange and cancels what was     *)
(* issued for a replayed token, the stored refresh token is dead only when *)
(* a successor was lost before it was stored (reply, store or process), or *)
(* when a worker sent the token it had read before it got the lock         *)
(* (oauth_refresh.py, refresh_tokens: only credentials passed in are read  *)
(* again), which the README lists among the disagreements.  Callers that   *)
(* wait, crash, start over or re-read their copy never cost the user the   *)
(* grant.                                                                  *)
GrantSurvivesRaces ==
    \/ row.rt \notin Nat
    \/ row.rt \in live \union orphaned \union revoked
    \/ \E p \in Callers : pc[p] = "store" /\ cred[p].rt = row.rt

(* Every refresh_tokens call returns: peers that crash with the lock, or   *)
(* keep failing, delay a caller but cannot hold it forever.                *)
EveryCallReturns == \A p \in Callers : pc[p] # "idle" ~> pc[p] = "idle"
=============================================================================
