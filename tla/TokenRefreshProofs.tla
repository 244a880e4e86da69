------------------------- MODULE TokenRefreshProofs -------------------------
(***************************************************************************)
(* What holds of the token refresh protocol for any number of web and      *)
(* worker callers, calls and logins.                                       *)
(***************************************************************************)
EXTENDS TokenRefresh, TLAPS

(* From the check on a caller has something to trade (NoCred never reaches *)
(* the endpoint), and when about to store also what it got for it.         *)
HoldsToken ==
    \A p \in Callers :
        pc[p] \in {"lock", "reread", "exchange", "store"} => cred[p] \in TokenSets
StoreHolds ==
    \A p \in Callers : pc[p] = "store" =>
        /\ cred[p].rt \in Nat
        /\ reply[p] \in TokenSets /\ reply[p].rt \in Nat

TypeInv == TypeOK /\ HoldsToken /\ StoreHolds

LEMMA ReadRowType ==
    ASSUME TypeOK
    PROVE  /\ ReadRow \in TokenSets \union {NoCred}
           /\ Usable(ReadRow) => ReadRow \in TokenSets /\ ReadRow = row
    BY DEF TypeOK, ReadRow, Usable

LEMMA InitTypeInv == Init => TypeInv
    BY TokenAssumption DEF Init, TypeInv, TypeOK, HoldsToken, StoreHolds, TokenSets,
                           Phases, Outcomes

LEMMA NextTypeInv == TypeInv /\ [Next]_vars => TypeInv'
<1> SUFFICES ASSUME TypeInv, [Next]_vars PROVE TypeInv'
    OBVIOUS
<1> USE DEF TypeInv, TypeOK, HoldsToken, StoreHolds, tokenHistory
<1>1. ASSUME NEW p \in Callers, StartWeb(p) PROVE TypeInv'
    BY <1>1 DEF StartWeb, sharedVars, Phases
<1>2. ASSUME NEW p \in Callers, StartWorker(p) PROVE TypeInv'
    BY <1>2, ReadRowType
       DEF StartWorker, ReadFails, Finish, sharedVars, Phases, Outcomes
<1>3. ASSUME NEW p \in Callers, Check(p) PROVE TypeInv'
    BY <1>3 DEF Check, Usable, Finish, sharedVars, Phases, Outcomes
<1>4. ASSUME NEW p \in Callers, Acquire(p) PROVE TypeInv'
    BY <1>4 DEF Acquire, GotLock, KeyAbsent, Phases
<1>5. ASSUME NEW p \in Callers, Reread(p) PROVE TypeInv'
    BY <1>5, ReadRowType
       DEF Reread, ReadFails, Finish, sharedVars, Phases, Outcomes
<1>6. ASSUME NEW p \in Callers, Exchange(p) PROVE TypeInv'
  <2>1. ASSUME NEW newRt \in NewTokens(p), cred[p].rt \in live
        PROVE  newRt \in Nat /\ cred[p].rt \in Nat /\ minted + 1 \in Nat
               /\ [rt |-> newRt, stamp |-> minted + 1] \in TokenSets
    <3>1. newRt = minted + 1 \/ newRt = cred[p].rt
      BY <2>1, Zenon DEF NewTokens
    <3>2. cred[p].rt \in Nat
      BY <2>1
    <3>3. minted + 1 \in Nat /\ newRt \in Nat
      BY <3>1, <3>2
    <3> QED
      BY <3>2, <3>3 DEF TokenSets
  <2>2. pc[p] = "exchange" /\ cred[p] \in TokenSets
    BY <1>6 DEF Exchange
  <2>3. TypeOK'
    <3>1. minted' \in Nat /\ live' \subseteq Nat /\ orphaned' \subseteq Nat
      BY <1>6, <2>1 DEF Exchange, Replay
    <3>4. revoked' \subseteq Nat
      BY <1>6 DEF Exchange, Replay
    <3>5. heirs' \subseteq Nat \X Nat
      <4>1. ASSUME NEW newRt \in NewTokens(p), cred[p].rt \in live,
                   AddHeir(cred[p].rt, newRt)
            PROVE  heirs' \subseteq Nat \X Nat
        <5>1. Ancestry(cred[p].rt) \subseteq Nat
          BY <2>1, <4>1 DEF Ancestry
        <5> QED
          BY <2>1, <4>1, <5>1 DEF AddHeir
      <4> QED
        BY <1>6, <4>1 DEF Exchange
    <3>2. reply' \in [Callers -> TokenSets \union {NoCred}]
      BY <1>6, <2>1 DEF Exchange
    <3>3. pc' \in [Callers -> Phases] /\ out' \in [Callers -> Outcomes]
      BY <1>6 DEF Exchange, Finish, Phases, Outcomes
    <3> QED
      BY <1>6, <3>1, <3>2, <3>3, <3>4, <3>5 DEF Exchange
  <2>4. HoldsToken'
    BY <1>6, <2>2 DEF Exchange, Finish
  <2>5. StoreHolds'
    BY <1>6, <2>1 DEF Exchange, Finish
  <2> QED
    BY <2>3, <2>4, <2>5
<1>7. ASSUME NEW p \in Callers, Store(p) PROVE TypeInv'
  <2>1. reply[p] \in TokenSets /\ Rotated(p) \subseteq Nat
    BY <1>7 DEF Store, Rotated
  <2>2. /\ pc' = [pc EXCEPT ![p] = "release"] \/ pc' = [pc EXCEPT ![p] = "winner"]
        /\ cred' = cred \/ cred' = [cred EXCEPT ![p] = reply[p]]
        /\ \/ out' = out
           \/ \E o \in {"ok", "kept", "transient"} : out' = [out EXCEPT ![p] = o]
        /\ row' \in {row, reply[p]}
        /\ superseded' = superseded \/ superseded' = superseded \union Rotated(p)
        /\ orphaned' = orphaned \/ orphaned' = orphaned \union Rotated(p)
        /\ UNCHANGED <<horizon, minted, live, heirs, revoked, logins, nLogins, lock,
                       reply, acquired, holdsCopy, calls>>
    BY <1>7 DEF Store, StoreFails, ReadWinner, Stored, Finish
  <2>3. TypeOK'
    <3>1. /\ pc' \in [Callers -> Phases] /\ out' \in [Callers -> Outcomes]
          /\ cred' \in [Callers -> TokenSets \union {NoCred}]
      BY <2>1, <2>2 DEF Phases, Outcomes
    <3>2. row' \in TokenSets /\ superseded' \subseteq Nat /\ orphaned' \subseteq Nat
      BY <2>1, <2>2
    <3> QED
      BY <2>2, <3>1, <3>2
  <2>4. HoldsToken' /\ StoreHolds'
    BY <2>2
  <2> QED
    BY <2>3, <2>4
<1>8. ASSUME NEW p \in Callers, Winner(p) PROVE TypeInv'
    BY <1>8, ReadRowType DEF Winner, Finish, sharedVars, Phases, Outcomes
<1>9. ASSUME NEW p \in Callers, Wait(p) PROVE TypeInv'
  <2>1. pc' \in [Callers -> Phases] /\ out' \in [Callers -> Outcomes]
    BY <1>9 DEF Wait, ReadFails, Finish, Phases, Outcomes
  <2>2. /\ cred' \in [Callers -> TokenSets \union {NoCred}]
        /\ holdsCopy' \in [Callers -> BOOLEAN]
    BY <1>9, ReadRowType DEF Wait
  <2>3. TypeOK'
    BY <1>9, <2>1, <2>2 DEF Wait, sharedVars
  <2>4. HoldsToken' /\ StoreHolds'
    BY <1>9, ReadRowType DEF Wait, ReadFails, Finish, sharedVars
  <2> QED
    BY <2>3, <2>4
<1>10. ASSUME NEW p \in Callers, Release(p) PROVE TypeInv'
    BY <1>10 DEF Release, Forget, Phases, Outcomes
<1>11. ASSUME NEW p \in Callers, Crash(p) PROVE TypeInv'
    BY <1>11 DEF Crash, Forget, Rotated, Phases, Outcomes
<1>12. CASE ExpireLock
    BY <1>12 DEF ExpireLock
<1>13. CASE Age
    BY <1>13 DEF Age
<1>14. CASE LoginFetch
  <2>1. /\ minted + 1 \in Nat /\ nLogins + 1 \in Nat
        /\ [rt |-> minted + 1, stamp |-> minted + 1] \in TokenSets
        /\ [rt |-> NoToken, stamp |-> minted + 1] \in TokenSets
    BY DEF TokenSets
  <2> QED
    BY <1>14, <2>1 DEF LoginFetch
<1>15. CASE LoginStore
    BY <1>15 DEF LoginStore
<1>16. CASE KeyLost
    BY <1>16 DEF KeyLost, TokenSets
<1>17. CASE UNCHANGED vars
    BY <1>17 DEF vars
<1> QED
    BY <1>1, <1>2, <1>3, <1>4, <1>5, <1>6, <1>7, <1>8, <1>9, <1>10, <1>11,
       <1>12, <1>13, <1>14, <1>15, <1>16, <1>17 DEF Next, Step

(* Every reachable state is well typed; in particular the row never takes  *)
(* a reply that is not a token set.                                        *)
THEOREM TypeCorrect == Spec => []TypeOK
<1>1. TypeInv => TypeOK
    BY DEF TypeInv
<1> QED
    BY <1>1, InitTypeInv, NextTypeInv, PTL DEF Spec

-----------------------------------------------------------------------------
(* Mutual exclusion.  A caller in the section set the key itself, and      *)
(* while the lock works the key still holds its value.                     *)
LockWorks == ~RedisFails /\ ~SlowHolders
LockInv ==
    /\ \A p \in Callers : Exchanging(p) => acquired[p]
    /\ \A p \in Callers : acquired[p] => lock = p

LEMMA NextLockInv ==
    ASSUME LockWorks, TypeInv, LockInv, [Next]_vars
    PROVE  LockInv'
<1> USE DEF TypeInv, TypeOK, LockInv, Exchanging, Section, LockWorks, tokenHistory
<1>1. ASSUME NEW p \in Callers,
             StartWeb(p) \/ StartWorker(p) \/ Check(p) \/ Wait(p)
      PROVE  LockInv'
    BY <1>1 DEF StartWeb, StartWorker, Check, Wait, ReadFails, Finish, sharedVars
<1>2. ASSUME NEW p \in Callers, Acquire(p) PROVE LockInv'
    BY <1>2, CallersAssumption DEF Acquire, GotLock, KeyAbsent
<1>3. ASSUME NEW p \in Callers,
             Reread(p) \/ Exchange(p) \/ Store(p) \/ Winner(p)
      PROVE  LockInv'
  <2>1. /\ UNCHANGED <<lock, acquired>> /\ Exchanging(p)
        /\ \A q \in Callers \ {p} : pc'[q] = pc[q]
    BY <1>3 DEF Reread, Exchange, Store, Winner, ReadFails, StoreFails,
                ReadWinner, Finish, sharedVars
  <2> QED
    BY <2>1
<1>4. ASSUME NEW p \in Callers, Release(p) \/ Crash(p) PROVE LockInv'
    BY <1>4 DEF Release, Crash, Forget
<1>5. CASE ExpireLock
    BY <1>5 DEF ExpireLock
<1>6. CASE Age \/ LoginFetch \/ LoginStore \/ KeyLost \/ UNCHANGED vars
    BY <1>6 DEF Age, LoginFetch, LoginStore, KeyLost, vars
<1> QED
    BY <1>1, <1>2, <1>3, <1>4, <1>5, <1>6 DEF Next, Step

(* Single flight: with a working lock, never two callers of the cluster    *)
(* between acquiring the lock and settling their refresh.                  *)
THEOREM SingleFlight ==
    ASSUME LockWorks
    PROVE  Spec => []OneRefreshAtATime
<1>1. Init => LockInv
    BY DEF Init, LockInv, Exchanging, Section
<1>2. TypeInv /\ LockInv /\ [Next]_vars => (TypeInv /\ LockInv)'
    BY NextTypeInv, NextLockInv
<1>3. LockInv => OneRefreshAtATime
    BY CallersAssumption DEF LockInv, OneRefreshAtATime
<1> QED
    BY <1>1, <1>2, <1>3, InitTypeInv, PTL DEF Spec

-----------------------------------------------------------------------------
(* The users row.  Every minted token set carries a number of its own; it  *)
(* is unpublished until it is stored.  An UPDATE publishes it only over    *)
(* the set it was traded for, so nobody else can have replaced that one.   *)
Unpublished(n) ==
    /\ n \notin {row.rt, row.stamp} /\ n \notin superseded
    /\ \A q \in Callers : cred[q] # NoCred => n \notin {cred[q].rt, cred[q].stamp}

FutureUnpublished == \A n \in Nat : n > minted => Unpublished(n)
RepliesUnpublished ==
    \A p \in Callers : pc[p] = "store" =>
        /\ Unpublished(reply[p].stamp)
        /\ reply[p].rt \in {cred[p].rt, reply[p].stamp}
        /\ cred[p].stamp < reply[p].stamp /\ reply[p].stamp <= minted
LoginsUnpublished ==
    \A l \in logins :
        /\ Unpublished(l.stamp)
        /\ l.rt \in {NoToken, l.stamp}
        /\ l.stamp <= minted
Distinct ==
    /\ \A p, q \in Callers :
          pc[p] = "store" /\ pc[q] = "store" /\ reply[p].stamp = reply[q].stamp => p = q
    /\ \A p \in Callers, l \in logins : pc[p] = "store" => reply[p].stamp # l.stamp
    /\ \A l, m \in logins : l.stamp = m.stamp => l = m
CopiesCurrent ==
    \A p \in Callers :
        cred[p] # NoCred /\ cred[p].stamp = row.stamp => cred[p].rt \notin superseded

StampInv ==
    /\ FutureUnpublished /\ RepliesUnpublished /\ LoginsUnpublished
    /\ Distinct /\ CopiesCurrent /\ RowNeverRegresses

(* A step that stores and mints nothing, and gives callers no credentials  *)
(* but what the row holds, publishes nothing.                              *)
Copying ==
    /\ row'.stamp = row.stamp /\ row'.rt \in {row.rt, Unreadable}
    /\ UNCHANGED <<minted, superseded, logins>>
    /\ \A q \in Callers :
          /\ cred'[q] \in {cred[q], NoCred, row}
          /\ pc'[q] = "store" =>
                pc[q] = "store" /\ cred'[q] = cred[q] /\ reply'[q] = reply[q]

LEMMA CopyingStep ==
    ASSUME TypeInv, StampInv, Copying
    PROVE  StampInv'
<1> USE DEF StampInv, Copying
<1>1. ASSUME NEW n \in Nat, Unpublished(n) PROVE Unpublished(n)'
    BY <1>1, TokenAssumption DEF Unpublished
<1>2. FutureUnpublished'
    BY <1>1 DEF FutureUnpublished
<1>3. RepliesUnpublished'
    BY <1>1 DEF RepliesUnpublished, TypeInv, StoreHolds, TokenSets
<1>4. LoginsUnpublished'
    BY <1>1 DEF LoginsUnpublished, TypeInv, TypeOK, TokenSets
<1>5. Distinct'
    BY DEF Distinct
<1>6. CopiesCurrent'
    BY DEF CopiesCurrent, RowNeverRegresses
<1>7. RowNeverRegresses'
    BY TokenAssumption DEF RowNeverRegresses, TypeInv, TypeOK
<1> QED
    BY <1>2, <1>3, <1>4, <1>5, <1>6, <1>7

(* The endpoint's reply carries a number nobody has seen.                  *)
LEMMA ExchangeStamps ==
    ASSUME TypeInv, StampInv, NEW p \in Callers, Exchange(p)
    PROVE  StampInv'
<1> USE DEF StampInv
<1> DEFINE n == minted + 1
<1>1. /\ UNCHANGED <<row, superseded, logins, cred>>
      /\ n \in Nat /\ minted \in Nat /\ minted' \in {minted, n}
      /\ \A q \in Callers \ {p} : pc'[q] = pc[q] /\ reply'[q] = reply[q]
      /\ cred[p] \in TokenSets
    BY DEF Exchange, Finish, TypeInv, TypeOK, HoldsToken
<1>2. pc'[p] = "store" =>
        /\ minted' = n /\ reply'[p].stamp = n
        /\ reply'[p].rt \in {n, cred[p].rt}
  <2>1. \A newRt \in NewTokens(p) : newRt \in {n, cred[p].rt}
    BY Zenon DEF NewTokens
  <2> QED
    BY <2>1 DEF Exchange, Finish, TypeInv, TypeOK
<1>3. \A k \in Nat : Unpublished(k)' <=> Unpublished(k)
    BY <1>1 DEF Unpublished
<1>4. Unpublished(n)
    BY <1>1 DEF FutureUnpublished
<1>5. FutureUnpublished'
    BY <1>1, <1>3 DEF FutureUnpublished
<1>6. cred[p].stamp < n /\ n \notin {l.stamp : l \in logins}
      /\ \A q \in Callers : pc[q] = "store" => reply[q].stamp # n
  <2>1. cred[p] # NoCred /\ cred[p].stamp \in Nat
    BY <1>1, NoCredAssumption DEF TokenSets
  <2>2. cred[p].stamp < n
    BY <1>1, <2>1 DEF FutureUnpublished, Unpublished
  <2>3. \A l \in logins : l.stamp # n
    BY <1>1 DEF LoginsUnpublished, TypeInv, TypeOK, TokenSets
  <2>4. \A q \in Callers : pc[q] = "store" => reply[q].stamp # n
    BY <1>1 DEF RepliesUnpublished, TypeInv, StoreHolds, TokenSets
  <2> QED
    BY <2>2, <2>3, <2>4
<1>7. RepliesUnpublished'
    BY <1>1, <1>2, <1>3, <1>4, <1>6
       DEF RepliesUnpublished, TypeInv, StoreHolds, TokenSets
<1>8. LoginsUnpublished'
    BY <1>1, <1>3 DEF LoginsUnpublished, TypeInv, TypeOK, TokenSets
<1>9. Distinct'
    BY <1>1, <1>2, <1>6 DEF Distinct
<1>10. CopiesCurrent' /\ RowNeverRegresses'
    BY <1>1 DEF CopiesCurrent, RowNeverRegresses
<1> QED
    BY <1>5, <1>7, <1>8, <1>9, <1>10

LEMMA LoginFetchStamps ==
    ASSUME TypeInv, StampInv, LoginFetch
    PROVE  StampInv'
<1> USE DEF StampInv, tokenHistory
<1> DEFINE n == minted + 1
<1>1. /\ UNCHANGED <<row, superseded, cred, pc, reply>>
      /\ n \in Nat /\ minted \in Nat /\ minted' = n
      /\ \A l \in logins' : l \in logins \/ (l.stamp = n /\ l.rt \in {NoToken, n})
      /\ \A l, m \in logins' : l \notin logins /\ m \notin logins => l = m
    BY DEF LoginFetch, TypeInv, TypeOK
<1>2. \A k \in Nat : Unpublished(k)' <=> Unpublished(k)
    BY <1>1 DEF Unpublished
<1>3. FutureUnpublished'
    BY <1>1, <1>2 DEF FutureUnpublished
<1>4. \A l \in logins : l.stamp # n /\ l.stamp \in Nat
    BY <1>1 DEF LoginsUnpublished, TypeInv, TypeOK, TokenSets
<1>5. \A q \in Callers : pc[q] = "store" => reply[q].stamp # n
    BY <1>1 DEF RepliesUnpublished, TypeInv, StoreHolds, TokenSets
<1>6. RepliesUnpublished'
    BY <1>1, <1>2 DEF RepliesUnpublished, TypeInv, StoreHolds, TokenSets
<1>7. LoginsUnpublished'
    BY <1>1, <1>2, <1>4 DEF LoginsUnpublished, FutureUnpublished
<1>8. Distinct'
    BY <1>1, <1>4, <1>5 DEF Distinct
<1>9. CopiesCurrent' /\ RowNeverRegresses'
    BY <1>1 DEF CopiesCurrent, RowNeverRegresses
<1> QED
    BY <1>3, <1>6, <1>7, <1>8, <1>9

LEMMA LoginStoreStamps ==
    ASSUME TypeInv, StampInv, LoginStore
    PROVE  StampInv'
<1> USE DEF StampInv, tokenHistory
<1>1. PICK l \in logins : /\ logins' = logins \ {l}
                          /\ row' \in {row, l}
                          /\ UNCHANGED <<minted, superseded, cred, pc, reply>>
    BY DEF LoginStore
<1>2. l.stamp \in Nat /\ l.rt \in {NoToken, l.stamp} /\ l.stamp <= minted
      /\ Unpublished(l.stamp) /\ NoToken \notin superseded
    BY <1>1, TokenAssumption
       DEF LoginsUnpublished, TypeInv, TypeOK, TokenSets
<1>3. \A k \in Nat : Unpublished(k) /\ k # l.stamp => Unpublished(k)'
    BY <1>1, <1>2, TokenAssumption DEF Unpublished
<1>4. FutureUnpublished'
    BY <1>1, <1>2, <1>3 DEF FutureUnpublished, TypeInv, TypeOK
<1>5. RepliesUnpublished'
    BY <1>1, <1>3 DEF RepliesUnpublished, Distinct, TypeInv, StoreHolds, TokenSets
<1>6. LoginsUnpublished'
    BY <1>1, <1>3 DEF LoginsUnpublished, Distinct, TypeInv, TypeOK, TokenSets
<1>7. Distinct'
    BY <1>1 DEF Distinct
<1>8. CopiesCurrent'
    BY <1>1, <1>2 DEF CopiesCurrent, Unpublished
<1>9. RowNeverRegresses'
    BY <1>1, <1>2 DEF RowNeverRegresses, Unpublished
<1> QED
    BY <1>4, <1>5, <1>6, <1>7, <1>8, <1>9

LEMMA StoreStamps ==
    ASSUME TypeInv, StampInv, NEW p \in Callers, Store(p)
    PROVE  StampInv'
<1> USE DEF StampInv
<1> DEFINE new == reply[p]
<1>1. /\ UNCHANGED <<minted, logins, reply>>
      /\ pc[p] = "store" /\ pc'[p] # "store"
      /\ \A q \in Callers \ {p} : pc'[q] = pc[q] /\ cred'[q] = cred[q]
      /\ cred'[p] \in {cred[p], new}
    BY DEF Store, StoreFails, ReadWinner, Finish, TypeInv, TypeOK
<1>2. \/ UNCHANGED <<row, superseded>>
      \/ /\ row.stamp = cred[p].stamp /\ row' = new
         /\ superseded' = superseded \union ({cred[p].rt} \ {new.rt})
    BY DEF Store, Matches, Stored, Rotated
<1>3. /\ new.stamp \in Nat /\ new.stamp <= minted /\ Unpublished(new.stamp)
      /\ new.rt \in {cred[p].rt, new.stamp}
      /\ cred[p] \in TokenSets /\ cred[p] # NoCred /\ new # NoCred
    BY <1>1, NoCredAssumption
       DEF RepliesUnpublished, TypeInv, HoldsToken, StoreHolds, TokenSets
<1>4. \A k \in Nat : Unpublished(k) /\ k # new.stamp => Unpublished(k)'
    BY <1>1, <1>2, <1>3 DEF Unpublished
<1>5. FutureUnpublished'
    BY <1>1, <1>3, <1>4 DEF FutureUnpublished, TypeInv, TypeOK
<1>6. RepliesUnpublished'
    BY <1>1, <1>4 DEF RepliesUnpublished, Distinct, TypeInv, StoreHolds, TokenSets
<1>7. LoginsUnpublished'
    BY <1>1, <1>4 DEF LoginsUnpublished, Distinct, TypeInv, TypeOK, TokenSets
<1>8. Distinct'
    BY <1>1 DEF Distinct
<1>9. \/ UNCHANGED <<row, superseded>>
      \/ row' = new /\ new.rt \notin superseded'
  <2>1. row.stamp = cred[p].stamp => cred[p].rt \notin superseded
    BY <1>3 DEF CopiesCurrent
  <2> QED
    BY <1>2, <1>3, <2>1 DEF Unpublished
<1>10. CopiesCurrent'
    BY <1>1, <1>3, <1>9 DEF CopiesCurrent, Unpublished
<1>11. RowNeverRegresses'
    BY <1>9 DEF RowNeverRegresses
<1> QED
    BY <1>5, <1>6, <1>7, <1>8, <1>10, <1>11

LEMMA NextStampInv ==
    ASSUME TypeInv, StampInv, [Next]_vars
    PROVE  StampInv'
<1> USE DEF TypeInv, TypeOK, tokenHistory
<1>1. ASSUME NEW p \in Callers,
             \/ StartWeb(p) \/ StartWorker(p) \/ Check(p) \/ Acquire(p)
             \/ Reread(p) \/ Winner(p) \/ Wait(p)
      PROVE  Copying
    BY <1>1 DEF StartWeb, StartWorker, Check, Acquire, GotLock, Reread, Winner,
                Wait, ReadRow, ReadFails, Finish, sharedVars, Copying
<1>2. ASSUME NEW p \in Callers, Release(p) \/ Crash(p) PROVE Copying
    BY <1>2 DEF Release, Crash, Forget, Copying
<1>3. CASE ExpireLock \/ Age \/ UNCHANGED vars
  <2>1. Copying
    BY <1>3 DEF ExpireLock, Age, vars, Copying
  <2> QED
    BY <2>1, CopyingStep
<1>4. CASE KeyLost
  <2>1. Copying
    BY <1>4 DEF KeyLost, TokenSets, Copying
  <2> QED
    BY <2>1, CopyingStep
<1> QED
    BY <1>1, <1>2, <1>3, <1>4, CopyingStep, ExchangeStamps, StoreStamps,
       LoginFetchStamps, LoginStoreStamps DEF Next, Step

LEMMA InitStampInv == Init => StampInv
    BY NoCredAssumption, TokenAssumption
       DEF Init, StampInv, FutureUnpublished, RepliesUnpublished,
           LoginsUnpublished, Distinct, CopiesCurrent, RowNeverRegresses,
           Unpublished

(* The users row never falls back to a refresh token that was replaced,    *)
(* with or without the lock, whatever Redis, the endpoint, the database,   *)
(* the logins and the crashes do: store_tokens' comparison alone suffices. *)
THEOREM RowIsSafe == Spec => []RowNeverRegresses
<1>1. TypeInv /\ StampInv /\ [Next]_vars => (TypeInv /\ StampInv)'
    BY NextTypeInv, NextStampInv
<1>2. StampInv => RowNeverRegresses
    BY DEF StampInv
<1> QED
    BY <1>1, <1>2, InitTypeInv, InitStampInv, PTL DEF Spec

(* A refresh only ever writes over an older token set, so a login that     *)
(* lands during an exchange wins.                                          *)
THEOREM NewerTokensWin == Spec => StoresReplaceOlder
<1> DEFINE Older == \A p \in Callers :
        pc[p] = "store" /\ pc'[p] # "store" /\ row' # row => row'.stamp > row.stamp
<1>1. TypeInv /\ StampInv /\ [Next]_vars => [Older]_vars
  <2> SUFFICES ASSUME TypeInv, StampInv, [Next]_vars, NEW p \in Callers,
                      pc[p] = "store", pc'[p] # "store", row' # row
               PROVE  row'.stamp > row.stamp
    OBVIOUS
  <2>1. Store(p)
    <3>1. ASSUME NEW q \in Callers, Step(q), ~Store(q) PROVE row' = row
      BY <3>1 DEF Step, StartWeb, StartWorker, Check, Acquire, Reread, Exchange,
                  Winner, Wait, Release, sharedVars
    <3>2. ASSUME NEW q \in Callers, Store(q), q # p PROVE FALSE
      BY <3>2 DEF Store, StoreFails, ReadWinner, Finish, TypeInv, TypeOK
    <3>3. ASSUME NEW q \in Callers, Crash(q) PROVE row' = row
      BY <3>3 DEF Crash
    <3>4. CASE ExpireLock \/ Age \/ LoginFetch \/ LoginStore \/ KeyLost
      BY <3>4 DEF ExpireLock, Age, LoginFetch, LoginStore, KeyLost
    <3> QED
      BY <3>1, <3>2, <3>3, <3>4 DEF Next, vars
  <2>2. row' = reply[p] /\ row.stamp = cred[p].stamp
    BY <2>1 DEF Store, Stored, Matches
  <2>3. cred[p].stamp < reply[p].stamp
    BY DEF StampInv, RepliesUnpublished
  <2> QED
    BY <2>2, <2>3 DEF TypeInv, HoldsToken, StoreHolds, TokenSets
<1>2. TypeInv /\ StampInv /\ [Next]_vars => (TypeInv /\ StampInv)'
    BY NextTypeInv, NextStampInv
<1>3. Spec => [][Older]_vars
    BY <1>1, <1>2, InitTypeInv, InitStampInv, PTL DEF Spec
<1> QED
    BY <1>3 DEF StoresReplaceOlder

-----------------------------------------------------------------------------
(* Under a working lock a re-read copy stays current until it is traded:   *)
(* the row it was read from is current, and nobody else stores meanwhile.  *)
LEMMA NextRereaders ==
    ASSUME LockWorks, TypeInv, LockInv, StampInv, RereadersAreCurrent, [Next]_vars
    PROVE  RereadersAreCurrent'
<1> USE DEF TypeInv, TypeOK, RereadersAreCurrent, tokenHistory
<1>1. ASSUME NEW p \in Callers,
             \/ StartWeb(p) \/ StartWorker(p) \/ Check(p) \/ Acquire(p)
             \/ Exchange(p) \/ Winner(p) \/ Wait(p) \/ Release(p) \/ Crash(p)
      PROVE  RereadersAreCurrent'
    BY <1>1 DEF StartWeb, StartWorker, Check, Acquire, GotLock, Exchange, Winner,
                Wait, Release, Crash, Forget, ReadFails, Finish, sharedVars
<1>2. ASSUME NEW p \in Callers, Reread(p) PROVE RereadersAreCurrent'
    BY <1>2 DEF Reread, ReadRow, Usable, ReadFails, Finish, sharedVars, StampInv,
                RowNeverRegresses
<1>3. ASSUME NEW p \in Callers, Store(p) PROVE RereadersAreCurrent'
  <2>1. \A q \in Callers : pc'[q] # "exchange"
    BY <1>3, CallersAssumption
       DEF LockInv, Exchanging, Section, Store, StoreFails, ReadWinner, Finish
  <2> QED
    BY <2>1
<1>4. CASE \/ ExpireLock \/ Age \/ LoginFetch \/ LoginStore \/ KeyLost
           \/ UNCHANGED vars
    BY <1>4 DEF ExpireLock, Age, LoginFetch, LoginStore, KeyLost, vars
<1> QED
    BY <1>1, <1>2, <1>3, <1>4 DEF Next, Step

(* With a working lock nobody who re-reads under it sends the endpoint a   *)
(* refresh token that a peer has already replaced.                         *)
THEOREM RereadersTradeCurrentTokens ==
    ASSUME LockWorks
    PROVE  Spec => []RereadersAreCurrent
<1> DEFINE Inv == TypeInv /\ LockInv /\ StampInv /\ RereadersAreCurrent
<1>1. Init => Inv
    BY InitTypeInv, InitStampInv
       DEF Init, LockInv, Exchanging, Section, RereadersAreCurrent
<1>2. Inv /\ [Next]_vars => Inv'
    BY NextTypeInv, NextLockInv, NextStampInv, NextRereaders
<1>3. Inv => RereadersAreCurrent
    OBVIOUS
<1> QED
    BY <1>1, <1>2, <1>3, PTL DEF Spec

-----------------------------------------------------------------------------
(* The grant.  When the provider rotates on every exchange a token set's   *)
(* refresh token is the number of the set, an unpublished one cannot have  *)
(* been traded yet, and the row's one is alive, or on its way to a         *)
(* successor, or its successor is lost.  A replay cancels the heirs of the *)
(* token that is sent again.  It cannot hit the row's token when the       *)
(* sender re-read under the lock, because what the row's token was issued  *)
(* for has been replaced in the row (AncestorsReplaced); nor a reply on    *)
(* its way to the row, because of the lock; nor a login (LoginsFirst).     *)
IsHeir(n, t) == <<t, n>> \in heirs
HeirsMinted == \A t, n \in Nat : IsHeir(n, t) => n <= minted
AncestorsReplaced == \A t \in Nat : IsHeir(row.stamp, t) => t \in superseded
RepliesDescend ==
    \A p \in Callers, t \in Nat :
        pc[p] = "store" /\ IsHeir(reply[p].stamp, t)
            => t = cred[p].rt \/ IsHeir(cred[p].rt, t)
LoginsFirst == \A l \in logins, t \in Nat : ~IsHeir(l.stamp, t)
HeirsInv == HeirsMinted /\ AncestorsReplaced /\ RepliesDescend /\ LoginsFirst

RtIsStamp ==
    /\ row.rt \in Nat => row.rt = row.stamp
    /\ \A p \in Callers : cred[p] # NoCred /\ cred[p].rt \in Nat
                            => cred[p].rt = cred[p].stamp
RepliesLive ==
    \A p \in Callers : pc[p] = "store" =>
        reply[p].rt = reply[p].stamp /\ reply[p].rt \in live
LoginsLive == \A l \in logins : l.rt \in Nat => l.rt \in live
GrantInv == RtIsStamp /\ RepliesLive /\ LoginsLive /\ HeirsInv /\ GrantSurvivesRaces

LEMMA CopyingGrant ==
    ASSUME TypeInv, GrantInv, Copying, UNCHANGED <<live, heirs, orphaned, revoked>>,
           \A p \in Callers : pc[p] = "store" => pc'[p] = "store"
    PROVE  GrantInv'
<1> USE DEF GrantInv, Copying
<1>1. RtIsStamp'
    BY TokenAssumption DEF RtIsStamp
<1>2. RepliesLive' /\ LoginsLive'
    BY DEF RepliesLive, LoginsLive
<1>3. GrantSurvivesRaces'
    BY TokenAssumption DEF GrantSurvivesRaces
<1>4. HeirsInv'
    BY DEF HeirsInv, HeirsMinted, AncestorsReplaced, RepliesDescend, LoginsFirst,
           IsHeir
<1> QED
    BY <1>1, <1>2, <1>3, <1>4

(* What an exchange that gave n for t adds to the heirs. *)
LEMMA AddHeirPairs ==
    ASSUME TypeInv, NEW t \in Nat, NEW n \in Nat, n # t, AddHeir(t, n)
    PROVE  \A k, u \in Nat : IsHeir(k, u)' <=>
               IsHeir(k, u) \/ (k = n /\ (u = t \/ IsHeir(t, u)))
<1>1. \A u \in Nat : u \in Ancestry(t) <=> u = t \/ <<u, t>> \in heirs
  <2>1. \A h \in heirs : h = <<h[1], h[2]>>
    BY DEF TypeInv, TypeOK
  <2> QED
    BY <2>1 DEF Ancestry
<1>2. heirs' = heirs \union (Ancestry(t) \X {n})
    BY DEF AddHeir
<1> QED
    BY <1>1, <1>2 DEF IsHeir

(* The tokens that a replay of t cancels are heirs of t. *)
LEMMA ReplayCancelsHeirs ==
    ASSUME TypeInv, NEW p \in Callers, Replay(p)
    PROVE  \A n \in live \ live' : IsHeir(n, cred[p].rt)
<1>1. \A h \in heirs : h = <<h[1], h[2]>>
    BY DEF TypeInv, TypeOK
<1> QED
    BY <1>1 DEF Replay, Heirs, IsHeir

LEMMA ExchangeGrant ==
    ASSUME ~KeepsToken, TypeInv, LockInv, StampInv, RereadersAreCurrent, GrantInv,
           NEW p \in Callers, Exchange(p)
    PROVE  GrantInv'
<1> USE DEF GrantInv
<1> DEFINE n == minted + 1
<1> DEFINE old == cred[p].rt
<1>1. /\ UNCHANGED <<row, logins, cred, superseded>>
      /\ n \in Nat /\ Unpublished(n) /\ ~(n <= minted)
      /\ pc[p] = "exchange" /\ cred[p] \in TokenSets /\ cred[p] # NoCred
      /\ \A q \in Callers \ {p} : pc'[q] = pc[q] /\ reply'[q] = reply[q]
    BY NoCredAssumption
       DEF Exchange, Finish, TypeInv, TypeOK, HoldsToken, StampInv, FutureUnpublished
<1>2. RtIsStamp'
    BY <1>1 DEF RtIsStamp
<1>3. CASE old \in live
  <2>1. old \in Nat /\ old # n
    BY <1>1, <1>3 DEF TypeInv, TypeOK, Unpublished
  <2>2. \/ /\ live' = (live \ {old}) \union {n} /\ minted' = n
           /\ AddHeir(old, n) /\ UNCHANGED revoked
           /\ \/ pc'[p] = "store" /\ reply'[p] = [rt |-> n, stamp |-> n]
                 /\ orphaned' = orphaned
              \/ pc'[p] = "release" /\ orphaned' = orphaned \union ({old} \ {n})
        \/ pc'[p] = "release" /\ UNCHANGED <<live, heirs, orphaned, revoked, minted>>
    <3>1. NewTokens(p) = {n}
      BY DEF NewTokens
    <3> QED
      BY <1>3, <3>1 DEF Exchange, Finish, TypeInv, TypeOK
  <2>3. RepliesLive'
    <3>1. \A q \in Callers : pc[q] = "store" => reply[q].rt # old
      BY <1>1 DEF RepliesLive, StampInv, RepliesUnpublished, Unpublished
    <3> QED
      BY <1>1, <2>2, <3>1 DEF RepliesLive
  <2>4. LoginsLive'
    <3>1. \A l \in logins : l.rt \in Nat => l.rt # old
      BY <1>1, TokenAssumption DEF StampInv, LoginsUnpublished, Unpublished
    <3> QED
      BY <1>1, <2>2, <3>1 DEF LoginsLive
  <2>5. GrantSurvivesRaces'
    BY <1>1, <2>2 DEF GrantSurvivesRaces, Unpublished
  <2>6. ASSUME AddHeir(old, n), minted' = n PROVE HeirsInv'
    <3>1. \A k, u \in Nat : IsHeir(k, u)' <=>
             IsHeir(k, u) \/ (k = n /\ (u = old \/ IsHeir(old, u)))
      <4>1. n \in Nat /\ old \in Nat /\ n # old /\ AddHeir(old, n)
        BY <1>1, <2>1, <2>6
      <4> HIDE DEF n, old
      <4> QED
        BY <4>1, AddHeirPairs
    <3>2. HeirsMinted'
      BY <2>6, <3>1 DEF HeirsInv, HeirsMinted, TypeInv, TypeOK
    <3>3. AncestorsReplaced'
      BY <1>1, <3>1 DEF HeirsInv, AncestorsReplaced, Unpublished, TypeInv, TypeOK,
                        TokenSets
    <3>4. RepliesDescend'
      <4>1. ASSUME NEW q \in Callers, NEW u \in Nat, q # p, pc'[q] = "store",
                   IsHeir(reply[q].stamp, u)'
            PROVE  u = cred[q].rt \/ IsHeir(cred[q].rt, u)'
        <5>1. /\ pc[q] = "store" /\ reply'[q] = reply[q]
              /\ reply[q].stamp \in Nat /\ reply[q].stamp <= minted
              /\ cred[q].rt \in Nat
          BY <1>1, <4>1
             DEF TypeInv, StoreHolds, TokenSets, StampInv, RepliesUnpublished
        <5>2. IsHeir(reply[q].stamp, u)
          BY <1>1, <3>1, <4>1, <5>1 DEF IsHeir
        <5> QED
          BY <1>1, <3>1, <4>1, <5>1, <5>2 DEF HeirsInv, RepliesDescend, IsHeir
      <4>2. ASSUME NEW u \in Nat, pc'[p] = "store", IsHeir(reply[p].stamp, u)'
            PROVE  u = cred[p].rt \/ IsHeir(cred[p].rt, u)'
        <5>1. reply'[p].stamp = n
          BY <1>1, <2>2, <4>2
        <5>2. ~IsHeir(n, u)
          BY <1>1 DEF HeirsInv, HeirsMinted
        <5> QED
          BY <1>1, <2>1, <3>1, <4>2, <5>1, <5>2 DEF IsHeir
      <4> QED
        BY <1>1, <4>1, <4>2 DEF RepliesDescend, IsHeir
    <3>5. LoginsFirst'
      BY <1>1, <3>1
         DEF HeirsInv, LoginsFirst, StampInv, LoginsUnpublished, TypeInv, TypeOK,
             TokenSets
    <3> QED
      BY <3>2, <3>3, <3>4, <3>5 DEF HeirsInv
  <2>7. ASSUME pc'[p] = "release", UNCHANGED <<heirs, minted>> PROVE HeirsInv'
    BY <1>1, <2>7 DEF HeirsInv, HeirsMinted, AncestorsReplaced, RepliesDescend,
                      LoginsFirst, IsHeir
  <2> QED
    BY <1>2, <2>2, <2>3, <2>4, <2>5, <2>6, <2>7
<1>4. CASE old \notin live
  <2>1. /\ pc'[p] = "release" /\ UNCHANGED <<heirs, orphaned, minted>>
        /\ \/ Replay(p)
           \/ UNCHANGED <<live, revoked>>
    BY <1>4 DEF Exchange, Finish, TypeInv, TypeOK
  <2>2. \A k \in live \ live' : IsHeir(k, old)
    BY <2>1, ReplayCancelsHeirs
  <2>3. \A q \in Callers : pc'[q] # "store"
    BY <1>1, <2>1, CallersAssumption DEF LockInv, Exchanging, Section
  <2>4. RepliesLive' /\ RepliesDescend'
    BY <2>3 DEF RepliesLive, RepliesDescend
  <2>5. HeirsMinted' /\ AncestorsReplaced' /\ LoginsFirst'
    BY <1>1, <2>1 DEF HeirsInv, HeirsMinted, AncestorsReplaced, LoginsFirst, IsHeir
  <2>6. LoginsLive'
    <3>1. ASSUME NEW l \in logins, l.rt \in Nat PROVE l.rt \in live'
      <4>1. l.rt = l.stamp /\ l.rt \in live
        BY <3>1, TokenAssumption DEF StampInv, LoginsUnpublished, LoginsLive
      <4>2. ASSUME IsHeir(l.stamp, old) PROVE old \in Nat
        BY <4>2 DEF IsHeir, TypeInv, TypeOK
      <4> QED
        BY <2>2, <4>1, <4>2 DEF HeirsInv, LoginsFirst
    <3> QED
      BY <1>1, <3>1 DEF LoginsLive
  <2>7. GrantSurvivesRaces'
    <3>1. CASE row.rt \notin Nat
      BY <1>1, <3>1 DEF GrantSurvivesRaces
    <3>2. CASE row.rt \in orphaned \union revoked
      BY <1>1, <2>1, <3>2 DEF GrantSurvivesRaces, Replay
    <3>3. CASE row.rt \in live \intersect live'
      BY <1>1, <3>3 DEF GrantSurvivesRaces
    <3>4. CASE row.rt \in live \ live'
      <4>1. Replay(p)
        BY <2>1, <3>4
      <4>2. CASE ~holdsCopy[p]
        BY <1>1, <3>4, <4>1, <4>2 DEF GrantSurvivesRaces, Replay
      <4>3. CASE holdsCopy[p]
        <5>1. old \notin superseded
          BY <1>1, <4>3 DEF RereadersAreCurrent
        <5>2. IsHeir(row.rt, old) /\ old \in Nat /\ row.rt \in Nat
          BY <2>2, <3>4 DEF IsHeir, TypeInv, TypeOK
        <5>3. old \in superseded
          BY <5>2 DEF RtIsStamp, HeirsInv, AncestorsReplaced
        <5> QED
          BY <5>1, <5>3
      <4> QED
        BY <4>2, <4>3
    <3>5. ~\E q \in Callers : pc[q] = "store"
      BY <1>1, CallersAssumption DEF LockInv, Exchanging, Section
    <3> QED
      BY <3>1, <3>2, <3>3, <3>4, <3>5 DEF GrantSurvivesRaces
  <2> QED
    BY <1>2, <2>4, <2>5, <2>6, <2>7 DEF HeirsInv
<1> QED
    BY <1>3, <1>4

LEMMA StoreGrant ==
    ASSUME TypeInv, StampInv, GrantInv, NEW p \in Callers, Store(p)
    PROVE  GrantInv'
<1> USE DEF GrantInv
<1>1. /\ UNCHANGED <<live, heirs, revoked, minted, logins, reply>>
      /\ pc[p] = "store" /\ pc'[p] # "store"
      /\ \A q \in Callers \ {p} : pc'[q] = pc[q] /\ cred'[q] = cred[q]
      /\ cred'[p] \in {cred[p], reply[p]}
    BY DEF Store, StoreFails, ReadWinner, Finish, TypeInv, TypeOK
<1>2. /\ reply[p].rt = reply[p].stamp /\ reply[p].rt \in live
      /\ cred[p].rt \in Nat /\ cred[p].rt = cred[p].stamp
      /\ cred[p].rt # reply[p].rt
    BY <1>1, NoCredAssumption
       DEF RepliesLive, RtIsStamp, TypeInv, HoldsToken, StoreHolds, StampInv,
           RepliesUnpublished, Unpublished
<1>3. \/ row' = reply[p] /\ UNCHANGED orphaned
      \/ row' = row /\ row.stamp # cred[p].stamp /\ UNCHANGED orphaned
      \/ row' = row /\ orphaned' = orphaned \union {cred[p].rt}
    BY <1>2 DEF Store, Matches, Stored, Rotated
<1>4. RtIsStamp'
    BY <1>1, <1>2, <1>3 DEF RtIsStamp
<1>5. RepliesLive' /\ LoginsLive'
    BY <1>1 DEF RepliesLive, LoginsLive
<1>6. GrantSurvivesRaces'
    BY <1>1, <1>2, <1>3 DEF GrantSurvivesRaces, RtIsStamp
<1>7. AncestorsReplaced'
  <2>1. \/ UNCHANGED row /\ superseded \subseteq superseded'
        \/ /\ row' = reply[p] /\ row.stamp = cred[p].stamp
           /\ superseded' = superseded \union {cred[p].rt}
    BY <1>2 DEF Store, Matches, Stored, Rotated
  <2> QED
    BY <1>1, <1>2, <2>1 DEF HeirsInv, AncestorsReplaced, RepliesDescend, IsHeir
<1>8. HeirsInv'
    BY <1>1, <1>7 DEF HeirsInv, HeirsMinted, RepliesDescend, LoginsFirst, IsHeir
<1> QED
    BY <1>4, <1>5, <1>6, <1>8

LEMMA NextGrantInv ==
    ASSUME ~KeepsToken, TypeInv, LockInv, StampInv, RereadersAreCurrent, GrantInv,
           [Next]_vars
    PROVE  GrantInv'
<1> USE DEF TypeInv, TypeOK, tokenHistory
<1>1. ASSUME NEW p \in Callers,
             \/ StartWeb(p) \/ StartWorker(p) \/ Check(p) \/ Acquire(p)
             \/ Reread(p) \/ Winner(p) \/ Wait(p) \/ Release(p)
      PROVE  GrantInv'
  <2>1. Copying
    BY <1>1 DEF StartWeb, StartWorker, Check, Acquire, GotLock, Reread, Winner,
                Wait, Release, Forget, ReadRow, ReadFails, Finish, sharedVars, Copying
  <2>2. /\ UNCHANGED <<live, heirs, orphaned, revoked>>
        /\ \A q \in Callers : pc[q] = "store" => pc'[q] = "store"
    BY <1>1 DEF StartWeb, StartWorker, Check, Acquire, GotLock, Reread, Winner,
                Wait, Release, Forget, ReadFails, Finish, sharedVars
  <2> QED
    BY <2>1, <2>2, CopyingGrant
<1>2. ASSUME NEW p \in Callers, Crash(p) PROVE GrantInv'
  <2>1. /\ UNCHANGED <<row, live, logins, heirs, revoked, minted, superseded>>
        /\ pc'[p] = "idle" /\ cred'[p] = NoCred
        /\ \A q \in Callers \ {p} :
              pc'[q] = pc[q] /\ cred'[q] = cred[q] /\ reply'[q] = reply[q]
        /\ orphaned \subseteq orphaned'
        /\ pc[p] = "store" => cred[p].rt \in orphaned' \/ cred[p].rt = reply[p].rt
    BY <1>2 DEF Crash, Forget, Rotated
  <2>2. RtIsStamp' /\ RepliesLive' /\ LoginsLive'
    BY <2>1 DEF GrantInv, RtIsStamp, RepliesLive, LoginsLive
  <2>3. GrantSurvivesRaces'
    BY <2>1 DEF GrantInv, GrantSurvivesRaces, RepliesLive
  <2>4. HeirsInv'
    BY <2>1 DEF GrantInv, HeirsInv, HeirsMinted, AncestorsReplaced, RepliesDescend,
                LoginsFirst, IsHeir
  <2> QED
    BY <2>2, <2>3, <2>4 DEF GrantInv
<1>3. CASE ExpireLock \/ Age \/ UNCHANGED vars
  <2>1. Copying /\ UNCHANGED <<live, heirs, orphaned, revoked, pc>>
    BY <1>3 DEF ExpireLock, Age, vars, Copying
  <2> QED
    BY <2>1, CopyingGrant
<1>4. CASE KeyLost
  <2>1. Copying /\ UNCHANGED <<live, heirs, orphaned, revoked, pc>>
    BY <1>4 DEF KeyLost, TokenSets, Copying
  <2> QED
    BY <2>1, CopyingGrant
<1>5. CASE LoginFetch
  <2>1. /\ UNCHANGED <<row, cred, pc, reply, heirs, superseded, orphaned, revoked>>
        /\ live \subseteq live' /\ minted \in Nat /\ minted' = minted + 1
        /\ \A l \in logins' : \/ l \in logins
                              \/ /\ l.stamp = minted + 1
                                 /\ l.rt = NoToken \/ l.rt \in live'
    BY <1>5 DEF LoginFetch
  <2>2. RtIsStamp' /\ RepliesLive' /\ LoginsLive' /\ GrantSurvivesRaces'
    BY <2>1, TokenAssumption
       DEF GrantInv, RtIsStamp, RepliesLive, LoginsLive, GrantSurvivesRaces
  <2>3. HeirsInv'
    BY <2>1 DEF GrantInv, HeirsInv, HeirsMinted, AncestorsReplaced, RepliesDescend,
                LoginsFirst, IsHeir
  <2> QED
    BY <2>2, <2>3 DEF GrantInv
<1>6. CASE LoginStore
  <2>1. PICK l \in logins : /\ logins' = logins \ {l} /\ row' \in {row, l}
                            /\ UNCHANGED <<live, heirs, minted, cred, pc, reply,
                                           superseded, orphaned, revoked>>
    BY <1>6 DEF LoginStore
  <2>2. l.rt \in {NoToken, l.stamp} /\ (l.rt \in Nat => l.rt \in live)
    BY DEF GrantInv, LoginsLive, StampInv, LoginsUnpublished
  <2>3. RtIsStamp' /\ RepliesLive' /\ LoginsLive' /\ GrantSurvivesRaces'
    BY <2>1, <2>2, TokenAssumption
       DEF GrantInv, RtIsStamp, RepliesLive, LoginsLive, GrantSurvivesRaces
  <2>4. HeirsInv'
    BY <2>1 DEF GrantInv, HeirsInv, HeirsMinted, AncestorsReplaced, RepliesDescend,
                LoginsFirst, IsHeir
  <2> QED
    BY <2>3, <2>4 DEF GrantInv
<1> QED
    BY <1>1, <1>2, <1>3, <1>4, <1>5, <1>6, ExchangeGrant, StoreGrant DEF Next, Step

(* With a working lock and a provider that rotates every time and cancels  *)
(* what it issued for a replayed token, the stored refresh token is        *)
(* accepted unless a successor was lost before it could be stored, or a    *)
(* worker replayed the token it had read before it got the lock.           *)
THEOREM GrantIsKept ==
    ASSUME LockWorks, ~KeepsToken
    PROVE  Spec => []GrantSurvivesRaces
<1> DEFINE Inv == TypeInv /\ LockInv /\ StampInv /\ RereadersAreCurrent /\ GrantInv
<1>1. Init => Inv
  <2> SUFFICES ASSUME Init PROVE Inv
    OBVIOUS
  <2>1. LockInv /\ RereadersAreCurrent
    BY DEF Init, LockInv, Exchanging, Section, RereadersAreCurrent
  <2>2. HeirsInv
    BY DEF Init, HeirsInv, HeirsMinted, AncestorsReplaced, RepliesDescend,
           LoginsFirst, IsHeir
  <2>3. GrantInv
    BY <2>2 DEF Init, GrantInv, RtIsStamp, RepliesLive, LoginsLive,
                GrantSurvivesRaces
  <2> QED
    BY <2>1, <2>3, InitTypeInv, InitStampInv
<1>2. Inv /\ [Next]_vars => Inv'
    BY NextTypeInv, NextLockInv, NextStampInv, NextRereaders, NextGrantInv
<1>3. Inv => GrantSurvivesRaces
    BY DEF GrantInv
<1> QED
    BY <1>1, <1>2, <1>3, PTL DEF Spec
=============================================================================
