--------------------------- MODULE PairingProofs ---------------------------
(***************************************************************************)
(* Proofs about Pairing, for any number of instances and pairings, any     *)
(* limit of active requests and any environment.                           *)
(*                                                                         *)
(* PairingInv adds to the properties what makes them inductive: a pairing  *)
(* that was not initiated or has not arrived has no row at its receiver, a *)
(* request nobody accepted has no accept or callback under way, an accept  *)
(* has its approval, a callback its authorised key, and a callback that    *)
(* was answered has been processed, grant included.                        *)
(***************************************************************************)
EXTENDS Pairing, TLAPS

Arrival ==
    \A t \in Pairings :
        /\ t > started => request[t] = "none" /\ incoming[t] = "none"
        /\ request[t] = "sent" => incoming[t] = "none"

Untouched ==
    \A t \in Pairings :
        incoming[t] \in {"none", "pending", "declined"} =>
            accept[t] = "none" /\ callback[t] = "none" /\ t \notin approved

Approval ==
    /\ taken \subseteq offer \cap approved
    /\ \A t \in Pairings : accept[t] # "none" => t \in approved

Called == \A t \in Pairings : callback[t] # "none" => Forward(t) \in installed

Processed ==
    \A t \in Pairings :
        callback[t] = "ok" =>
            /\ outgoing[t] \in {"accepted", "failed", "deleted"}
            /\ t \in taken => Reverse(t) \in installed

Credentials ==
    \A t \in Pairings :
        /\ outgoing[t] = "accepted" => Forward(t) \in installed
        /\ rowId[Reverse(t)] # 0 => Reverse(t) \in installed

PairingInv ==
    /\ TypeOK
    /\ Arrival
    /\ Untouched
    /\ Approval
    /\ ConsentOnly
    /\ Called
    /\ Processed
    /\ Credentials
    /\ AcceptedIsMutual

-----------------------------------------------------------------------------
\* A key tells its pairing and its way.
LEMMA KeyFacts ==
    \A t \in Pairings :
        /\ Forward(t) \in Keys /\ Reverse(t) \in Keys
        /\ Forward(t).pairing = t /\ Forward(t).way = "forward"
        /\ Reverse(t).pairing = t /\ Reverse(t).way = "reverse"
  BY DEF Forward, Reverse, Keys, Ways

\* Authorising a key puts that key, and no other, into authorized_peers.
LEMMA AuthorizeResult ==
    ASSUME TypeOK, NEW n, NEW m, NEW k \in Keys, Authorize(n, m, k)
    PROVE  /\ authorized' \in [Nodes -> [Nodes -> Keys \cup {None}]]
           /\ installed' \in SUBSET Keys
           /\ installed' = installed \cup {k}
<1>1. authorized \in [Nodes -> [Nodes -> Keys \cup {None}]]
  BY DEF TypeOK
<1>2. [authorized[n] EXCEPT ![m] = k] \in [Nodes -> Keys \cup {None}] \/ n \notin Nodes
  BY <1>1
<1>3. authorized' = [authorized EXCEPT ![n] = [authorized[n] EXCEPT ![m] = k]]
  BY DEF Authorize
<1> QED
  BY <1>1, <1>2, <1>3 DEF TypeOK, Authorize

\* A new row takes the next id.
LEMMA NextId ==
    ASSUME TypeOK, NEW k \in Keys,
           lastId' = lastId + 1, rowId' = [rowId EXCEPT ![k] = lastId']
    PROVE  /\ lastId' \in Nat /\ rowId' \in [Keys -> 0..lastId']
           /\ \A j \in Keys \ {k} : rowId'[j] = rowId[j]
<1>1. lastId \in Nat /\ lastId' \in 0..lastId' /\ 0..lastId \subseteq 0..lastId'
  BY DEF TypeOK
<1>2. rowId \in [Keys -> 0..lastId']
  BY <1>1 DEF TypeOK
<1> QED
  BY <1>1, <1>2

\* Nothing has been asked, approved or installed.
LEMMA PairingInvInit == ASSUME PairingAssumption, Init PROVE PairingInv
<1>1. TypeOK
  BY PairingAssumption DEF PairingAssumption, Init, TypeOK, Post
<1>2. Arrival /\ Untouched /\ Approval /\ ConsentOnly /\ Called /\ Processed
  BY DEF Init, Arrival, Untouched, Approval, ConsentOnly, Called, Processed
<1>3. Credentials /\ AcceptedIsMutual
  BY KeyFacts DEF Init, Credentials, AcceptedIsMutual
<1> QED
  BY <1>1, <1>2, <1>3 DEF PairingInv

-----------------------------------------------------------------------------
\* The first row of a new pairing.
LEMMA initiatePairingKeeps ==
    ASSUME PairingInv, PairingAssumption, NEW n \in Nodes, NEW m \in Nodes,
           NEW o \in BOOLEAN, initiatePairing(n, m, o)
    PROVE  PairingInv'
<1> DEFINE s == started + 1
<1>1. /\ s \in Pairings /\ s \in 0..MaxPairings /\ started' = s
      /\ \A t \in Pairings : t > s => t > started
      /\ s > started
  BY DEF PairingAssumption, PairingInv, TypeOK, Pairings, initiatePairing
<1>2. incoming[s] = "none" /\ callback[s] = "none"
  BY <1>1 DEF PairingInv, Arrival, Untouched
<1>3. /\ lastId' \in Nat /\ rowId' \in [Keys -> 0..lastId']
      /\ \A t \in Pairings : rowId'[Reverse(t)] = rowId[Reverse(t)]
  <2>1. lastId' = lastId + 1 /\ rowId' = [rowId EXCEPT ![Forward(s)] = lastId']
    BY <1>1 DEF initiatePairing
  <2>2. Forward(s) \in Keys /\ \A t \in Pairings : Reverse(t) \in Keys \ {Forward(s)}
    <3> HIDE DEF s
    <3> QED
      BY <1>1, KeyFacts
  <2> HIDE DEF s
  <2> QED
    BY <2>1, <2>2, NextId DEF PairingInv
<1> HIDE DEF s
<1>4. /\ outgoing' = [outgoing EXCEPT ![s] = "pending"]
      /\ request' = [request EXCEPT ![s] = "sent"]
      /\ offer \subseteq offer' /\ offer' \subseteq offer \cup {s}
      /\ UNCHANGED <<incoming, authorized, callback, accept, taken, approved, installed>>
  BY <1>1 DEF initiatePairing
<1>5. TypeOK'
  <2>1. from' \in [Pairings -> Nodes \cup {None}] /\ to' \in [Pairings -> Nodes \cup {None}]
    BY DEF PairingInv, TypeOK, initiatePairing
  <2>2. waiting' \in SUBSET Pairings
    BY <1>1 DEF PairingInv, TypeOK, initiatePairing
  <2> QED
    BY <1>1, <1>3, <1>4, <2>1, <2>2 DEF PairingInv, TypeOK, Post
<1>6. Arrival' /\ Untouched'
  BY <1>1, <1>2, <1>4 DEF PairingInv, Arrival, Untouched
<1>7. Approval' /\ ConsentOnly'
  BY <1>4 DEF PairingInv, Approval, ConsentOnly
<1>8. Called' /\ Processed'
  BY <1>2, <1>4 DEF PairingInv, TypeOK, Called, Processed
<1>9. Credentials' /\ AcceptedIsMutual'
  BY <1>2, <1>3, <1>4 DEF PairingInv, Credentials, AcceptedIsMutual
<1> QED
  BY <1>5, <1>6, <1>7, <1>8, <1>9 DEF PairingInv

\* The answer to a request, or its refusal, at the initiator.
LEMMA requestAnsweredKeeps ==
    ASSUME PairingInv, NEW t \in Pairings, requestAnswered(t)
    PROVE  PairingInv'
<1>1. TypeOK'
  BY DEF PairingInv, TypeOK, Ended, Post, requestAnswered, Update, Unheard
<1>2. Arrival' /\ Untouched'
  BY DEF PairingInv, Arrival, Untouched, requestAnswered, Unheard
<1>3. Approval' /\ ConsentOnly'
  BY DEF PairingInv, Approval, ConsentOnly, requestAnswered
<1>4. Called' /\ Processed'
  BY DEF PairingInv, Called, Processed, requestAnswered, Update
<1>5. Credentials' /\ AcceptedIsMutual'
  BY DEF PairingInv, Credentials, AcceptedIsMutual, requestAnswered, Update
<1> QED
  BY <1>1, <1>2, <1>3, <1>4, <1>5 DEF PairingInv

\* A request nobody waits for any longer.
LEMMA requestTimesOutKeeps ==
    ASSUME PairingInv, NEW t \in Pairings, requestTimesOut(t)
    PROVE  PairingInv'
<1>1. TypeOK'
  BY DEF PairingInv, TypeOK, Ended, Post, requestTimesOut, Update, Unheard
<1>2. Arrival' /\ Untouched'
  BY DEF PairingInv, Arrival, Untouched, requestTimesOut, Unheard
<1>3. Approval' /\ ConsentOnly'
  BY DEF PairingInv, Approval, ConsentOnly, requestTimesOut
<1>4. Called' /\ Processed'
  BY DEF PairingInv, Called, Processed, requestTimesOut, Update
<1>5. Credentials' /\ AcceptedIsMutual'
  BY DEF PairingInv, Credentials, AcceptedIsMutual, requestTimesOut, Update
<1> QED
  BY <1>1, <1>2, <1>3, <1>4, <1>5 DEF PairingInv

\* A request arrives: only one that has no row yet.
LEMMA receiveRequestKeeps ==
    ASSUME PairingInv, NEW t \in Pairings, receiveRequest(t)
    PROVE  PairingInv'
<1>1. TypeOK'
  BY DEF PairingInv, TypeOK, Post, receiveRequest, Answer, outRow
<1>2. Arrival' /\ Untouched'
  BY DEF PairingInv, TypeOK, Arrival, Untouched, receiveRequest, Answer
<1>3. Approval' /\ ConsentOnly'
  BY DEF PairingInv, Approval, ConsentOnly, receiveRequest
<1>4. Called' /\ Processed'
  BY DEF PairingInv, Called, Processed, receiveRequest, outRow
<1>5. Credentials' /\ AcceptedIsMutual'
  BY DEF PairingInv, TypeOK, Credentials, AcceptedIsMutual, receiveRequest, outRow
<1> QED
  BY <1>1, <1>2, <1>3, <1>4, <1>5 DEF PairingInv

\* A decline finds a pending request, which nobody accepted.
LEMMA declinePairingKeeps ==
    ASSUME PairingInv, NEW t \in Pairings, declinePairing(t)
    PROVE  PairingInv'
<1>1. TypeOK'
  BY DEF PairingInv, TypeOK, declinePairing, wire, outRow
<1>2. Arrival' /\ Untouched'
  BY DEF PairingInv, Arrival, Untouched, declinePairing, wire
<1>3. Approval' /\ ConsentOnly'
  BY DEF PairingInv, Approval, ConsentOnly, declinePairing, wire
<1>4. Called' /\ Processed'
  BY DEF PairingInv, Called, Processed, declinePairing, wire, outRow
<1>5. Credentials' /\ AcceptedIsMutual'
  BY DEF PairingInv, Credentials, AcceptedIsMutual, declinePairing, outRow
<1> QED
  BY <1>1, <1>2, <1>3, <1>4, <1>5 DEF PairingInv

\* An accept that fails before its key is authorised.
LEMMA acceptFailsKeeps ==
    ASSUME PairingInv, NEW t \in Pairings, acceptFails(t)
    PROVE  PairingInv'
<1>1. TypeOK'
  BY DEF PairingInv, TypeOK, Ended, acceptFails, Update, outRow
<1>2. Arrival' /\ Untouched'
  BY DEF PairingInv, Arrival, Untouched, acceptFails, Update
<1>3. Approval' /\ ConsentOnly'
  BY DEF PairingInv, Approval, ConsentOnly, acceptFails
<1>4. Called' /\ Processed'
  BY DEF PairingInv, Called, Processed, acceptFails, outRow
<1>5. Credentials' /\ AcceptedIsMutual'
  BY DEF PairingInv, Credentials, AcceptedIsMutual, acceptFails, Update, outRow
<1> QED
  BY <1>1, <1>2, <1>3, <1>4, <1>5 DEF PairingInv

\* The accept authorises the key its operator approved.
LEMMA acceptPreparedKeeps ==
    ASSUME PairingInv, NEW t \in Pairings, acceptPrepared(t)
    PROVE  PairingInv'
<1>1. TypeOK'
  <2>1. authorized' \in [Nodes -> [Nodes -> Keys \cup {None}]] /\ installed' \in SUBSET Keys
    BY KeyFacts, AuthorizeResult DEF PairingInv, acceptPrepared
  <2> QED
    BY <2>1 DEF PairingInv, TypeOK, Post, acceptPrepared, outRow
<1>2. Arrival' /\ Untouched'
  BY DEF PairingInv, Arrival, Untouched, acceptPrepared
<1>3. Approval' /\ ConsentOnly'
  BY KeyFacts DEF PairingInv, Approval, ConsentOnly, acceptPrepared, Authorize
<1>4. Called' /\ Processed'
  BY DEF PairingInv, Called, Processed, acceptPrepared, Authorize, outRow
<1>5. Credentials' /\ AcceptedIsMutual'
  BY DEF PairingInv, Credentials, AcceptedIsMutual, acceptPrepared, Authorize, outRow
<1> QED
  BY <1>1, <1>2, <1>3, <1>4, <1>5 DEF PairingInv

\* The answer to a callback: what it says has been processed.
LEMMA callbackAnsweredKeeps ==
    ASSUME PairingInv, NEW t \in Pairings, callbackAnswered(t)
    PROVE  PairingInv'
<1>1. TypeOK'
  <2>1. lastId' \in Nat /\ rowId' \in [Keys -> 0..lastId']
    BY NextId DEF PairingInv, TypeOK, callbackAnswered, recordReciprocalDestination
  <2> QED
    BY <2>1 DEF PairingInv, TypeOK, Ended, Post, callbackAnswered, Update, Unheard
<1>2. Arrival' /\ Untouched'
  BY DEF PairingInv, TypeOK, Arrival, Untouched, callbackAnswered, Update, Unheard
<1>3. Approval' /\ ConsentOnly'
  BY DEF PairingInv, Approval, ConsentOnly, callbackAnswered
<1>4. Called' /\ Processed'
  BY DEF PairingInv, Called, Processed, callbackAnswered, Unheard
<1>5. Credentials' /\ AcceptedIsMutual'
  BY KeyFacts
     DEF PairingInv, TypeOK, Credentials, Processed, AcceptedIsMutual, callbackAnswered,
         recordReciprocalDestination, Update
<1> QED
  BY <1>1, <1>2, <1>3, <1>4, <1>5 DEF PairingInv

\* A callback nobody waits for any longer.
LEMMA callbackTimesOutKeeps ==
    ASSUME PairingInv, NEW t \in Pairings, callbackTimesOut(t)
    PROVE  PairingInv'
<1>1. TypeOK'
  BY DEF PairingInv, TypeOK, Ended, Post, callbackTimesOut, Update, Unheard, outRow
<1>2. Arrival' /\ Untouched'
  BY DEF PairingInv, Arrival, Untouched, callbackTimesOut, Update, Unheard
<1>3. Approval' /\ ConsentOnly'
  BY DEF PairingInv, Approval, ConsentOnly, callbackTimesOut
<1>4. Called' /\ Processed'
  BY DEF PairingInv, Called, Processed, callbackTimesOut, Unheard, outRow
<1>5. Credentials' /\ AcceptedIsMutual'
  BY DEF PairingInv, Credentials, AcceptedIsMutual, callbackTimesOut, Update, outRow
<1> QED
  BY <1>1, <1>2, <1>3, <1>4, <1>5 DEF PairingInv

\* The initiator processes a callback, whose key is authorised.
LEMMA handlePairingCallbackKeeps ==
    ASSUME PairingInv, NEW t \in Pairings, handlePairingCallback(t)
    PROVE  PairingInv'
<1>1. TypeOK'
  <2>1. authorized' \in [Nodes -> [Nodes -> Keys \cup {None}]] /\ installed' \in SUBSET Keys
    BY KeyFacts, AuthorizeResult
       DEF PairingInv, TypeOK, handlePairingCallback, grantReciprocalAccess
  <2> QED
    BY <2>1 DEF PairingInv, TypeOK, Post, Ended, handlePairingCallback, Answer
<1>2. Arrival' /\ Untouched'
  BY DEF PairingInv, TypeOK, Arrival, Untouched, handlePairingCallback, Answer
<1>3. Approval' /\ ConsentOnly'
  BY KeyFacts
     DEF PairingInv, Approval, ConsentOnly, handlePairingCallback, grantReciprocalAccess,
         Authorize
<1>4. Called' /\ Processed'
  <2>1. installed \subseteq installed'
    BY DEF handlePairingCallback, grantReciprocalAccess, Authorize
  <2>2. CASE outgoing[t] = "pending" /\ grantReciprocalAccess(t)
             /\ outgoing' = [outgoing EXCEPT ![t] = "accepted"]
    <3>1. t \in taken => Reverse(t) \in installed'
      BY <2>2 DEF PairingInv, Approval, grantReciprocalAccess, Authorize
    <3> QED
      BY <2>1, <2>2, <3>1
         DEF PairingInv, TypeOK, Called, Processed, handlePairingCallback, Answer
  <2>3. CASE callback' = Answer(callback, t, accept[t] = "callback", "refused")
    BY <2>1, <2>3 DEF PairingInv, TypeOK, Called, Processed, handlePairingCallback, Answer
  <2> QED
    BY <2>2, <2>3 DEF handlePairingCallback
<1>5. Credentials' /\ AcceptedIsMutual'
  BY KeyFacts
     DEF PairingInv, TypeOK, Credentials, Called, Processed, AcceptedIsMutual,
         handlePairingCallback, grantReciprocalAccess, Authorize
<1> QED
  BY <1>1, <1>2, <1>3, <1>4, <1>5 DEF PairingInv

\* An expired row, pending or accepting.
LEMMA expireKeeps ==
    ASSUME PairingInv, NEW t \in Pairings, expire(t)
    PROVE  PairingInv'
<1>1. TypeOK'
  BY DEF PairingInv, TypeOK, Ended, Post, expire, wire
<1>2. Arrival' /\ Untouched'
  BY DEF PairingInv, TypeOK, Arrival, Untouched, expire, wire
<1>3. Approval' /\ ConsentOnly'
  BY DEF PairingInv, Approval, ConsentOnly, expire, wire
<1>4. Called' /\ Processed'
  BY DEF PairingInv, TypeOK, Called, Processed, expire, wire
<1>5. Credentials' /\ AcceptedIsMutual'
  BY DEF PairingInv, TypeOK, Credentials, AcceptedIsMutual, expire
<1> QED
  BY <1>1, <1>2, <1>3, <1>4, <1>5 DEF PairingInv

\* A deleted row.
LEMMA unpairKeeps ==
    ASSUME PairingInv, NEW t \in Pairings, unpair(t)
    PROVE  PairingInv'
<1>1. TypeOK'
  <2>1. rowId' \in [Keys -> 0..lastId']
    BY DEF PairingInv, TypeOK, unpair, outRow
  <2> QED
    BY <2>1 DEF PairingInv, TypeOK, Ended, unpair, wire
<1>2. Arrival' /\ Untouched'
  BY DEF PairingInv, TypeOK, Arrival, Untouched, unpair, wire
<1>3. Approval' /\ ConsentOnly'
  BY DEF PairingInv, Approval, ConsentOnly, unpair, wire
<1>4. Called' /\ Processed'
  BY DEF PairingInv, TypeOK, Called, Processed, unpair, wire
<1>5. Credentials' /\ AcceptedIsMutual'
  BY KeyFacts DEF PairingInv, TypeOK, Credentials, AcceptedIsMutual, unpair
<1> QED
  BY <1>1, <1>2, <1>3, <1>4, <1>5 DEF PairingInv

\* The operator approves a pending request.
LEMMA acceptPairingKeeps ==
    ASSUME PairingInv, NEW t \in Pairings, NEW r \in BOOLEAN, acceptPairing(t, r)
    PROVE  PairingInv'
<1>1. TypeOK'
  BY DEF PairingInv, TypeOK, Ended, acceptPairing, outRow
<1>2. Arrival' /\ Untouched'
  BY DEF PairingInv, TypeOK, Arrival, Untouched, acceptPairing
<1>3. Approval' /\ ConsentOnly'
  BY DEF PairingInv, Approval, ConsentOnly, acceptPairing
<1>4. Called' /\ Processed'
  BY DEF PairingInv, Called, Processed, Untouched, acceptPairing, outRow
<1>5. Credentials' /\ AcceptedIsMutual'
  BY DEF PairingInv, Credentials, AcceptedIsMutual, acceptPairing, outRow
<1> QED
  BY <1>1, <1>2, <1>3, <1>4, <1>5 DEF PairingInv

\* A deleted peer.
LEMMA removePeerKeeps ==
    ASSUME PairingInv, NEW n \in Nodes, NEW m \in Nodes, removePeer(n, m)
    PROVE  PairingInv'
<1>1. TypeOK'
  BY DEF PairingInv, TypeOK, removePeer, wire, outRow
<1>2. Arrival' /\ Untouched'
  BY DEF PairingInv, Arrival, Untouched, removePeer, wire
<1>3. Approval' /\ ConsentOnly'
  BY DEF PairingInv, Approval, ConsentOnly, removePeer, wire
<1>4. Called' /\ Processed'
  BY DEF PairingInv, Called, Processed, removePeer, wire, outRow
<1>5. Credentials' /\ AcceptedIsMutual'
  BY DEF PairingInv, Credentials, AcceptedIsMutual, removePeer, outRow
<1> QED
  BY <1>1, <1>2, <1>3, <1>4, <1>5 DEF PairingInv

\* A crash forgets what was awaited.
LEMMA crashKeeps ==
    ASSUME PairingInv, NEW n \in Nodes, crash(n)
    PROVE  PairingInv'
<1>1. TypeOK'
  BY DEF PairingInv, TypeOK, Post, crash, Unheard, outRow
<1>2. Arrival' /\ Untouched'
  BY DEF PairingInv, Arrival, Untouched, crash, Unheard
<1>3. Approval' /\ ConsentOnly'
  BY DEF PairingInv, Approval, ConsentOnly, crash, Unheard
<1>4. Called' /\ Processed'
  BY DEF PairingInv, Called, Processed, crash, Unheard, outRow
<1>5. Credentials' /\ AcceptedIsMutual'
  BY DEF PairingInv, Credentials, AcceptedIsMutual, crash, outRow
<1> QED
  BY <1>1, <1>2, <1>3, <1>4, <1>5 DEF PairingInv

-----------------------------------------------------------------------------
\* Every step keeps the invariant.
LEMMA PairingInvStep ==
    ASSUME PairingAssumption, PairingInv, [Next]_vars PROVE PairingInv'
<1>1. CASE \E n, m \in Nodes : (\E o \in BOOLEAN : initiatePairing(n, m, o)) \/ removePeer(n, m)
  BY <1>1, initiatePairingKeeps, removePeerKeeps
<1>2. ASSUME NEW t \in Pairings,
             \/ Initiate(t) \/ receiveRequest(t) \/ declinePairing(t)
             \/ \E r \in BOOLEAN : acceptPairing(t, r)
             \/ Accept(t) \/ handlePairingCallback(t)
             \/ expire(t) \/ unpair(t)
      PROVE  PairingInv'
  <2>1. CASE Initiate(t)
    BY <2>1, requestAnsweredKeeps, requestTimesOutKeeps DEF Initiate
  <2>2. CASE Accept(t)
    BY <2>2, acceptFailsKeeps, acceptPreparedKeeps, callbackAnsweredKeeps, callbackTimesOutKeeps
       DEF Accept
  <2> QED
    BY <1>2, <2>1, <2>2, receiveRequestKeeps, declinePairingKeeps, acceptPairingKeeps,
       handlePairingCallbackKeeps, expireKeeps, unpairKeeps
<1>3. CASE \E n \in Nodes : crash(n)
  BY <1>3, crashKeeps
<1>4. CASE UNCHANGED vars
  <2>1. TypeOK' /\ Arrival' /\ Untouched' /\ Approval' /\ ConsentOnly'
    BY <1>4
       DEF PairingInv, TypeOK, Arrival, Untouched, Approval, ConsentOnly, vars, wire, outRow
  <2>2. Called' /\ Processed' /\ Credentials' /\ AcceptedIsMutual'
    BY <1>4
       DEF PairingInv, Called, Processed, Credentials, AcceptedIsMutual, vars, wire, outRow
  <2> QED
    BY <2>1, <2>2 DEF PairingInv
<1> QED
  BY <1>1, <1>2, <1>3, <1>4 DEF Next

-----------------------------------------------------------------------------
(* PairingInv is an inductive invariant of the pairing protocol (pairing.js *)
(* at both ends, expiry, deletion and restarts); the theorems below follow. *)
THEOREM PairingInvariant == Spec => []PairingInv
<1>1. Init => PairingInv
  BY PairingAssumption, PairingInvInit
<1>2. PairingInv /\ [Next]_vars => PairingInv'
  BY PairingAssumption, PairingInvStep
<1> QED
  BY <1>1, <1>2, PTL DEF Spec

(* The type invariant of the rows, credentials and messages of pairing.    *)
THEOREM PairingTypeCorrect == Spec => []TypeOK
<1>1. PairingInv => TypeOK
  BY DEF PairingInv
<1> QED
  BY <1>1, PairingInvariant, PTL

(* No key is ever put into authorized_peers without its operator's consent: *)
(* acceptPairing for forward keys, an own offer taken up for reverse ones.  *)
THEOREM KeysNeedConsent == Spec => []ConsentOnly
<1>1. PairingInv => ConsentOnly
  BY DEF PairingInv
<1> QED
  BY <1>1, PairingInvariant, PTL

(* An instance has a credential (an accepted outgoing row) only after the  *)
(* other one authorised it: acceptPairing authorises before its callback,  *)
(* and records a reciprocal destination after the callback's answer.       *)
THEOREM CredentialsComeAfter == Spec => []CredentialsWereAuthorised
<1>1. ASSUME PairingInv, NEW n \in Nodes, NEW m \in Nodes, NEW k \in Destinations(n, m)
      PROVE  k \in installed
  <2>1. k \in Keys /\ k.pairing \in Pairings
    BY DEF Destinations, Keys
  <2>2. CASE k.way = "forward"
    <3>1. k = Forward(k.pairing)
      BY <2>1, <2>2 DEF Keys, Forward
    <3> QED
      BY <1>1, <2>1, <2>2, <3>1 DEF Destinations, PairingInv, Credentials
  <2>3. CASE k.way = "reverse"
    <3>1. k = Reverse(k.pairing)
      BY <2>1, <2>3 DEF Keys, Reverse
    <3> QED
      BY <1>1, <2>1, <2>3, <3>1 DEF Destinations, PairingInv, Credentials
  <2> QED
    BY <2>1, <2>2, <2>3 DEF Keys, Ways
<1>2. PairingInv => CredentialsWereAuthorised
  BY <1>1 DEF CredentialsWereAuthorised
<1> QED
  BY <1>2, PairingInvariant, PTL

(* A receiver that says accepted speaks of a callback the initiator has    *)
(* processed, whatever answers were lost or late.                          *)
THEOREM AcceptanceIsMutual == Spec => []AcceptedIsMutual
<1>1. PairingInv => AcceptedIsMutual
  BY DEF PairingInv
<1> QED
  BY <1>1, PairingInvariant, PTL

(* A declined request never opens the instance: declinePairing and         *)
(* acceptPairing exclude each other by the status they look at.            *)
THEOREM DeclinedStaysClosed == Spec => []DeclinedGrantsNothing
<1>1. PairingInv => DeclinedGrantsNothing
  <2>1. ASSUME PairingInv, NEW t \in Pairings, incoming[t] = "declined",
               Forward(t) \in installed
        PROVE  FALSE
    <3>1. t \in approved
      BY <2>1, KeyFacts DEF PairingInv, ConsentOnly
    <3> QED
      BY <2>1, <3>1 DEF PairingInv, Untouched
  <2> QED
    BY <2>1 DEF DeclinedGrantsNothing
<1> QED
  BY <1>1, PairingInvariant, PTL
=============================================================================
