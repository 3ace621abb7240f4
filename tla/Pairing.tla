------------------------------ MODULE Pairing ------------------------------
(***************************************************************************)
(* How two RedMan instances pair (services/pairing.js, pairingIngress.js,  *)
(* pairingState.js, peerBinding.js, the pairing routes and the expiry of   *)
(* databaseRetention.js), for a set of nodes and several pairings between  *)
(* them, in either direction and at the same time.                         *)
(*                                                                         *)
(* The initiator stores an outgoing row and POSTs a request; the receiver  *)
(* stores an incoming row; when its operator accepts, it authorises the    *)
(* derived key and POSTs a callback, from which the initiator derives the  *)
(* same key.  The request may offer the receiver space in return, under a  *)
(* second, reverse key.                                                    *)
(*                                                                         *)
(* Abstractions.                                                           *)
(*  - Both keys of a pairing follow from its token: a key is the pairing's *)
(*    number and its way.  Signatures and envelopes are valid.             *)
(*  - A row has expired when the environment says so: a check may find it  *)
(*    expired whenever "expire" may happen.                                *)
(*  - A request or callback whose sender stopped waiting may still be      *)
(*    handled, or never.  An instance that crashes starts again at once.   *)
(*  - Paths, quotas and SSH lines go with a key and are left out; so are   *)
(*    the enabled flag, manual peers and new keys for an existing peer.    *)
(***************************************************************************)
EXTENDS Integers, FiniteSets

CONSTANTS
    Nodes,        \* the instances
    MaxPairings,  \* bound: how many pairings are initiated
    MaxActive,    \* MAX_ACTIVE_INCOMING_PAIRINGS
    MaxRare,      \* bound: offers, failures and deletions happen to pairings 1..MaxRare
    EnvEvents,    \* which of the events of AllEvents may happen
    None          \* no pairing, no key

AllEvents == {"offer", "decline", "lose", "expire", "crash", "failure", "unpair"}

ASSUME PairingAssumption ==
    /\ MaxPairings \in Nat
    /\ MaxActive \in Nat
    /\ MaxRare \in Nat
    /\ EnvEvents \subseteq AllEvents

Rare(e, t) == e \in EnvEvents /\ t <= MaxRare

Pairings == 1..MaxPairings
Ways     == {"forward", "reverse"}
Keys     == [pairing : Pairings, way : Ways]
Post     == {"none", "sent", "ok", "refused"}

Forward(t) == [pairing |-> t, way |-> "forward"]
Reverse(t) == [pairing |-> t, way |-> "reverse"]

VARIABLES
    (* the databases *)
    started,     \* how many pairings were initiated
    from, to,    \* the initiator and the receiver of a pairing
    offer,       \* the pairings whose signed request offers space in return
    outgoing,    \* outgoing[t]: status of the initiator's row
    incoming,    \* incoming[t]: status of the receiver's row
    rowId,       \* rowId[k]: id of the outgoing row that holds key k, or 0
    lastId,      \* the newest id
    authorized,  \* authorized[n][m]: the key m may use at n (authorized_peers)
    (* on the wire and in memory *)
    request,     \* request[t]: the POST /peer/pair/request
    callback,    \* callback[t]: the POST /peer/pair/callback
    waiting,     \* the pairings whose initiatePairing awaits its answer
    accept,      \* accept[t]: where acceptPairing stands
    taken,       \* the pairings accepted together with their offer
    (* history *)
    approved,    \* the pairings the receiver's operator accepted
    installed    \* every key that was ever put into authorized_peers

outRow == <<outgoing, rowId, lastId>>
wire   == <<request, callback, waiting, accept>>
vars   == <<started, from, to, offer, outRow, incoming, authorized, wire, taken,
            approved, installed>>

Init ==
    /\ started = 0
    /\ from = [t \in Pairings |-> None]
    /\ to = [t \in Pairings |-> None]
    /\ offer = {}
    /\ outgoing = [t \in Pairings |-> "none"]
    /\ incoming = [t \in Pairings |-> "none"]
    /\ rowId = [k \in Keys |-> 0]
    /\ lastId = 0
    /\ authorized = [n \in Nodes |-> [m \in Nodes |-> None]]
    /\ request = [t \in Pairings |-> "none"]
    /\ callback = [t \in Pairings |-> "none"]
    /\ waiting = {}
    /\ accept = [t \in Pairings |-> "none"]
    /\ taken = {}
    /\ approved = {}
    /\ installed = {}

\* UPDATE ... WHERE id: without a condition on the status; a deleted row stays so.
Update(row, t, s) == [row EXCEPT ![t] = IF @ = "deleted" THEN @ ELSE s]

\* A row of authorized_peers is created or its key replaced (findExistingPeer).
Authorize(n, m, k) ==
    /\ authorized' = [authorized EXCEPT ![n][m] = k]
    /\ installed' = installed \cup {k}

\* What becomes of an answer nobody waits for, and of a POST not handled yet.
Unheard(post, t) == [post EXCEPT ![t] = IF @ = "sent" THEN "sent" ELSE "none"]

\* A handler answers; a sender that gave up does not hear it.
Answer(post, t, heard, a) == [post EXCEPT ![t] = IF heard THEN a ELSE "none"]

-----------------------------------------------------------------------------
(* initiatePairing.                                                        *)

initiatePairing(n, m, o) ==
    /\ started < MaxPairings
    /\ n # m
    /\ o => Rare("offer", started + 1)
    /\ started' = started + 1
    /\ from' = [from EXCEPT ![started'] = n]
    /\ to' = [to EXCEPT ![started'] = m]
    /\ offer' = IF o THEN offer \cup {started'} ELSE offer
    /\ outgoing' = [outgoing EXCEPT ![started'] = "pending"]
    /\ lastId' = lastId + 1
    /\ rowId' = [rowId EXCEPT ![Forward(started')] = lastId']
    /\ request' = [request EXCEPT ![started'] = "sent"]
    /\ waiting' = waiting \cup {started'}
    /\ UNCHANGED <<incoming, authorized, callback, accept, taken, approved, installed>>

\* The answer says who the remote is; a refusal is final.
requestAnswered(t) ==
    /\ t \in waiting
    /\ request[t] \in {"ok", "refused"}
    /\ waiting' = waiting \ {t}
    /\ outgoing' = IF request[t] = "ok" THEN outgoing ELSE Update(outgoing, t, "failed")
    /\ request' = Unheard(request, t)
    /\ UNCHANGED <<started, from, to, offer, rowId, lastId, incoming, authorized, callback,
                   accept, taken, approved, installed>>

\* AbortError after ten seconds, or the connection broke.
requestTimesOut(t) ==
    /\ "lose" \in EnvEvents
    /\ t \in waiting
    /\ waiting' = waiting \ {t}
    /\ outgoing' = Update(outgoing, t, "failed")
    /\ request' = Unheard(request, t)
    /\ UNCHANGED <<started, from, to, offer, rowId, lastId, incoming, authorized, callback,
                   accept, taken, approved, installed>>

-----------------------------------------------------------------------------
(* The receiver.                                                           *)

Active(n) == {t \in Pairings : to[t] = n /\ incoming[t] \in {"pending", "accepting"}}

\* storeIncomingPairingRequest: rows that have expired are not counted.
receiveRequest(t) ==
    /\ request[t] = "sent"
    /\ \/ /\ "expire" \in EnvEvents \/ Cardinality(Active(to[t])) < MaxActive
          /\ incoming' = [incoming EXCEPT ![t] = "pending"]
          /\ request' = Answer(request, t, t \in waiting, "ok")
       \/ /\ Cardinality(Active(to[t])) >= MaxActive
          /\ request' = Answer(request, t, t \in waiting, "refused")
          /\ UNCHANGED incoming
    /\ UNCHANGED <<started, from, to, offer, outRow, authorized, callback, waiting, accept,
                   taken, approved, installed>>

\* Mutant of declinePairing: the status is not looked at.
declineAnyway(t) ==
    /\ "decline" \in EnvEvents
    /\ incoming[t] \in {"pending", "accepting"}
    /\ incoming' = [incoming EXCEPT ![t] = "declined"]
    /\ UNCHANGED <<started, from, to, offer, outRow, authorized, wire, taken, approved, installed>>

declinePairing(t) ==
    /\ "decline" \in EnvEvents
    /\ incoming[t] = "pending"
    /\ incoming' = [incoming EXCEPT ![t] = "declined"]
    /\ UNCHANGED <<started, from, to, offer, outRow, authorized, wire, taken, approved, installed>>

\* acceptPairing up to its first await, which an instance that has its SSH key
\* skips (then a crash is all that can come between); r: the offer is taken as
\* well.  A request found expired is refused and changes nothing.
acceptPairing(t, r) ==
    /\ incoming[t] = "pending"
    /\ r => t \in offer
    /\ incoming' = [incoming EXCEPT ![t] = "accepting"]
    /\ accept' = [accept EXCEPT ![t] = "prepare"]
    /\ taken' = IF r THEN taken \cup {t} ELSE taken
    /\ approved' = approved \cup {t}
    /\ UNCHANGED <<started, from, to, offer, outRow, authorized, request, callback, waiting,
                   installed>>

\* The SSH key cannot be generated or authorised, or the handshake is incomplete.
acceptFails(t) ==
    /\ Rare("failure", t)
    /\ accept[t] = "prepare"
    /\ accept' = [accept EXCEPT ![t] = "none"]
    /\ incoming' = Update(incoming, t, "failed")
    /\ UNCHANGED <<started, from, to, offer, outRow, authorized, request, callback, waiting,
                   taken, approved, installed>>

\* Mutant of acceptPrepared: the row is accepted before the callback is answered.
acceptPreparedEarly(t) ==
    /\ accept[t] = "prepare"
    /\ Authorize(to[t], from[t], Forward(t))
    /\ callback' = [callback EXCEPT ![t] = "sent"]
    /\ accept' = [accept EXCEPT ![t] = "callback"]
    /\ incoming' = Update(incoming, t, "accepted")
    /\ UNCHANGED <<started, from, to, offer, outRow, request, waiting, taken, approved>>

\* The key is authorised BEFORE the callback is sent.
acceptPrepared(t) ==
    /\ accept[t] = "prepare"
    /\ Authorize(to[t], from[t], Forward(t))
    /\ callback' = [callback EXCEPT ![t] = "sent"]
    /\ accept' = [accept EXCEPT ![t] = "callback"]
    /\ UNCHANGED <<started, from, to, offer, outRow, incoming, request, waiting, taken, approved>>

\* Mutant of recordReciprocalDestination: recorded although it was not offered.
recordReciprocalAlways(t) ==
    /\ lastId' = lastId + 1
    /\ rowId' = [rowId EXCEPT ![Reverse(t)] = lastId']

\* The offered space becomes an accepted outgoing row of the receiver.
recordReciprocalDestination(t) ==
    IF t \in taken
    THEN /\ lastId' = lastId + 1
         /\ rowId' = [rowId EXCEPT ![Reverse(t)] = lastId']
    ELSE UNCHANGED <<lastId, rowId>>

callbackAnswered(t) ==
    /\ accept[t] = "callback"
    /\ \/ /\ callback[t] = "ok"
          /\ incoming' = Update(incoming, t, "accepted")
          /\ recordReciprocalDestination(t)
       \/ /\ callback[t] = "refused"
          /\ incoming' = Update(incoming, t, "failed")
          /\ UNCHANGED <<lastId, rowId>>
    /\ accept' = [accept EXCEPT ![t] = "none"]
    /\ callback' = Unheard(callback, t)
    /\ UNCHANGED <<started, from, to, offer, outgoing, authorized, request, waiting, taken,
                   approved, installed>>

callbackTimesOut(t) ==
    /\ "lose" \in EnvEvents
    /\ accept[t] = "callback"
    /\ accept' = [accept EXCEPT ![t] = "none"]
    /\ callback' = Unheard(callback, t)
    /\ incoming' = Update(incoming, t, "failed")
    /\ UNCHANGED <<started, from, to, offer, outRow, authorized, request, waiting, taken,
                   approved, installed>>

-----------------------------------------------------------------------------
(* handlePairingCallback, at the initiator.                                *)

\* Our own signed offer is honoured if the receiver took it up.
grantReciprocalAccess(t) ==
    IF t \in offer \cap taken
    THEN Authorize(from[t], to[t], Reverse(t))
    ELSE UNCHANGED <<authorized, installed>>

handlePairingCallback(t) ==
    /\ callback[t] = "sent"
    /\ \/ /\ outgoing[t] = "pending"
          /\ grantReciprocalAccess(t)
          /\ outgoing' = [outgoing EXCEPT ![t] = "accepted"]
          /\ callback' = Answer(callback, t, accept[t] = "callback", "ok")
       \/ /\ outgoing[t] # "pending" \/ "expire" \in EnvEvents
          /\ callback' = Answer(callback, t, accept[t] = "callback", "refused")
          /\ UNCHANGED <<outgoing, authorized, installed>>
       \/ /\ Rare("failure", t)
          /\ outgoing[t] = "pending"
          /\ t \in offer \cap taken
          /\ outgoing' = [outgoing EXCEPT ![t] = "failed"]
          /\ callback' = Answer(callback, t, accept[t] = "callback", "refused")
          /\ UNCHANGED <<authorized, installed>>
    /\ UNCHANGED <<started, from, to, offer, rowId, lastId, incoming, request, waiting, accept,
                   taken, approved>>

-----------------------------------------------------------------------------
(* Expiry, removal and crashes.                                            *)

\* Mutant of expire: rows that are being accepted are not expired.
expirePendingOnly(t) ==
    /\ "expire" \in EnvEvents
    /\ \/ /\ outgoing[t] = "pending"
          /\ outgoing' = [outgoing EXCEPT ![t] = "expired"]
          /\ UNCHANGED incoming
       \/ /\ incoming[t] = "pending"
          /\ incoming' = [incoming EXCEPT ![t] = "expired"]
          /\ UNCHANGED outgoing
    /\ UNCHANGED <<started, from, to, offer, rowId, lastId, authorized, wire, taken, approved,
                   installed>>

\* The retention batches: pending and accepting rows past expires_at.
expire(t) ==
    /\ "expire" \in EnvEvents
    /\ \/ /\ outgoing[t] = "pending"
          /\ outgoing' = [outgoing EXCEPT ![t] = "expired"]
          /\ UNCHANGED incoming
       \/ /\ incoming[t] \in {"pending", "accepting"}
          /\ incoming' = [incoming EXCEPT ![t] = "expired"]
          /\ UNCHANGED outgoing
    /\ UNCHANGED <<started, from, to, offer, rowId, lastId, authorized, wire, taken, approved,
                   installed>>

\* DELETE /pair/:id, for a row of any direction and status.
unpair(t) ==
    /\ Rare("unpair", t)
    /\ \/ /\ outgoing[t] \notin {"none", "deleted"}
          /\ outgoing' = [outgoing EXCEPT ![t] = "deleted"]
          /\ rowId' = [rowId EXCEPT ![Forward(t)] = 0]
          /\ UNCHANGED incoming
       \/ /\ incoming[t] \notin {"none", "deleted"}
          /\ incoming' = [incoming EXCEPT ![t] = "deleted"]
          /\ UNCHANGED <<outgoing, rowId>>
       \/ /\ rowId[Reverse(t)] # 0
          /\ rowId' = [rowId EXCEPT ![Reverse(t)] = 0]
          /\ UNCHANGED <<outgoing, incoming>>
    /\ UNCHANGED <<started, from, to, offer, lastId, authorized, wire, taken, approved, installed>>

\* DELETE /:id of an authorised peer.
removePeer(n, m) ==
    /\ authorized[n][m] # None
    /\ Rare("unpair", authorized[n][m].pairing)
    /\ authorized' = [authorized EXCEPT ![n][m] = None]
    /\ UNCHANGED <<started, from, to, offer, outRow, incoming, wire, taken, approved, installed>>

\* What was awaited is forgotten; the rows stay as they are.
crash(n) ==
    /\ "crash" \in EnvEvents
    /\ \/ \E t \in waiting : from[t] = n
       \/ \E t \in Pairings : to[t] = n /\ accept[t] # "none"
    /\ waiting' = {t \in waiting : from[t] # n}
    /\ accept' = [t \in Pairings |-> IF to[t] = n THEN "none" ELSE accept[t]]
    /\ request' = [t \in Pairings |-> IF from[t] = n THEN Unheard(request, t)[t] ELSE request[t]]
    /\ callback' = [t \in Pairings |-> IF to[t] = n THEN Unheard(callback, t)[t] ELSE callback[t]]
    /\ UNCHANGED <<started, from, to, offer, outRow, incoming, authorized, taken, approved,
                   installed>>

Initiate(t) == requestAnswered(t) \/ requestTimesOut(t)

Accept(t) ==
    acceptFails(t) \/ acceptPrepared(t) \/ callbackAnswered(t) \/ callbackTimesOut(t)

Next ==
    \/ \E n, m \in Nodes : (\E o \in BOOLEAN : initiatePairing(n, m, o)) \/ removePeer(n, m)
    \/ \E t \in Pairings :
          \/ Initiate(t) \/ receiveRequest(t) \/ declinePairing(t)
          \/ \E r \in BOOLEAN : acceptPairing(t, r)
          \/ Accept(t) \/ handlePairingCallback(t)
          \/ expire(t) \/ unpair(t)
    \/ \E n \in Nodes : crash(n)

Spec == Init /\ [][Next]_vars

\* The retention batches run for ever; nothing else has to happen.
Fairness == \A t \in Pairings : WF_vars(expire(t))

FairSpec == Spec /\ Fairness

-----------------------------------------------------------------------------
(* Which key a job uses.                                                   *)

\* The accepted outgoing rows n has for peer m.
Destinations(n, m) ==
    {k \in Keys :
        /\ rowId[k] # 0
        /\ \/ k.way = "forward" /\ outgoing[k.pairing] = "accepted"
              /\ from[k.pairing] = n /\ to[k.pairing] = m
           \/ k.way = "reverse" /\ to[k.pairing] = n /\ from[k.pairing] = m}

-----------------------------------------------------------------------------
(* Properties.                                                             *)

Ended == {"accepted", "failed", "expired", "deleted"}

(* The type of every variable; no row is newer than the newest id.         *)
TypeOK ==
    /\ started \in 0..MaxPairings
    /\ from \in [Pairings -> Nodes \cup {None}]
    /\ to \in [Pairings -> Nodes \cup {None}]
    /\ offer \in SUBSET Pairings
    /\ outgoing \in [Pairings -> Ended \cup {"none", "pending"}]
    /\ incoming \in [Pairings -> Ended \cup {"none", "pending", "accepting", "declined"}]
    /\ lastId \in Nat
    /\ rowId \in [Keys -> 0..lastId]
    /\ authorized \in [Nodes -> [Nodes -> Keys \cup {None}]]
    /\ request \in [Pairings -> Post]
    /\ callback \in [Pairings -> Post]
    /\ waiting \in SUBSET Pairings
    /\ accept \in [Pairings -> {"none", "prepare", "callback"}]
    /\ taken \in SUBSET Pairings
    /\ approved \in SUBSET Pairings
    /\ installed \in SUBSET Keys

(* A key opens an instance only if its operator consented: forward keys by *)
(* accepting the request, reverse keys by an offer of its own that the     *)
(* other operator took up.  Whatever is lost, late, deleted or restarted.  *)
ConsentOnly ==
    \A k \in installed :
        k.pairing \in IF k.way = "forward" THEN approved ELSE offer \cap taken \cap approved

(* An instance never has a credential before the other one has authorised  *)
(* it ("only now is it safe to record the destination it offered us").     *)
CredentialsWereAuthorised ==
    \A n, m \in Nodes : Destinations(n, m) \subseteq installed

(* The receiver calls a pairing accepted only when the initiator has       *)
(* processed the callback: its row is no longer pending and never expires. *)
AcceptedIsMutual ==
    \A t \in Pairings :
        incoming[t] = "accepted" => outgoing[t] \in {"accepted", "failed", "deleted"}

(* A declined request stays without effect, although accept and decline    *)
(* come from two browser tabs and an accept takes several steps.           *)
DeclinedGrantsNothing ==
    \A t \in Pairings : incoming[t] = "declined" => Forward(t) \notin installed

(* Pairings never stick in accepting, not even when the instance restarts  *)
(* in the middle of one.                                                   *)
AcceptingEnds == \A t \in Pairings : incoming[t] = "accepting" ~> incoming[t] # "accepting"

=============================================================================
