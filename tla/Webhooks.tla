------------------------------ MODULE Webhooks ------------------------------
(***************************************************************************)
(* The optimizer's webhooks: the subscription store (in memory, or two     *)
(* redis keys per subscription), the dispatch of one event per signed      *)
(* attestation, the deliveries with their retries, and restarts of the     *)
(* optimizer, which forgets every delivery and, without redis, every       *)
(* subscription.                                                           *)
(*                                                                         *)
(* A delivery is named <<e, s>>, its k-th POST <<e, s, k>>: each POST has  *)
(* a fresh X-Yieldfy-Delivery header, so k is also what a receiver that    *)
(* keys on that header can tell apart.                                     *)
(***************************************************************************)
EXTENDS Naturals, FiniteSets

CONSTANTS
    Events,      \* attestations that are signed
    Subs,        \* subscription ids; an id is drawn once (randomUUID)
    Matching,    \* the subscriptions that ask for attestation.created
    MaxAttempts  \* POSTs per delivery

ASSUME MatchingAssumption == Matching \subseteq Subs
ASSUME MaxAttemptsAssumption == MaxAttempts \in Nat \ {0}

VARIABLES
    kind,      \* the store wired at boot: "memory" or "redis"
    ids,       \* the ids in the store (redis: the set KEY_SET)
    bodies,    \* the ids whose body is in the store (redis: KEY_HASH)
    client,    \* what the owner of each subscription was told of it
    known,     \* ghost: client, at the moment each event was attested
    dispatch,  \* dispatchEvent's progress for each event
    listed,    \* the ids that its list() read
    delivery,  \* state of each delivery
    posts,     \* POSTs made for each delivery
    sent,      \* POSTs under way to their receiver
    answers,   \* answers of receivers, on their way or dropped
    processed  \* POSTs a receiver has acted upon

store == <<kind, ids, bodies>>
wire == <<sent, answers, processed>>
vars == <<store, client, known, dispatch, listed, delivery, posts, wire>>

Posts == Events \X Subs \X (1..MaxAttempts)
Told == {"nothing", "kept", "removed", "unsure"}
Settled == {"ok", "refused", "dead", "lost"}

TypeOK ==
    /\ kind \in {"memory", "redis"}
    /\ ids \subseteq Subs /\ bodies \subseteq Subs
    /\ client \in [Subs -> Told]
    /\ known \in [Events -> [Subs -> Told]]
    /\ dispatch \in [Events -> {"none", "ids", "bodies", "sent", "lost"}]
    /\ listed \in [Events -> SUBSET Subs]
    /\ delivery \in [Events \X Subs -> {"none", "ready", "posting"} \cup Settled]
    /\ posts \in [Events \X Subs -> 0..MaxAttempts]
    /\ sent \subseteq Posts
    /\ answers \subseteq Posts \X {"2xx", "4xx", "5xx"}
    /\ processed \subseteq Posts

\* A store in memory starts with nothing; redis is empty at first.
EmptyStore == ids = {} /\ bodies = {}

Init ==
    /\ kind \in {"memory", "redis"}
    /\ EmptyStore
    /\ client = [s \in Subs |-> "nothing"]
    /\ known = [e \in Events |-> client]
    /\ dispatch = [e \in Events |-> "none"]
    /\ listed = [e \in Events |-> {}]
    /\ delivery = [d \in Events \X Subs |-> "none"]
    /\ posts = [d \in Events \X Subs |-> 0]
    /\ sent = {} /\ answers = {} /\ processed = {}

-----------------------------------------------------------------------------
(* Subscriptions.  The two commands of a call are written back to back on  *)
(* the process's one connection: nothing comes between them, but when the  *)
(* connection breaks any part of them may have been applied, and the call  *)
(* rejects.                                                                *)

Tell(s, word) == client' = [client EXCEPT ![s] = word]

\* POST /webhooks.
Subscribe(s) ==
    /\ client[s] = "nothing"
    /\ ids' = ids \cup {s} /\ bodies' = bodies \cup {s}
    /\ Tell(s, "kept")
    /\ UNCHANGED <<kind, known, dispatch, listed, delivery, posts, wire>>

SubscribeFails(s) ==
    /\ kind = "redis"
    /\ client[s] = "nothing"
    /\ ids' \in {ids, ids \cup {s}} /\ bodies' \in {bodies, bodies \cup {s}}
    /\ Tell(s, "unsure")
    /\ UNCHANGED <<kind, known, dispatch, listed, delivery, posts, wire>>

\* Mutant: the reply does not wait for the store's answers.
UnsubscribeUnconfirmed(s) ==
    /\ client[s] \in {"kept", "unsure"}
    /\ ids' \in {ids, ids \ {s}}
    /\ bodies' \in {bodies, bodies \ {s}}
    /\ Tell(s, "removed")
    /\ UNCHANGED <<kind, known, dispatch, listed, delivery, posts, wire>>

\* DELETE /webhooks/:id, answered 200, or 404 when there was nothing to remove:
\* either way the subscription is gone.
Unsubscribe(s) ==
    /\ client[s] \in {"kept", "unsure"}
    /\ ids' = ids \ {s} /\ bodies' = bodies \ {s}
    /\ Tell(s, "removed")
    /\ UNCHANGED <<kind, known, dispatch, listed, delivery, posts, wire>>

UnsubscribeFails(s) ==
    /\ kind = "redis"
    /\ client[s] \in {"kept", "unsure"}
    /\ ids' \in {ids, ids \ {s}} /\ bodies' \in {bodies, bodies \ {s}}
    /\ Tell(s, "unsure")
    /\ UNCHANGED <<kind, known, dispatch, listed, delivery, posts, wire>>

-----------------------------------------------------------------------------
(* Dispatch. *)

\* /attest has signed; dispatchEvent is called and not awaited.
Attested(e) ==
    /\ dispatch[e] = "none"
    /\ dispatch' = [dispatch EXCEPT ![e] = "ids"]
    /\ known' = [known EXCEPT ![e] = client]
    /\ UNCHANGED <<store, client, listed, delivery, posts, wire>>

ListIds(e) ==
    /\ dispatch[e] = "ids"
    /\ dispatch' = [dispatch EXCEPT ![e] = "bodies"]
    /\ listed' = [listed EXCEPT ![e] = ids]
    /\ UNCHANGED <<store, client, known, delivery, posts, wire>>

\* What list() returns: redis is asked for the bodies of the ids, and an id
\* whose body has gone meanwhile is skipped.
Found(e) == IF kind = "redis" THEN listed[e] \cap bodies ELSE listed[e]

\* One delivery starts for each match.
StartDeliveries(e) ==
    /\ dispatch[e] = "bodies"
    /\ dispatch' = [dispatch EXCEPT ![e] = "sent"]
    /\ delivery' = [d \in Events \X Subs |->
         IF d[1] = e /\ d[2] \in Found(e) \cap Matching THEN "ready" ELSE delivery[d]]
    /\ UNCHANGED <<store, client, known, listed, posts, wire>>

-----------------------------------------------------------------------------
(* Deliveries. *)

Becomes(d, state) == delivery' = [delivery EXCEPT ![d] = state]

\* The first attempt, or the next one when its backoff is over.
Post(d) ==
    /\ delivery[d] = "ready"
    /\ posts' = [posts EXCEPT ![d] = @ + 1]
    /\ sent' = sent \cup {<<d[1], d[2], posts'[d]>>}
    /\ Becomes(d, "posting")
    /\ UNCHANGED <<store, client, known, dispatch, listed, answers, processed>>

AnsweredWith(d, class) ==
    /\ delivery[d] = "posting"
    /\ <<<<d[1], d[2], posts[d]>>, class>> \in answers

\* Mutant: the loop ends with the last attempt, and nothing is counted.
RetryOrDrop(d) ==
    Becomes(d, IF posts[d] = MaxAttempts THEN "dropped" ELSE "ready")

\* After a failed attempt: the next one, unless it was the last.
RetryOrDie(d) ==
    Becomes(d, IF posts[d] = MaxAttempts THEN "dead" ELSE "ready")

\* The 5 s timeout, which does not take the request back, or a failing socket.
Aborts(d) == delivery[d] = "posting"

Success(d) == AnsweredWith(d, "2xx")

\* What the await of postOnce brings: res.ok ends the delivery, other answers
\* below 500 end it too, the rest is retried.
AttemptEnds(d) ==
    /\ \/ Success(d) /\ Becomes(d, "ok")
       \/ AnsweredWith(d, "4xx") /\ Becomes(d, "refused")
       \/ (AnsweredWith(d, "5xx") \/ Aborts(d)) /\ RetryOrDie(d)
    /\ UNCHANGED <<store, client, known, dispatch, listed, posts, wire>>

\* A receiver acts upon the POST, or turns it down; its answer may come too
\* late to matter.  It keys on X-Yieldfy-Delivery, and no two POSTs share one.
Receive(p) ==
    /\ p \in sent
    /\ sent' = sent \ {p}
    /\ \/ processed' = processed \cup {p} /\ answers' = answers \cup {<<p, "2xx">>}
       \/ /\ \E class \in {"4xx", "5xx"} : answers' = answers \cup {<<p, class>>}
          /\ UNCHANGED processed
    /\ UNCHANGED <<store, client, known, dispatch, listed, delivery, posts>>

-----------------------------------------------------------------------------
(* The process ends, by a signal or a crash, and is started again. *)

\* The shutdown waits for requests, but a dispatch and its deliveries are none.
Forgets ==
    /\ dispatch' = [e \in Events |->
         IF dispatch[e] \in {"ids", "bodies"} THEN "lost" ELSE dispatch[e]]
    /\ delivery' = [d \in Events \X Subs |->
         IF delivery[d] \in {"ready", "posting"} THEN "lost" ELSE delivery[d]]

\* Mutant: the store is rebuilt at boot, whichever it is.
RestartsEmpty ==
    /\ ids' = {} /\ bodies' = {} /\ Forgets
    /\ UNCHANGED <<kind, client, known, listed, posts, wire>>

Restart ==
    /\ IF kind = "memory" THEN ids' = {} /\ bodies' = {}
       ELSE UNCHANGED <<ids, bodies>>
    /\ Forgets
    /\ UNCHANGED <<kind, client, known, listed, posts, wire>>

\* Redis is out of reach while an event is dispatched: list() rejects, nobody
\* catches it, and node ends the process.
ListFails(e) ==
    /\ kind = "redis"
    /\ dispatch[e] \in {"ids", "bodies"}
    /\ Restart

Next ==
    \/ \E s \in Subs :
        \/ Subscribe(s) \/ SubscribeFails(s)
        \/ Unsubscribe(s) \/ UnsubscribeFails(s)
    \/ \E e \in Events :
        Attested(e) \/ ListIds(e) \/ StartDeliveries(e) \/ ListFails(e)
    \/ \E d \in Events \X Subs : Post(d) \/ AttemptEnds(d)
    \/ \E p \in sent : Receive(p)
    \/ Restart

\* The event loop goes on: commands are answered or fail, timers fire.
\* Receivers owe nothing.
DispatchMoves(e) == ListIds(e) \/ StartDeliveries(e) \/ ListFails(e)
DispatchFair(e) == WF_vars(DispatchMoves(e))
DeliveryFair(d) == WF_vars(Post(d)) /\ WF_vars(AttemptEnds(d))
Fairness ==
    /\ \A e \in Events : DispatchFair(e)
    /\ \A d \in Events \X Subs : DeliveryFair(d)

Spec == Init /\ [][Next]_vars /\ Fairness

-----------------------------------------------------------------------------
(* Properties. *)

\* With redis, a subscription that was confirmed when an event was attested and
\* has not been given up since gets that event, through restarts and partial
\* failures of other calls (README of the optimizer: "set REDIS_URL for
\* persistence across restarts").
KeptAreTargets ==
    \A e \in Events, s \in Matching :
        (kind = "redis" /\ dispatch[e] = "sent"
           /\ known[e][s] = "kept" /\ client[s] = "kept")
        => delivery[<<e, s>>] # "none"

\* Once DELETE has answered, no event attested later is sent there, even if an
\* earlier DELETE or the POST that created the subscription had half failed.
RemovedAreNot ==
    \A e \in Events, s \in Subs :
        known[e][s] = "removed" => posts[<<e, s>>] = 0

\* Who is sent an event is who had asked for it when it was attested.
SubscribersAreTargets == KeptAreTargets /\ RemovedAreNot

\* A delivery counted as successful was acted upon by its receiver.
OkMeansProcessed ==
    \A d \in Events \X Subs :
        delivery[d] = "ok" =>
            \E k \in 1..MaxAttempts : <<d[1], d[2], k>> \in processed

\* No receiver and no store can hold up the next step of a dispatch or a delivery.
WorkGoesOn ==
    /\ \A e \in Events :
          dispatch[e] \in {"ids", "bodies"} => ENABLED <<DispatchMoves(e)>>_vars
    /\ \A d \in Events \X Subs :
          /\ delivery[d] = "ready" => ENABLED <<Post(d)>>_vars
          /\ delivery[d] = "posting" => ENABLED <<AttemptEnds(d)>>_vars

\* Every attestation's dispatch comes to an end, and so does every delivery, at
\* the latest when its attempts are used up, whatever the receiver does.
DispatchSettles ==
    /\ []WorkGoesOn
    /\ \A e \in Events : dispatch[e] = "ids" ~> dispatch[e] \in {"sent", "lost"}
    /\ \A d \in Events \X Subs : delivery[d] = "ready" ~> delivery[d] \in Settled
=============================================================================
