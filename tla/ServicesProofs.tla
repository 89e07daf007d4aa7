-------------------------- MODULE ServicesProofs --------------------------
(***************************************************************************)
(* The properties of two services.  Webhooks: for any number of events,    *)
(* subscriptions and restarts, and, where a dispatch is to end, for as many*)
(* attempts as there are delays.  WxrpIndexer: for any supply, any number  *)
(* of polls in flight, and any number of mints, burns, errors and restarts.*)
(***************************************************************************)
EXTENDS Webhooks, WxrpIndexer, TLAPS

-----------------------------------------------------------------------------
(* Webhooks: subscriptions, events and deliveries. *)

\* What was answered to the owner of a subscription is true of the store.
RepliedAt(s) ==
    /\ client[s] = "removed" => s \notin ids /\ s \notin bodies
    /\ (kind = "redis" /\ client[s] = "kept") => s \in ids /\ s \in bodies

StoreMatchesReplies == \A s \in Subs : RepliedAt(s)

\* An event that was not attested has left no trace.
EarlyAt(e, s) ==
    /\ dispatch[e] = "none" => known[e][s] = "nothing"
    /\ dispatch[e] \in {"none", "ids"} => s \notin listed[e]
    /\ dispatch[e] \in {"none", "ids", "bodies"} => delivery[<<e, s>>] = "none"
    /\ delivery[<<e, s>>] = "none" => posts[<<e, s>>] = 0

NothingEarly == \A e \in Events, s \in Subs : EarlyAt(e, s)

\* The dispatch carries SubscribersAreTargets from step to step.
ListedAt(e, s) ==
    /\ client[s] = "nothing" => known[e][s] = "nothing"
    /\ known[e][s] = "removed" =>
        client[s] = "removed" /\ s \notin listed[e] /\ delivery[<<e, s>>] = "none"
    /\ (kind = "redis" /\ known[e][s] = "kept" /\ client[s] = "kept") =>
        /\ dispatch[e] = "bodies" => s \in listed[e]
        /\ (dispatch[e] = "sent" /\ s \in Matching) => delivery[<<e, s>>] # "none"

ListedRight == \A e \in Events, s \in Subs : ListedAt(e, s)

\* An attempt under way has a number; a success was answered to a POST that
\* was acted upon.
AnswersTrue ==
    /\ \A p \in Posts : <<p, "2xx">> \in answers => p \in processed
    /\ \A d \in Events \X Subs :
        /\ delivery[d] = "posting" => posts[d] \in 1..MaxAttempts
        /\ delivery[d] = "ready" => posts[d] < MaxAttempts

IInv ==
    TypeOK /\ StoreMatchesReplies /\ NothingEarly /\ ListedRight
    /\ AnswersTrue /\ OkMeansProcessed

\* Types, the count of attempts, and what a success is worth.
LEMMA TypesAndAnswers ==
   ASSUME TypeOK, NothingEarly, AnswersTrue, OkMeansProcessed, [Next]_vars
   PROVE  (TypeOK /\ AnswersTrue /\ OkMeansProcessed)'
<1> USE DEF TypeOK, AnswersTrue, OkMeansProcessed, Posts, Told, Settled
<1>1. ASSUME NEW s \in Subs, Subscribe(s)
      PROVE  (TypeOK /\ AnswersTrue /\ OkMeansProcessed)'
  BY <1>1, MaxAttemptsAssumption DEF Subscribe, Tell, store, wire
<1>2. ASSUME NEW s \in Subs, SubscribeFails(s)
      PROVE  (TypeOK /\ AnswersTrue /\ OkMeansProcessed)'
  BY <1>2, MaxAttemptsAssumption DEF SubscribeFails, Tell, store, wire
<1>3. ASSUME NEW s \in Subs, Unsubscribe(s)
      PROVE  (TypeOK /\ AnswersTrue /\ OkMeansProcessed)'
  BY <1>3, MaxAttemptsAssumption DEF Unsubscribe, Tell, store, wire
<1>4. ASSUME NEW s \in Subs, UnsubscribeFails(s)
      PROVE  (TypeOK /\ AnswersTrue /\ OkMeansProcessed)'
  BY <1>4, MaxAttemptsAssumption DEF UnsubscribeFails, Tell, store, wire
<1>5. ASSUME NEW e \in Events, Attested(e)
      PROVE  (TypeOK /\ AnswersTrue /\ OkMeansProcessed)'
  BY <1>5, MaxAttemptsAssumption DEF Attested, store, wire
<1>6. ASSUME NEW e \in Events, ListIds(e)
      PROVE  (TypeOK /\ AnswersTrue /\ OkMeansProcessed)'
  BY <1>6, MaxAttemptsAssumption DEF ListIds, store, wire
<1>7. ASSUME NEW e \in Events, StartDeliveries(e)
      PROVE  (TypeOK /\ AnswersTrue /\ OkMeansProcessed)'
  <2>1. delivery' \in [Events \X Subs -> {"none", "ready", "posting"} \cup Settled]
    BY <1>7 DEF StartDeliveries
  <2>2. ASSUME NEW d \in Events \X Subs
        PROVE  delivery'[d] = delivery[d] \/ (delivery'[d] = "ready" /\ posts[d] = 0)
    <3> HIDE DEF TypeOK, AnswersTrue, OkMeansProcessed
    <3>1. PICK f \in Events, t \in Subs : d = <<f, t>>
      OBVIOUS
    <3>2. EarlyAt(f, t)
      BY DEF NothingEarly
    <3>3. delivery'[<<f, t>>] =
            IF f = e /\ t \in Found(e) \cap Matching THEN "ready" ELSE delivery[<<f, t>>]
      BY <1>7 DEF StartDeliveries
    <3>4. dispatch[e] = "bodies"
      BY <1>7 DEF StartDeliveries
    <3>5. delivery'[<<f, t>>] = delivery[<<f, t>>]
            \/ (delivery'[<<f, t>>] = "ready" /\ posts[<<f, t>>] = 0)
      BY <3>2, <3>3, <3>4 DEF EarlyAt
    <3> QED
      BY <3>1, <3>5
  <2>3. AnswersTrue' /\ OkMeansProcessed'
    BY <1>7, <2>2, MaxAttemptsAssumption DEF StartDeliveries, wire
  <2>4. TypeOK'
    BY <1>7, <2>1 DEF StartDeliveries, store, wire
  <2> QED
    BY <2>3, <2>4
<1>8. ASSUME NEW d \in Events \X Subs, Post(d)
      PROVE  (TypeOK /\ AnswersTrue /\ OkMeansProcessed)'
  BY <1>8, MaxAttemptsAssumption DEF Post, Becomes, store, wire
<1>9. ASSUME NEW d \in Events \X Subs, AttemptEnds(d)
      PROVE  (TypeOK /\ AnswersTrue /\ OkMeansProcessed)'
  <2>1. CASE Success(d) /\ Becomes(d, "ok")
    <3>1. <<d[1], d[2], posts[d]>> \in processed /\ posts[d] \in 1..MaxAttempts
      BY <2>1 DEF Success, AnsweredWith
    <3> QED
      BY <1>9, <2>1, <3>1 DEF AttemptEnds, Becomes, store, wire
  <2>2. CASE AnsweredWith(d, "4xx") /\ Becomes(d, "refused")
    BY <1>9, <2>2 DEF AttemptEnds, Becomes, store, wire
  <2>3. CASE (AnsweredWith(d, "5xx") \/ Aborts(d)) /\ RetryOrDie(d)
    <3>1. posts[d] \in 1..MaxAttempts
      BY <2>3 DEF AnsweredWith, Aborts
    <3>2. CASE posts[d] = MaxAttempts
      BY <1>9, <2>3, <3>2 DEF AttemptEnds, RetryOrDie, Becomes, store, wire
    <3>3. CASE posts[d] # MaxAttempts
      <4> HIDE DEF TypeOK, AnswersTrue, OkMeansProcessed
      <4>1. posts[d] < MaxAttempts /\ posts' = posts
        BY <1>9, <3>1, <3>3, MaxAttemptsAssumption DEF AttemptEnds
      <4> USE DEF TypeOK, AnswersTrue, OkMeansProcessed
      <4>2. delivery' = [delivery EXCEPT ![d] = "ready"]
        BY <2>3, <3>3 DEF RetryOrDie, Becomes
      <4>3. AnswersTrue' /\ OkMeansProcessed'
        BY <1>9, <4>1, <4>2 DEF AttemptEnds, wire
      <4>4. TypeOK'
        BY <1>9, <4>2 DEF AttemptEnds, store, wire
      <4> QED
        BY <4>3, <4>4
    <3> QED
      BY <3>2, <3>3
  <2> QED
    BY <1>9, <2>1, <2>2, <2>3 DEF AttemptEnds
<1>10. ASSUME NEW p \in sent, Receive(p)
      PROVE  (TypeOK /\ AnswersTrue /\ OkMeansProcessed)'
  BY <1>10, MaxAttemptsAssumption DEF Receive, store, wire
<1>11. CASE Restart
  BY <1>11, MaxAttemptsAssumption DEF Restart, EmptyStore, Forgets, store, wire
<1>12. CASE UNCHANGED vars
  BY <1>12 DEF vars, store, wire
<1> QED
  BY <1>1, <1>2, <1>3, <1>4, <1>5, <1>6, <1>7, <1>8, <1>9, <1>10, <1>11, <1>12 DEF Next, ListFails

\* Calls that half fail leave nobody with a wrong answer.
LEMMA StoreStep ==
   ASSUME TypeOK, StoreMatchesReplies, [Next]_vars
   PROVE  StoreMatchesReplies'
<1> USE DEF TypeOK, StoreMatchesReplies, RepliedAt, Told
<1>1. ASSUME NEW s \in Subs, Subscribe(s)
      PROVE  StoreMatchesReplies'
  BY <1>1, MaxAttemptsAssumption DEF Subscribe, Tell, store, wire
<1>2. ASSUME NEW s \in Subs, SubscribeFails(s)
      PROVE  StoreMatchesReplies'
  BY <1>2, MaxAttemptsAssumption DEF SubscribeFails, Tell, store, wire
<1>3. ASSUME NEW s \in Subs, Unsubscribe(s)
      PROVE  StoreMatchesReplies'
  BY <1>3, MaxAttemptsAssumption DEF Unsubscribe, Tell, store, wire
<1>4. ASSUME NEW s \in Subs, UnsubscribeFails(s)
      PROVE  StoreMatchesReplies'
  BY <1>4, MaxAttemptsAssumption DEF UnsubscribeFails, Tell, store, wire
<1>5. ASSUME NEW e \in Events, Attested(e)
      PROVE  StoreMatchesReplies'
  BY <1>5, MaxAttemptsAssumption DEF Attested, store, wire
<1>6. ASSUME NEW e \in Events, ListIds(e)
      PROVE  StoreMatchesReplies'
  BY <1>6, MaxAttemptsAssumption DEF ListIds, store, wire
<1>7. ASSUME NEW e \in Events, StartDeliveries(e)
      PROVE  StoreMatchesReplies'
  BY <1>7, MaxAttemptsAssumption DEF StartDeliveries, Found, store, wire
<1>8. ASSUME NEW d \in Events \X Subs, Post(d)
      PROVE  StoreMatchesReplies'
  BY <1>8, MaxAttemptsAssumption DEF Post, Becomes, store, wire
<1>9. ASSUME NEW d \in Events \X Subs, AttemptEnds(d)
      PROVE  StoreMatchesReplies'
  BY <1>9, MaxAttemptsAssumption DEF AttemptEnds, Success, AnsweredWith, RetryOrDie, Aborts, Becomes, store, wire
<1>10. ASSUME NEW p \in sent, Receive(p)
      PROVE  StoreMatchesReplies'
  BY <1>10, MaxAttemptsAssumption DEF Receive, store, wire
<1>11. CASE Restart
  BY <1>11, MaxAttemptsAssumption DEF Restart, EmptyStore, Forgets, store, wire
<1>12. CASE UNCHANGED vars
  BY <1>12 DEF vars, store, wire
<1> QED
  BY <1>1, <1>2, <1>3, <1>4, <1>5, <1>6, <1>7, <1>8, <1>9, <1>10, <1>11, <1>12 DEF Next, ListFails

\* Each event's dispatch starts from nothing.
LEMMA NothingEarlyStep ==
  ASSUME TypeOK, NothingEarly, [Next]_vars
  PROVE  NothingEarly'
<1> SUFFICES ASSUME NEW f \in Events, NEW t \in Subs
             PROVE  EarlyAt(f, t)'
  BY DEF NothingEarly
<1>1. EarlyAt(f, t) /\ <<f, t>> \in Events \X Subs
  BY DEF NothingEarly
<1>2. ASSUME NEW s \in Subs, Subscribe(s)
      PROVE  EarlyAt(f, t)'
  BY <1>1, <1>2 DEF Subscribe, wire, EarlyAt
<1>3. ASSUME NEW s \in Subs, SubscribeFails(s)
      PROVE  EarlyAt(f, t)'
  BY <1>1, <1>3 DEF SubscribeFails, wire, EarlyAt
<1>4. ASSUME NEW s \in Subs, Unsubscribe(s)
      PROVE  EarlyAt(f, t)'
  BY <1>1, <1>4 DEF Unsubscribe, wire, EarlyAt
<1>5. ASSUME NEW s \in Subs, UnsubscribeFails(s)
      PROVE  EarlyAt(f, t)'
  BY <1>1, <1>5 DEF UnsubscribeFails, wire, EarlyAt
<1>6. ASSUME NEW e \in Events, Attested(e)
      PROVE  EarlyAt(f, t)'
  BY <1>1, <1>6 DEF Attested, wire, EarlyAt, TypeOK
<1>7. ASSUME NEW e \in Events, ListIds(e)
      PROVE  EarlyAt(f, t)'
  BY <1>1, <1>7 DEF ListIds, wire, EarlyAt, TypeOK
<1>8. ASSUME NEW e \in Events, StartDeliveries(e)
      PROVE  EarlyAt(f, t)'
  BY <1>1, <1>8 DEF StartDeliveries, wire, EarlyAt, TypeOK
<1>9. ASSUME NEW d \in Events \X Subs, Post(d)
      PROVE  EarlyAt(f, t)'
  BY <1>1, <1>9 DEF Post, Becomes, EarlyAt, TypeOK
<1>10. ASSUME NEW d \in Events \X Subs, AttemptEnds(d)
      PROVE  EarlyAt(f, t)'
  BY <1>1, <1>10 DEF AttemptEnds, Success, AnsweredWith, Aborts, RetryOrDie, Becomes, EarlyAt, TypeOK
<1>11. ASSUME NEW p \in sent, Receive(p)
      PROVE  EarlyAt(f, t)'
  BY <1>1, <1>11 DEF Receive, EarlyAt
<1>12. CASE Restart
  BY <1>1, <1>12 DEF Restart, EmptyStore, Forgets, EarlyAt, TypeOK
<1>13. CASE UNCHANGED vars
  BY <1>1, <1>13 DEF vars, store, wire, EarlyAt
<1> QED
  BY <1>2, <1>3, <1>4, <1>5, <1>6, <1>7, <1>8, <1>9, <1>10, <1>11, <1>12, <1>13 DEF Next, ListFails

\* The list a dispatch reads is right about every subscription whose owner
\* has been given an answer.
LEMMA ListedStep ==
  ASSUME TypeOK, StoreMatchesReplies, NothingEarly, ListedRight, [Next]_vars
  PROVE  ListedRight'
<1> SUFFICES ASSUME NEW f \in Events, NEW t \in Subs
             PROVE  ListedAt(f, t)'
  BY DEF ListedRight
<1>1. ListedAt(f, t) /\ EarlyAt(f, t) /\ RepliedAt(t) /\ <<f, t>> \in Events \X Subs
  BY DEF ListedRight, NothingEarly, StoreMatchesReplies
<1>2. TypeOK
  OBVIOUS
<1>3. ASSUME NEW s \in Subs, Subscribe(s)
      PROVE  ListedAt(f, t)'
  BY <1>1, <1>2, <1>3 DEF Subscribe, Tell, wire, ListedAt, EarlyAt, RepliedAt, TypeOK
<1>4. ASSUME NEW s \in Subs, SubscribeFails(s)
      PROVE  ListedAt(f, t)'
  BY <1>1, <1>2, <1>4 DEF SubscribeFails, Tell, wire, ListedAt, EarlyAt, RepliedAt, TypeOK
<1>5. ASSUME NEW s \in Subs, Unsubscribe(s)
      PROVE  ListedAt(f, t)'
  BY <1>1, <1>2, <1>5 DEF Unsubscribe, Tell, wire, ListedAt, EarlyAt, RepliedAt, TypeOK
<1>6. ASSUME NEW s \in Subs, UnsubscribeFails(s)
      PROVE  ListedAt(f, t)'
  BY <1>1, <1>2, <1>6 DEF UnsubscribeFails, Tell, wire, ListedAt, EarlyAt, RepliedAt, TypeOK
<1>7. ASSUME NEW e \in Events, Attested(e)
      PROVE  ListedAt(f, t)'
  BY <1>1, <1>2, <1>7 DEF Attested, store, wire, ListedAt, EarlyAt, RepliedAt, TypeOK
<1>8. ASSUME NEW e \in Events, ListIds(e)
      PROVE  ListedAt(f, t)'
  BY <1>1, <1>2, <1>8 DEF ListIds, store, wire, ListedAt, EarlyAt, RepliedAt, TypeOK
<1>9. ASSUME NEW e \in Events, StartDeliveries(e)
      PROVE  ListedAt(f, t)'
  BY <1>1, <1>2, <1>9 DEF StartDeliveries, store, Found, wire, ListedAt, EarlyAt, RepliedAt, TypeOK
<1>10. ASSUME NEW d \in Events \X Subs, Post(d)
      PROVE  ListedAt(f, t)'
  BY <1>1, <1>2, <1>10 DEF Post, store, Becomes, ListedAt, EarlyAt, RepliedAt, TypeOK
<1>11. ASSUME NEW d \in Events \X Subs, AttemptEnds(d)
      PROVE  ListedAt(f, t)'
  BY <1>1, <1>2, <1>11 DEF AttemptEnds, store, Success, AnsweredWith, Aborts, RetryOrDie, Becomes, ListedAt, EarlyAt, RepliedAt, TypeOK
<1>12. ASSUME NEW p \in sent, Receive(p)
      PROVE  ListedAt(f, t)'
  BY <1>1, <1>2, <1>12 DEF Receive, store, ListedAt, EarlyAt, RepliedAt, TypeOK
<1>13. CASE Restart
  BY <1>1, <1>2, <1>13 DEF Restart, EmptyStore, Forgets, ListedAt, EarlyAt, RepliedAt, TypeOK
<1>14. CASE UNCHANGED vars
  BY <1>1, <1>2, <1>14 DEF vars, store, wire, ListedAt, EarlyAt, RepliedAt
<1> QED
  BY <1>3, <1>4, <1>5, <1>6, <1>7, <1>8, <1>9, <1>10, <1>11, <1>12, <1>13, <1>14 DEF Next, ListFails

\* The inductive invariant holds of every reachable state.
LEMMA Inductive == Spec => []IInv
<1>1. Init => IInv
  BY MaxAttemptsAssumption
  DEF Init, EmptyStore, IInv, TypeOK, StoreMatchesReplies, NothingEarly, ListedRight,
      RepliedAt, EarlyAt, ListedAt, AnswersTrue, OkMeansProcessed, Posts, Told, Settled
<1>2. IInv /\ [Next]_vars => IInv'
  BY TypesAndAnswers, StoreStep, NothingEarlyStep, ListedStep DEF IInv
<1> QED
  BY <1>1, <1>2, PTL DEF Spec

\* Every variable keeps its type; in particular no delivery is posted more than
\* MaxAttempts times.
THEOREM WebhooksTypeCorrect == Spec => []TypeOK
<1>1. IInv => TypeOK
  BY DEF IInv
<1> QED
  BY <1>1, Inductive, PTL

\* With redis, a confirmed subscription gets every event attested from then on.
LEMMA KeptGetEvents == IInv => KeptAreTargets
  BY MatchingAssumption DEF IInv, ListedRight, ListedAt, KeptAreTargets

\* A subscription whose removal was confirmed gets no event attested later.
LEMMA RemovedGetNone == IInv => RemovedAreNot
  BY DEF IInv, NothingEarly, EarlyAt, ListedRight, ListedAt, RemovedAreNot

\* Confirmed subscriptions are the targets of every event attested from then on,
\* with redis, and removed ones are of none.
THEOREM SubscribersAreTargetsHolds == Spec => []SubscribersAreTargets
<1>1. IInv => SubscribersAreTargets
  BY KeptGetEvents, RemovedGetNone DEF SubscribersAreTargets
<1> QED
  BY <1>1, Inductive, PTL

\* A delivery that ended well was acted upon by its receiver.
THEOREM OkMeansProcessedHolds == Spec => []OkMeansProcessed
<1>1. IInv => OkMeansProcessed
  BY DEF IInv
<1> QED
  BY <1>1, Inductive, PTL

-----------------------------------------------------------------------------
(* Webhooks: dispatches and deliveries come to an end. *)

\* A dispatch goes forward or is forgotten.
LEMMA DispatchSteps ==
    ASSUME TypeOK, NEW e \in Events, [Next]_vars
    PROVE  /\ dispatch[e] = "ids" => dispatch'[e] \in {"ids", "bodies", "lost"}
           /\ dispatch[e] = "bodies" => dispatch'[e] \in {"bodies", "sent", "lost"}
<1>1. CASE UNCHANGED dispatch
  BY <1>1
<1>2. ASSUME NEW f \in Events, Attested(f) \/ ListIds(f) \/ StartDeliveries(f)
      PROVE  /\ dispatch[e] = "ids" => dispatch'[e] \in {"ids", "bodies", "lost"}
             /\ dispatch[e] = "bodies" => dispatch'[e] \in {"bodies", "sent", "lost"}
  BY <1>2 DEF Attested, ListIds, StartDeliveries, TypeOK
<1>3. CASE Restart
  BY <1>3 DEF Restart, Forgets
<1>4. [Next]_vars => UNCHANGED dispatch \/ Restart
                       \/ \E f \in Events : Attested(f) \/ ListIds(f) \/ StartDeliveries(f)
  BY DEF Next, vars, Subscribe, SubscribeFails, Unsubscribe, UnsubscribeFails, ListFails, Post,
         AttemptEnds, Receive
<1> QED BY <1>1, <1>2, <1>3, <1>4

\* And goes forward when its turn comes.
LEMMA DispatchMoved ==
    ASSUME TypeOK, NEW e \in Events, DispatchMoves(e)
    PROVE  /\ dispatch[e] = "ids" => dispatch'[e] \in {"bodies", "lost"}
           /\ dispatch[e] = "bodies" => dispatch'[e] \in {"sent", "lost"}
<1>1. CASE ListIds(e) \/ StartDeliveries(e)
  BY <1>1 DEF ListIds, StartDeliveries, TypeOK
<1>2. CASE ListFails(e)
  BY <1>2 DEF ListFails, Restart, Forgets
<1> QED BY <1>1, <1>2 DEF DispatchMoves

\* A delivery is posted once more, answered, given up or forgotten; another one's
\* steps leave it.
DeliveryAt(d, state, n) == delivery[d] = state /\ posts[d] = n

\* Where a step takes a delivery: an attempt more, or a settled state.
LEMMA DeliverySteps ==
    ASSUME IInv, NEW d \in Events \X Subs, NEW n \in Nat, [Next]_vars
    PROVE  /\ DeliveryAt(d, "ready", n) =>
                  \/ DeliveryAt(d, "ready", n)' \/ DeliveryAt(d, "posting", n + 1)'
                  \/ delivery'[d] \in Settled
           /\ DeliveryAt(d, "posting", n) =>
                  \/ DeliveryAt(d, "posting", n)' \/ DeliveryAt(d, "ready", n)'
                  \/ delivery'[d] \in Settled
<1> DEFINE Goal == /\ DeliveryAt(d, "ready", n) =>
                          \/ DeliveryAt(d, "ready", n)' \/ DeliveryAt(d, "posting", n + 1)'
                          \/ delivery'[d] \in Settled
                   /\ DeliveryAt(d, "posting", n) =>
                          \/ DeliveryAt(d, "posting", n)' \/ DeliveryAt(d, "ready", n)'
                          \/ delivery'[d] \in Settled
<1> USE DEF DeliveryAt
<1>0. TypeOK /\ NothingEarly
  BY DEF IInv
<1>1. CASE UNCHANGED <<delivery, posts>>
  BY <1>1
<1>2. CASE Restart
  BY <1>2 DEF Restart, Forgets, Settled
<1>3. ASSUME NEW c \in Events \X Subs, Post(c) PROVE Goal
  BY <1>0, <1>3 DEF Post, Becomes, TypeOK
<1>4. ASSUME NEW c \in Events \X Subs, AttemptEnds(c) PROVE Goal
  <2>1. posts' = posts /\ delivery[c] = "posting"
    BY <1>4 DEF AttemptEnds, Success, AnsweredWith, Aborts
  <2>2. PICK state \in {"ready"} \cup Settled : delivery' = [delivery EXCEPT ![c] = state]
    <3>1. CASE RetryOrDie(c) /\ posts[c] = MaxAttempts
      BY <3>1 DEF RetryOrDie, Becomes, Settled
    <3>2. CASE RetryOrDie(c) /\ posts[c] # MaxAttempts
      BY <3>2 DEF RetryOrDie, Becomes
    <3> QED BY <1>4, <3>1, <3>2 DEF AttemptEnds, Becomes, Settled
  <2> QED BY <1>0, <2>1, <2>2 DEF TypeOK
<1>5. ASSUME NEW e \in Events, StartDeliveries(e) PROVE Goal
  <2>1. PICK f \in Events, s \in Subs : d = <<f, s>>
    OBVIOUS
  <2>2. CASE f = e
    <3>1. delivery[d] = "none"
      BY <1>0, <1>5, <2>1, <2>2 DEF StartDeliveries, NothingEarly, EarlyAt
    <3> QED BY <3>1
  <2>3. CASE f # e
    <3>1. delivery'[d] = delivery[d] /\ posts' = posts
      BY <1>5, <2>1, <2>3 DEF StartDeliveries
    <3> QED BY <3>1
  <2> QED BY <2>2, <2>3
<1>6. [Next]_vars =>
         \/ UNCHANGED <<delivery, posts>> \/ Restart
         \/ \E c \in Events \X Subs : Post(c) \/ AttemptEnds(c)
         \/ \E e \in Events : StartDeliveries(e)
  BY DEF Next, vars, Subscribe, SubscribeFails, Unsubscribe, UnsubscribeFails, Attested, ListIds,
         ListFails, Receive
<1> QED BY <1>1, <1>2, <1>3, <1>4, <1>5, <1>6

\* What its own steps do to it: after the last attempt it is over.
LEMMA DeliveryMoved ==
    ASSUME IInv, NEW d \in Events \X Subs, NEW n \in Nat
    PROVE  /\ DeliveryAt(d, "ready", n) /\ Post(d) => DeliveryAt(d, "posting", n + 1)'
           /\ DeliveryAt(d, "posting", n) /\ AttemptEnds(d) =>
                  DeliveryAt(d, "ready", n)' \/ delivery'[d] \in Settled
<1> USE DEF DeliveryAt
<1>0. TypeOK
  BY DEF IInv
<1>1. DeliveryAt(d, "ready", n) /\ Post(d) => DeliveryAt(d, "posting", n + 1)'
  BY <1>0 DEF Post, Becomes, TypeOK
<1>2. ASSUME AttemptEnds(d) PROVE posts' = posts /\ delivery'[d] \in {"ready"} \cup Settled
  <2>1. CASE RetryOrDie(d) /\ posts[d] = MaxAttempts
    BY <1>0, <1>2, <2>1 DEF AttemptEnds, RetryOrDie, Becomes, Settled, TypeOK
  <2>2. CASE RetryOrDie(d) /\ posts[d] # MaxAttempts
    BY <1>0, <1>2, <2>2 DEF AttemptEnds, RetryOrDie, Becomes, TypeOK
  <2>3. CASE Becomes(d, "ok") \/ Becomes(d, "refused")
    BY <1>0, <1>2, <2>3 DEF AttemptEnds, Becomes, Settled, TypeOK
  <2> QED BY <1>2, <2>1, <2>2, <2>3 DEF AttemptEnds
<1> QED BY <1>1, <1>2

\* Where nothing can hold up the next step, every dispatch and every delivery comes to
\* an end: a delivery when its attempts are used up, the three of DEFAULT_BACKOFF_MS.
THEOREM DispatchSettlesHolds ==
    ASSUME MaxAttempts <= 3
    PROVE  Spec /\ []WorkGoesOn => DispatchSettles
<1>1. Spec /\ []WorkGoesOn =>
        \A e \in Events : dispatch[e] = "ids" ~> dispatch[e] \in {"sent", "lost"}
  <2> SUFFICES ASSUME NEW e \in Events
               PROVE  Spec /\ []WorkGoesOn =>
                        (dispatch[e] = "ids" ~> dispatch[e] \in {"sent", "lost"})
    OBVIOUS
  <2> DEFINE Ids == dispatch[e] = "ids"
             Bodies == dispatch[e] = "bodies"
             Over == dispatch[e] \in {"sent", "lost"}
  <2>1. IInv /\ Ids /\ [Next]_vars => Ids' \/ Bodies' \/ Over'
    BY DispatchSteps DEF IInv
  <2>2. IInv /\ Bodies /\ [Next]_vars => Bodies' \/ Over'
    BY DispatchSteps DEF IInv
  <2>3. IInv /\ Ids /\ <<DispatchMoves(e)>>_vars => Bodies' \/ Over'
    BY DispatchMoved DEF IInv
  <2>4. IInv /\ Bodies /\ <<DispatchMoves(e)>>_vars => Over'
    BY DispatchMoved DEF IInv
  <2>5. WorkGoesOn /\ (Ids \/ Bodies) => ENABLED <<DispatchMoves(e)>>_vars
    BY DEF WorkGoesOn
  <2>6. Spec => DispatchFair(e)
    BY DEF Spec, Fairness
  <2> QED BY <2>1, <2>2, <2>3, <2>4, <2>5, <2>6, Inductive, PTL DEF Spec, DispatchFair
<1>2. Spec /\ []WorkGoesOn =>
        \A d \in Events \X Subs : delivery[d] = "ready" ~> delivery[d] \in Settled
  <2> SUFFICES ASSUME NEW d \in Events \X Subs
               PROVE  Spec /\ []WorkGoesOn =>
                        (delivery[d] = "ready" ~> delivery[d] \in Settled)
    OBVIOUS
  <2> DEFINE Ready(n) == DeliveryAt(d, "ready", n)
             Posting(n) == DeliveryAt(d, "posting", n)
             Over == delivery[d] \in Settled
  <2>1. IInv /\ delivery[d] = "ready" => Ready(0) \/ Ready(1) \/ Ready(2)
    <3>1. IInv => posts[d] \in Nat
      BY MaxAttemptsAssumption DEF IInv, TypeOK
    <3>2. IInv /\ delivery[d] = "ready" => posts[d] < MaxAttempts
      BY DEF IInv, AnswersTrue
    <3> QED BY <3>1, <3>2, MaxAttemptsAssumption DEF DeliveryAt
  <2>2. IInv => ~Ready(3)
    BY MaxAttemptsAssumption DEF IInv, AnswersTrue, DeliveryAt
  <2>3. \A n \in 0..2 : IInv /\ Ready(n) /\ [Next]_vars => Ready(n)' \/ Posting(n + 1)' \/ Over'
    BY DeliverySteps
  <2>4. \A n \in 1..3 : IInv /\ Posting(n) /\ [Next]_vars => Posting(n)' \/ Ready(n)' \/ Over'
    BY DeliverySteps
  <2>5. \A n \in 0..2 : IInv /\ Ready(n) /\ <<Post(d)>>_vars => Posting(n + 1)'
    BY DeliveryMoved
  <2>6. \A n \in 1..3 : IInv /\ Posting(n) /\ <<AttemptEnds(d)>>_vars => Ready(n)' \/ Over'
    BY DeliveryMoved
  <2>7. \A n \in 0..3 : WorkGoesOn => /\ Ready(n) => ENABLED <<Post(d)>>_vars
                                      /\ Posting(n) => ENABLED <<AttemptEnds(d)>>_vars
    BY DEF WorkGoesOn, DeliveryAt
  <2> DEFINE R0 == Ready(0)  P1 == Posting(1)
             R1 == Ready(1)  P2 == Posting(2)
             R2 == Ready(2)  P3 == Posting(3)
             R3 == Ready(3)
  <2>8. IInv /\ R0 /\ [Next]_vars => R0' \/ P1' \/ Over'
    BY <2>3
  <2>9. IInv /\ R1 /\ [Next]_vars => R1' \/ P2' \/ Over'
    BY <2>3
  <2>10. IInv /\ R2 /\ [Next]_vars => R2' \/ P3' \/ Over'
    BY <2>3
  <2>11. /\ IInv /\ P1 /\ [Next]_vars => P1' \/ R1' \/ Over'
         /\ IInv /\ P2 /\ [Next]_vars => P2' \/ R2' \/ Over'
         /\ IInv /\ P3 /\ [Next]_vars => P3' \/ R3' \/ Over'
    BY <2>4
  <2>12. /\ IInv /\ R0 /\ <<Post(d)>>_vars => P1'
         /\ IInv /\ R1 /\ <<Post(d)>>_vars => P2'
         /\ IInv /\ R2 /\ <<Post(d)>>_vars => P3'
    BY <2>5
  <2>13. /\ IInv /\ P1 /\ <<AttemptEnds(d)>>_vars => R1' \/ Over'
         /\ IInv /\ P2 /\ <<AttemptEnds(d)>>_vars => R2' \/ Over'
         /\ IInv /\ P3 /\ <<AttemptEnds(d)>>_vars => R3' \/ Over'
    BY <2>6
  <2>14. WorkGoesOn => /\ R0 \/ R1 \/ R2 => ENABLED <<Post(d)>>_vars
                       /\ P1 \/ P2 \/ P3 => ENABLED <<AttemptEnds(d)>>_vars
    BY <2>7
  <2>15. Spec => DeliveryFair(d)
    BY DEF Spec, Fairness
  <2> QED BY <2>1, <2>2, <2>8, <2>9, <2>10, <2>11, <2>12, <2>13, <2>14, <2>15, Inductive, PTL
          DEF Spec, DeliveryFair
<1> QED BY <1>1, <1>2, PTL DEF DispatchSettles

-----------------------------------------------------------------------------
(* WxrpIndexer: polls and counters. *)


\* Before the first snapshot nothing is counted; after it there is a base.
Balanced ==
    /\ last = None => minted = 0 /\ burned = 0
    /\ last # None => base \in Snapshots /\ base.supply + minted = last.supply + burned

\* A snapshot is a state the chain was in, not later than now.
Dated(snap) ==
    /\ snap.supply = snap.issued - snap.redeemed
    /\ snap.issued <= issued /\ snap.redeemed <= redeemed

Past ==
    /\ supply = issued - redeemed
    /\ last # None => Dated(last)
    /\ \A p \in Polls : poll[p] \in Snapshots => Dated(poll[p])

\* With answers in time there is one poll at most, and what it has read is not
\* older than what was applied.
Alone ==
    /\ phase = "new" => \A p \in Polls : poll[p] = Idle
    /\ ~overlap =>
         /\ \A p, q \in Polls : poll[p] # Idle /\ poll[q] # Idle => p = q
         /\ last # None =>
              \A p \in Polls : poll[p] \in Snapshots =>
                 last.issued <= poll[p].issued /\ last.redeemed <= poll[p].redeemed

PollerInv == PollTypeOK /\ Balanced /\ Past /\ Alone /\ MovesAreReal

\* The two counters split a difference into what grew and what shrank.
LEMMA DifferenceSplit ==
    ASSUME NEW d \in Int
    PROVE  MintOf(d) \in Nat /\ BurnOf(d) \in Nat /\ MintOf(d) - BurnOf(d) = d
BY DEF MintOf, BurnOf

\* A move between two dated supplies is not larger than what was issued and
\* what was redeemed between them.
LEMMA MoveBounded ==
    ASSUME NEW i \in Nat, NEW r \in Nat, NEW j \in Nat, NEW s \in Nat,
           i <= j, r <= s
    PROVE  /\ MintOf((j - s) - (i - r)) <= j - i
           /\ BurnOf((j - s) - (i - r)) <= s - r
BY DEF MintOf, BurnOf

\* The process has started and seen nothing.
LEMMA PollerStarts == PollerInit => PollerInv
BY BoundsAssumption, SlotAssumption
   DEF PollerInit, NothingPolled, PollerInv, PollTypeOK, Balanced, Past, Alone, MovesAreReal, Dated, Snapshots

\* Steps of the chain: nothing the indexer holds changes, and the totals grow.
LEMMA ChainSteps ==
    ASSUME PollerInv, NEW n \in 1..MaxSupply, Mint(n) \/ Burn(n)
    PROVE  PollerInv'
<1> USE BoundsAssumption DEF PollerInv, metrics
<1>1. /\ PollTypeOK' /\ issued <= issued' /\ redeemed <= redeemed'
      /\ supply' = issued' - redeemed'
      /\ UNCHANGED <<overlap, poll, phase, last, gauge, minted, burned, errors, base, restarts>>
  BY DEF Mint, Burn, PollTypeOK, Past, Snapshots
<1>2. Balanced' /\ Alone' /\ MovesAreReal'
  BY <1>1 DEF Balanced, Alone, MovesAreReal
<1>3. Past'
  <2>1. ASSUME NEW snap \in Snapshots, Dated(snap) PROVE Dated(snap)'
    BY <2>1, <1>1 DEF Dated, PollTypeOK, Snapshots
  <2>2. last # None => last \in Snapshots
    BY DEF PollTypeOK
  <2> QED BY <1>1, <2>1, <2>2 DEF Past
<1> QED BY <1>1, <1>2, <1>3

\* A poll starts, and is alone if answers come in time.
LEMMA StartSteps ==
    ASSUME PollerInv, NEW p \in Polls, StartPoll(p)
    PROVE  PollerInv'
<1> USE DEF PollerInv, StartPoll, metrics, chain
<1>1. PollTypeOK'
  BY DEF PollTypeOK
<1>2. Balanced' /\ MovesAreReal'
  BY DEF Balanced, MovesAreReal
<1>3. /\ poll'[p] = Waiting /\ Waiting \notin Snapshots
      /\ \A q \in Polls : q # p => poll'[q] = poll[q]
  BY SlotAssumption DEF PollTypeOK
<1>4. Past'
  BY <1>3 DEF Past, Dated
<1>5. Alone'
  <2>1. phase' # "new"
    OBVIOUS
  <2>2. ~overlap => \A q \in Polls : poll[q] = Idle
    BY DEF Alone, InFlight
  <2>3. ~overlap => \A q \in Polls : q # p => poll'[q] = Idle
    BY <2>2, <1>3
  <2> QED BY <2>1, <2>3, <1>3, SlotAssumption DEF Alone
<1> QED BY <1>1, <1>2, <1>4, <1>5

\* The RPC node answers a poll with what the chain holds now.
LEMMA ReadSteps ==
    ASSUME PollerInv, NEW p \in Polls, ReadSupply(p)
    PROVE  PollerInv'
<1> USE DEF PollerInv, ReadSupply, metrics, chain
<1> DEFINE now == [supply |-> supply, issued |-> issued, redeemed |-> redeemed]
<1>1. now \in Snapshots /\ Dated(now)
  BY DEF PollTypeOK, Snapshots, Past, Dated
<1>2. PollTypeOK'
  BY <1>1 DEF PollTypeOK
<1>3. Balanced' /\ MovesAreReal'
  BY DEF Balanced, MovesAreReal
<1>4. /\ poll'[p] = now
      /\ \A q \in Polls : q # p => poll'[q] = poll[q]
  BY DEF PollTypeOK
<1>5. Past'
  BY <1>1, <1>4 DEF Past, Dated
<1>6. Alone'
  <2>1. poll[p] # Idle
    BY SlotAssumption
  <2>2. phase' = phase /\ overlap' = overlap /\ last' = last
    OBVIOUS
  <2>3. last # None => last.issued <= now.issued /\ last.redeemed <= now.redeemed
    BY DEF Past, Dated
  <2> QED BY <2>1, <2>2, <2>3, <1>4 DEF Alone
<1> QED BY <1>2, <1>3, <1>5, <1>6

\* A poll that came back is applied: the difference is split over the counters.
LEMMA TickSteps ==
    ASSUME PollerInv, NEW p \in Polls, Tick(p)
    PROVE  PollerInv'
<1> USE DEF PollerInv, Ends
<1> DEFINE t == poll[p]
           d == Diff(t)
<1>1. /\ t \in Snapshots /\ Dated(t)
      /\ t # None /\ t # Idle
      /\ last' = t /\ phase' = "running"
      /\ UNCHANGED <<overlap, supply, issued, redeemed, changes, errors, restarts>>
  BY SlotAssumption DEF Tick, Past, chain
<1>2. last # None => last \in Snapshots /\ last.supply \in Nat
  BY BoundsAssumption DEF PollTypeOK, Snapshots
<1>3. t.supply \in Nat /\ t.supply \in 0..MaxSupply /\ t.issued \in Nat /\ t.redeemed \in Nat
  BY <1>1, BoundsAssumption DEF Snapshots
<1>4. /\ d \in Int /\ (last = None => d = 0)
      /\ (last # None => d = t.supply - last.supply)
  BY <1>2, <1>3 DEF Diff
<1>5. MintOf(d) \in Nat /\ BurnOf(d) \in Nat /\ MintOf(d) - BurnOf(d) = d
  BY <1>4, DifferenceSplit
<1>6. /\ minted' = minted + MintOf(d) /\ burned' = burned + BurnOf(d)
      /\ gauge' = t.supply
      /\ base' = IF last = None THEN t ELSE base
  BY DEF Tick, GaugeOf
<1>7. /\ poll' = [poll EXCEPT ![p] = Idle]
      /\ \A q \in Polls : q # p => poll'[q] = poll[q]
      /\ poll'[p] = Idle
  BY DEF Tick, PollTypeOK
<1>8. minted \in Nat /\ burned \in Nat
  BY DEF PollTypeOK
<1>9. PollTypeOK'
  BY <1>1, <1>3, <1>5, <1>6, <1>7, <1>8 DEF PollTypeOK
<1>10. Balanced'
  <2>1. CASE last = None
    BY <2>1, <1>1, <1>3, <1>4, <1>5, <1>6 DEF Balanced, MintOf, BurnOf
  <2>2. CASE last # None
    <3>1. base \in Snapshots /\ base.supply \in Nat /\ base.supply + minted = last.supply + burned
      BY <2>2, BoundsAssumption DEF Balanced, Snapshots
    <3> QED BY <2>2, <3>1, <1>1, <1>2, <1>3, <1>4, <1>5, <1>6, <1>8 DEF Balanced
  <2> QED BY <2>1, <2>2
<1>11. Past'
  BY <1>1, <1>7, SlotAssumption DEF Past, Dated
<1>12. Alone'
  <2>1. ASSUME ~overlap PROVE \A q \in Polls : poll'[q] = Idle
    BY <2>1, <1>1, <1>7 DEF Alone
  <2> QED BY <2>1, <1>1, SlotAssumption DEF Alone
<1>13. MovesAreReal'
  <2> SUFFICES ASSUME ~overlap
               PROVE  /\ minted' <= t.issued - base'.issued
                      /\ burned' <= t.redeemed - base'.redeemed
    BY <1>1 DEF MovesAreReal
  <2>1. CASE last = None
    BY <2>1, <1>3, <1>4, <1>5, <1>6 DEF Balanced, MintOf, BurnOf
  <2>2. CASE last # None
    <3>1. /\ last.issued \in Nat /\ last.redeemed \in Nat
          /\ base.issued \in Nat /\ base.redeemed \in Nat
      BY <2>2, <1>2 DEF Balanced, Snapshots
    <3>2. last.issued <= t.issued /\ last.redeemed <= t.redeemed
      BY <2>2, <1>1 DEF Alone
    <3>3. last.supply = last.issued - last.redeemed /\ t.supply = t.issued - t.redeemed
      BY <2>2, <1>1 DEF Past, Dated
    <3>4. MintOf(d) <= t.issued - last.issued /\ BurnOf(d) <= t.redeemed - last.redeemed
      BY <2>2, <1>3, <1>4, <3>1, <3>2, <3>3, MoveBounded
    <3>5. minted <= last.issued - base.issued /\ burned <= last.redeemed - base.redeemed
      BY <2>2 DEF MovesAreReal
    <3>6. base' = base
      BY <2>2, <1>6
    <3> QED BY <3>1, <3>4, <3>5, <3>6, <1>3, <1>5, <1>6, <1>8
  <2> QED BY <2>1, <2>2
<1> QED BY <1>9, <1>10, <1>11, <1>12, <1>13

\* A poll that failed only leaves its slot and counts an error.
LEMMA FailSteps ==
    ASSUME PollerInv, NEW p \in Polls, TickFails(p)
    PROVE  PollerInv'
<1> USE DEF PollerInv, TickFails, Ends, chain
<1>1. PollTypeOK'
  BY BoundsAssumption DEF PollTypeOK
<1>2. Balanced' /\ MovesAreReal'
  BY DEF Balanced, MovesAreReal
<1>3. poll'[p] = Idle /\ \A q \in Polls : q # p => poll'[q] = poll[q]
  BY DEF PollTypeOK
<1>4. Past'
  BY <1>3, SlotAssumption DEF Past, Dated
<1>5. Alone'
  BY <1>3, SlotAssumption DEF Alone
<1> QED BY <1>1, <1>2, <1>4, <1>5

\* A new process starts from nothing.
LEMMA RestartSteps == PollerInv /\ PollerRestart => PollerInv'
BY BoundsAssumption, SlotAssumption
   DEF PollerInv, PollerRestart, NothingPolled, chain, PollTypeOK, Balanced, Past, Dated, Alone, MovesAreReal

\* Nothing happens.
LEMMA StutterSteps == PollerInv /\ UNCHANGED pollVars => PollerInv'
BY DEF PollerInv, pollVars, chain, metrics, PollTypeOK, Balanced, Past, Dated, Alone, MovesAreReal

\* Whatever order the answers of the RPC come in, every state of the poller satisfies
\* the inductive invariant.
THEOREM PollerInvariance == PollerSpec => []PollerInv
<1>1. PollerInv /\ [PollerNext]_pollVars => PollerInv'
  BY ChainSteps, StartSteps, ReadSteps, TickSteps, FailSteps, RestartSteps, StutterSteps
     DEF PollerNext, PollStep
<1> QED BY PollerStarts, <1>1, PTL DEF PollerSpec

\* The metrics and the polls in flight are well formed, and the supply reported
\* is one the chain can have.
THEOREM PollerTypeCorrect == PollerSpec => []PollTypeOK
BY PollerInvariance, PTL DEF PollerInv

\* The two counters account for the supply reported, however polls overlap.
THEOREM CountersBalanceHolds == PollerSpec => []CountersBalance
<1>1. PollerInv => CountersBalance
  BY DEF PollerInv, Balanced, CountersBalance
<1> QED BY PollerInvariance, <1>1, PTL

\* Unless polls overlap, no mint or burn is counted that did not happen.
THEOREM MovesAreRealHolds == PollerSpec => []MovesAreReal
BY PollerInvariance, PTL DEF PollerInv

-----------------------------------------------------------------------------
(* The supply reported becomes current. *)

\* What keeps the supply and the polls from settling.
Disturbs ==
    \/ \E n \in 1..MaxSupply : Mint(n) \/ Burn(n)
    \/ \E p \in Polls : TickFails(p)
    \/ PollerRestart

\* A poll that awaits an answer, and one that has read a supply: today's or an old one.
Unanswered(p) == poll[p] = Waiting
Fresh(p) == poll[p] \in Snapshots /\ poll[p].supply = supply
Stale(p) == poll[p] \in Snapshots /\ poll[p].supply # supply

\* Every answer that was read before the supply settled has been applied.
LateOnesApplied == \A p \in Polls : ~Stale(p)

\* The values a poll slot can have.
LEMMA SlotValues ==
    ASSUME PollTypeOK, NEW p \in Polls
    PROVE  /\ p \in InFlight <=> Unanswered(p) \/ Fresh(p) \/ Stale(p)
           /\ Unanswered(p) => ~Fresh(p) /\ ~Stale(p)
BY SlotAssumption DEF PollTypeOK, InFlight, Unanswered, Fresh, Stale

\* Without disturbance nothing new is stale, a poll goes from waiting to a current
\* answer, and its end reports it.
LEMMA UndisturbedStarts ==
    ASSUME PollTypeOK, NEW q \in Polls, StartPoll(q)
    PROVE  /\ supply' = supply /\ overlap' = overlap
           /\ Current => Current'
           /\ Unanswered(q)'
           /\ poll[q] = Idle /\ ~Stale(q)'
           /\ \A p \in Polls : p # q => poll'[p] = poll[p]
           /\ ~overlap => \A p \in Polls : poll[p] = Idle \/ phase = "new"
BY SlotAssumption DEF PollTypeOK, StartPoll, metrics, chain, Current, Served, Unanswered, Stale, InFlight

\* An answer is today's.
LEMMA UndisturbedReads ==
    ASSUME PollTypeOK, NEW q \in Polls, ReadSupply(q)
    PROVE  /\ supply' = supply /\ overlap' = overlap
           /\ Current => Current'
           /\ Unanswered(q) /\ Fresh(q)' /\ ~Stale(q)'
           /\ \A p \in Polls : p # q => poll'[p] = poll[p]
<1> DEFINE now == [supply |-> supply, issued |-> issued, redeemed |-> redeemed]
<1>1. now \in Snapshots /\ now.supply = supply
  BY DEF PollTypeOK, Snapshots
<1>2. poll'[q] = now /\ \A p \in Polls : p # q => poll'[p] = poll[p]
  BY DEF ReadSupply, PollTypeOK
<1>3. supply' = supply /\ overlap' = overlap /\ Unanswered(q) /\ (Current => Current')
  BY DEF ReadSupply, chain, metrics, Current, Served, Unanswered
<1> QED BY <1>1, <1>2, <1>3 DEF Fresh, Stale

\* A poll that ends reports what it has read.
LEMMA UndisturbedTicks ==
    ASSUME PollTypeOK, NEW q \in Polls, Tick(q)
    PROVE  /\ supply' = supply /\ overlap' = overlap
           /\ ~Unanswered(q) /\ (Fresh(q) => Current')
           /\ poll'[q] = Idle /\ ~Stale(q)'
           /\ \A p \in Polls : p # q => poll'[p] = poll[p]
<1>1. supply' = supply /\ overlap' = overlap /\ poll[q] \in Snapshots /\ poll[q] # None
  BY SlotAssumption DEF Tick, chain
<1>2. poll'[q] = Idle /\ Idle \notin Snapshots /\ \A p \in Polls : p # q => poll'[p] = poll[p]
  BY SlotAssumption DEF Tick, Ends, PollTypeOK
<1>3. Fresh(q) => Current'
  BY <1>1 DEF Tick, GaugeOf, Fresh, Current, Served
<1> QED BY <1>1, <1>2, <1>3, SlotAssumption DEF Unanswered, Stale

\* A step that does not disturb is one of these, or leaves all as it is.
LEMMA UndisturbedSteps ==
    ASSUME PollerInv, [PollerNext]_pollVars, [~Disturbs]_pollVars
    PROVE  /\ LateOnesApplied => LateOnesApplied'
           /\ LateOnesApplied /\ Current => Current'
           /\ \A p \in Polls : Unanswered(p) => Unanswered(p)' \/ Fresh(p)'
           /\ \A p \in Polls : Fresh(p) => Fresh(p)' \/ Current'
           /\ \A p \in Polls : ~overlap /\ Stale(p) => Stale(p)' \/ LateOnesApplied'
<1> DEFINE Goal ==
           /\ LateOnesApplied => LateOnesApplied'
           /\ LateOnesApplied /\ Current => Current'
           /\ \A p \in Polls : Unanswered(p) => Unanswered(p)' \/ Fresh(p)'
           /\ \A p \in Polls : Fresh(p) => Fresh(p)' \/ Current'
           /\ \A p \in Polls : ~overlap /\ Stale(p) => Stale(p)' \/ LateOnesApplied'
<1>0. PollTypeOK
  BY DEF PollerInv
<1>1. CASE UNCHANGED pollVars
  BY <1>1 DEF pollVars, chain, metrics, LateOnesApplied, Current, Served, Unanswered, Fresh, Stale
<1>2. ASSUME NEW q \in Polls, StartPoll(q) PROVE Goal
  <2>1. \A p \in Polls : p # q => poll'[p] = poll[p]
    BY <1>0, <1>2, UndisturbedStarts
  <2>2. supply' = supply /\ (Current => Current') /\ poll[q] = Idle /\ ~Stale(q)'
    BY <1>0, <1>2, UndisturbedStarts
  <2>3. ~Unanswered(q) /\ ~Fresh(q) /\ ~Stale(q)
    BY <2>2, SlotAssumption DEF Unanswered, Fresh, Stale
  <2> QED BY <2>1, <2>2, <2>3 DEF LateOnesApplied, Unanswered, Fresh, Stale
<1>3. ASSUME NEW q \in Polls, ReadSupply(q) PROVE Goal
  <2>1. \A p \in Polls : p # q => poll'[p] = poll[p]
    BY <1>0, <1>3, UndisturbedReads
  <2>2. supply' = supply /\ (Current => Current') /\ Unanswered(q) /\ Fresh(q)' /\ ~Stale(q)'
    BY <1>0, <1>3, UndisturbedReads
  <2>3. ~Fresh(q) /\ ~Stale(q)
    BY <1>0, <2>2, SlotValues
  <2> QED BY <2>1, <2>2, <2>3 DEF LateOnesApplied, Unanswered, Fresh, Stale
<1>4. ASSUME NEW q \in Polls, Tick(q) PROVE Goal
  <2>1. \A p \in Polls : p # q => poll'[p] = poll[p]
    BY <1>0, <1>4, UndisturbedTicks
  <2>2. /\ supply' = supply /\ ~Unanswered(q) /\ (Fresh(q) => Current')
        /\ poll'[q] = Idle /\ ~Stale(q)' /\ poll[q] # Idle
    BY <1>0, <1>4, UndisturbedTicks, SlotAssumption DEF Tick
  <2>3. LateOnesApplied => Fresh(q)
    BY <1>4 DEF LateOnesApplied, Fresh, Stale, Tick
  <2>4. ASSUME ~overlap PROVE LateOnesApplied'
    <3>1. \A p \in Polls : p # q => poll[p] = Idle
      BY <2>2, <2>4 DEF PollerInv, Alone
    <3>2. \A p \in Polls : poll'[p] = Idle
      BY <2>1, <2>2, <3>1
    <3> QED BY <3>2, SlotAssumption DEF LateOnesApplied, Stale
  <2> QED BY <2>1, <2>2, <2>3, <2>4 DEF LateOnesApplied, Unanswered, Fresh, Stale
<1>5. ~Disturbs \/ UNCHANGED pollVars
  OBVIOUS
<1> QED BY <1>1, <1>2, <1>3, <1>4, <1>5 DEF PollerNext, PollStep, Disturbs

\* What the timer and the answer of a poll do.
LEMMA PollMoved ==
    ASSUME PollerInv
    PROVE  /\ TimerFires => \E p \in Polls : Unanswered(p)'
           /\ \A p \in Polls : Answered(p) =>
                 /\ Unanswered(p) => Fresh(p)'
                 /\ Fresh(p) => Current'
                 /\ ~overlap /\ Stale(p) => LateOnesApplied'
<1>0. PollTypeOK
  BY DEF PollerInv
<1>1. TimerFires => \E p \in Polls : Unanswered(p)'
  BY <1>0, UndisturbedStarts DEF TimerFires
<1>2. ASSUME NEW p \in Polls, ReadSupply(p)
      PROVE  Fresh(p)' /\ ~Fresh(p) /\ ~Stale(p)
  BY <1>0, <1>2, UndisturbedReads, SlotValues
<1>3. ASSUME NEW p \in Polls, Tick(p)
      PROVE  /\ ~Unanswered(p) /\ (Fresh(p) => Current')
             /\ ~overlap => LateOnesApplied'
  <2>1. ~Unanswered(p) /\ (Fresh(p) => Current') /\ poll'[p] = Idle
    BY <1>0, <1>3, UndisturbedTicks
  <2>2. ASSUME ~overlap PROVE LateOnesApplied'
    <3>1. \A q \in Polls : q # p => poll[q] = Idle /\ poll'[q] = poll[q]
      BY <1>0, <1>3, <2>2, UndisturbedTicks, SlotAssumption DEF PollerInv, Alone, Tick
    <3>2. \A q \in Polls : poll'[q] = Idle
      BY <2>1, <3>1
    <3> QED BY <3>2, SlotAssumption DEF LateOnesApplied, Stale
  <2> QED BY <2>1, <2>2
<1> QED BY <1>1, <1>2, <1>3 DEF Answered

\* When the supply settles and polls neither fail nor are cut off by a restart, the
\* gauge and /supply come to show the supply and stay there.  If the RPC answers
\* within POLL_MS nothing more is needed (startIndexer's tick and timer); with slower
\* answers, that those read before are applied at last, as each of them is.
THEOREM EventuallyCurrentHolds ==
    /\ PollerSpec /\ []PollingGoesOn /\ <>[][~Disturbs]_pollVars
    /\ overlap => <>[]LateOnesApplied
    => EventuallyCurrent
<1> DEFINE Quiet == [][PollerNext]_pollVars /\ [][~Disturbs]_pollVars /\ []PollerInv /\ []PollingGoesOn
           Answering == \A p \in Polls : AnswerFair(p)
           Calm == LateOnesApplied /\ Current
           Busy == \E p \in Polls : Unanswered(p) \/ Fresh(p)
           Late == \E p \in Polls : Stale(p)
<1>1. PollerInv /\ [PollerNext]_pollVars /\ [~Disturbs]_pollVars =>
        (LateOnesApplied => LateOnesApplied') /\ (Calm => Calm')
  BY UndisturbedSteps
<1>2. Quiet /\ Answering => \A p \in Polls : (Unanswered(p) \/ Fresh(p) => <>Current)
  <2> SUFFICES ASSUME NEW p \in Polls
               PROVE  Quiet /\ Answering => (Unanswered(p) \/ Fresh(p) => <>Current)
    OBVIOUS
  <2>1. PollerInv /\ [PollerNext]_pollVars /\ [~Disturbs]_pollVars =>
            /\ Unanswered(p) => Unanswered(p)' \/ Fresh(p)'
            /\ Fresh(p) => Fresh(p)' \/ Current'
    BY UndisturbedSteps
  <2>2. PollerInv /\ <<Answered(p)>>_pollVars =>
            (Unanswered(p) => Fresh(p)') /\ (Fresh(p) => Current')
    BY PollMoved
  <2>3. PollerInv /\ PollingGoesOn => (Unanswered(p) \/ Fresh(p) => ENABLED <<Answered(p)>>_pollVars)
    BY SlotValues DEF PollerInv, PollingGoesOn
  <2>4. Answering => AnswerFair(p)
    OBVIOUS
  <2> QED BY <2>1, <2>2, <2>3, <2>4, PTL DEF AnswerFair
<1>3. Quiet /\ []~overlap /\ Answering => \A p \in Polls : (Stale(p) => <>LateOnesApplied)
  <2> SUFFICES ASSUME NEW p \in Polls
               PROVE  Quiet /\ []~overlap /\ Answering => (Stale(p) => <>LateOnesApplied)
    OBVIOUS
  <2>1. PollerInv /\ [PollerNext]_pollVars /\ [~Disturbs]_pollVars =>
            (~overlap /\ Stale(p) => Stale(p)' \/ LateOnesApplied')
    BY UndisturbedSteps
  <2>2. PollerInv /\ <<Answered(p)>>_pollVars => (~overlap /\ Stale(p) => LateOnesApplied')
    BY PollMoved
  <2>3. PollerInv /\ PollingGoesOn => (Stale(p) => ENABLED <<Answered(p)>>_pollVars)
    BY SlotValues DEF PollerInv, PollingGoesOn
  <2>4. Answering => AnswerFair(p)
    OBVIOUS
  <2> QED BY <2>1, <2>2, <2>3, <2>4, PTL DEF AnswerFair
<1>4. Quiet /\ Answering => (Busy => <>Current)
  <2> HIDE DEF Quiet, Answering
  <2> QED BY <1>2
<1>5. Quiet /\ []~overlap /\ Answering => (Late => <>LateOnesApplied)
  <2> HIDE DEF Quiet, Answering
  <2> QED BY <1>3
<1>6. LateOnesApplied <=> ~Late
  BY DEF LateOnesApplied
<1>7. PollerInv /\ LateOnesApplied => Busy \/ InFlight = {}
  BY SlotValues DEF PollerInv, LateOnesApplied, InFlight
<1>8. PollerInv /\ <<TimerFires>>_pollVars => Busy'
  BY PollMoved
<1>9. PollingGoesOn => (InFlight = {} => ENABLED <<TimerFires>>_pollVars)
  BY DEF PollingGoesOn
<1>10. PollerInv /\ LateOnesApplied /\ ~(InFlight = {}) => Busy
  BY <1>7
<1>11. Answering => []Answering
  <2>1. \A p \in Polls : AnswerFair(p) => []AnswerFair(p)
    <3> SUFFICES ASSUME NEW p \in Polls PROVE AnswerFair(p) => []AnswerFair(p)
      OBVIOUS
    <3> QED BY PTL DEF AnswerFair
  <2>2. Answering => \A p \in Polls : []AnswerFair(p)
    BY <2>1
  <2>3. (\A p \in Polls : []AnswerFair(p)) => []Answering
    OBVIOUS
  <2> QED BY <2>2, <2>3
<1>12. PollerSpec => Answering /\ TimerFair
  BY DEF PollerSpec, PollerFairness
<1>13. PollerSpec => [](overlap => []overlap) /\ [](~overlap => []~overlap)
  <2>1. [PollerNext]_pollVars => overlap' = overlap
    BY DEF PollerNext, PollStep, pollVars, Mint, Burn, StartPoll, ReadSupply, Tick, TickFails, PollerRestart
  <2>2. [PollerNext]_pollVars => (overlap => overlap') /\ (~overlap => ~overlap')
    BY <2>1
  <2> QED BY <2>2, PTL DEF PollerSpec
<1> HIDE DEF Answering, Busy, Late
<1> QED BY <1>1, <1>4, <1>5, <1>6, <1>7, <1>8, <1>9, <1>10, <1>11, <1>12, <1>13, PollerInvariance, PTL
        DEF PollerSpec, TimerFair, EventuallyCurrent
=============================================================================
