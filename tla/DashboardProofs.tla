--------------------------- MODULE DashboardProofs ---------------------------
(***************************************************************************)
(* The properties of the dashboard: of Session and Claims, for any         *)
(* accounts, epochs, requests and claims; of DepositForm, for any cap and  *)
(* number of decimals, whatever is typed and pasted; and of Tabs, for any  *)
(* number of tabs, notifications and timers.  A claims card settles, a user*)
(* who was told of a mix-up is let go, and a badge clears: under the       *)
(* fairness of the specifications, if the awaited step is always enabled.  *)
(***************************************************************************)
EXTENDS Claims, DepositForm, Tabs, SumTheorems, FiniteSetTheorems, SequenceTheorems, TLAPS

-----------------------------------------------------------------------------
(* The session. *)

\* The guard's snapshot is the account the dashboard was entered with; a guard
\* that has acted, and a user who left, leave nothing to attach by itself.
SessionInv ==
    /\ SessionTypeOK
    /\ initial = entered
    /\ handled => leaving
    /\ left => ~auto
    /\ DriftIsCaught

\* A tab that has just been opened satisfies it.
LEMMA SessionInitInv == SessionInit => SessionInv
BY DEF SessionInit, SessionInv, SessionTypeOK, Owners, DriftIsCaught

\* So does one in which nothing of the session moves.
LEMMA SessionStutters == SessionInv /\ UNCHANGED session => SessionInv'
BY DEF session, SessionInv, SessionTypeOK, DriftIsCaught

\* Steps that connect, with the snapshot taken or compared.
LEMMA SeenKeepsInv ==
    ASSUME SessionInv, NEW w \in Wallets,
           NEW on \in BOOLEAN, NEW gone \in BOOLEAN, gone => ~on,
           page' \in {"landing", "dashboard"}, ext' \in Owners, wallet' = w,
           page' = page, Enters(w), Seen(w, initial, on, gone)
    PROVE  SessionInv'
BY WalletAssumption
   DEF SessionInv, SessionTypeOK, Enters, Seen, ClearAndRedirect, DriftIsCaught, Owners

\* Every step of the session, the extension, the adapter and the guard keeps it.
LEMMA SessionSteps == SessionInv /\ SessionNext => SessionInv'
<1> SUFFICES ASSUME SessionInv, SessionNext PROVE SessionInv'
  OBVIOUS
<1>1. ASSUME NEW w \in Wallets, Connect(w) PROVE SessionInv'
  <2>1. wallet' = w /\ page' = page /\ ext' = w /\ Enters(w) /\ Seen(w, initial, TRUE, FALSE)
    BY <1>1 DEF Connect
  <2> QED BY <2>1, SeenKeepsInv DEF SessionInv, SessionTypeOK, Owners
<1>2. ASSUME AutoConnect PROVE SessionInv'
  <2>1. /\ ext \in Wallets /\ wallet' = ext /\ page' = page /\ ext' = ext
        /\ Enters(ext) /\ Seen(ext, initial, auto, left)
    BY <1>2 DEF AutoConnect, SessionInv, SessionTypeOK, Owners
  <2> QED BY <2>1, SeenKeepsInv DEF SessionInv, SessionTypeOK, Owners
<1>3. ASSUME Drop PROVE SessionInv'
  BY <1>3 DEF Drop, SessionInv, SessionTypeOK, Owners, DriftIsCaught
<1>4. ASSUME NEW w \in Owners, ExtensionChanges(w) PROVE SessionInv'
  BY <1>4 DEF ExtensionChanges, SessionInv, SessionTypeOK, DriftIsCaught
<1>5. ASSUME Event PROVE SessionInv'
  BY <1>5 DEF Event, Watching, ClearAndRedirect, SessionInv, SessionTypeOK, DriftIsCaught
<1>6. ASSUME Poll PROVE SessionInv'
  BY <1>6 DEF Poll, Watching, ClearAndRedirect, SessionInv, SessionTypeOK, DriftIsCaught
<1>7. ASSUME ClickDisconnect PROVE SessionInv'
  BY <1>7 DEF ClickDisconnect, DisconnectWallet, SessionInv, SessionTypeOK, DriftIsCaught
<1>8. ASSUME Disconnect PROVE SessionInv'
  BY <1>8 DEF Disconnect, Watching, ClearAndRedirect, SessionInv, SessionTypeOK, Owners, DriftIsCaught
<1>9. ASSUME Navigate \/ Reload \/ SwitchNetwork PROVE SessionInv'
  <2>1. /\ initial' = NoWallet /\ entered' = NoWallet /\ wallet' = NoWallet /\ handled' = FALSE
        /\ page' \in {"landing", "dashboard"} /\ leaving' \in BOOLEAN
        /\ UNCHANGED <<ext, auto, left>>
    BY <1>9 DEF Navigate, Reload, SwitchNetwork, Fresh, SessionInv, SessionTypeOK
  <2> QED BY <2>1 DEF SessionInv, SessionTypeOK, Owners, DriftIsCaught
<1>10. ASSUME NEW p \in {"landing", "dashboard"}, Visit(p) PROVE SessionInv'
  BY <1>10 DEF Visit, Fresh, SessionInv, SessionTypeOK, Owners, DriftIsCaught
<1> QED
  BY <1>1, <1>2, <1>3, <1>4, <1>5, <1>6, <1>7, <1>8, <1>9, <1>10 DEF SessionNext

-----------------------------------------------------------------------------
(* The hook. *)

Views == [kind : Kinds, of : Owners, epoch : 0..MaxEpoch]
FetchRecords == [step : {"unused", "asked", "none", "awaiting", "ready", "over"},
                 of : Owners, epoch : 0..MaxEpoch]
CallRecords == [step : {"unused", "signing", "confirming", "over"}, of : Owners, proofOf : Owners,
                epoch : 0..MaxEpoch, tx : {"none", "sent", "executed", "expired"},
                short : BOOLEAN, shown : BOOLEAN]

HookTypes ==
    /\ raced \in BOOLEAN
    /\ view \in Views
    /\ fetches \in [1..MaxFetches -> FetchRecords]
    /\ calls \in [1..MaxCalls -> CallRecords]

\* A transaction exists only after it was sent.
Executed ==
    \A j \in 1..MaxCalls : calls[j].tx # "none" => calls[j].step \in {"confirming", "over"}

\* A request, and a claim, under way for the view.
Asked(i) == fetches[i].step \notin {"unused", "over"}
Pending(j) == calls[j].shown /\ calls[j].step # "over"

\* While the account stays, the view is about it, and so is the one request or
\* the one claim under way, which the view shows.
Undisturbed ==
    /\ view.of = CardOf(page, wallet)
    /\ \A i \in 1..MaxFetches : Asked(i) =>
         /\ fetches[i].of = view.of /\ view.kind = "loading"
         /\ \A k \in 1..MaxFetches : Asked(k) => k = i
    /\ \A j \in 1..MaxCalls : Pending(j) =>
         /\ calls[j].of = view.of /\ view.kind = "claiming"
         /\ \A k \in 1..MaxCalls : Pending(k) => k = j
    /\ view.kind = "claiming" => \E j \in 1..MaxCalls : Pending(j)

HookInv == HookTypes /\ Executed /\ (~raced => Undisturbed)

\* A view that asks anew, or shows no account, claims nothing and is about w.
LEMMA RefetchShows ==
    ASSUME NEW w \in Owners,
           NEW old \in [1..MaxFetches -> FetchRecords],
           Refetch(w, old)
    PROVE  /\ view' \in Views
           /\ view'.kind \in {"connect", "loading"} /\ view'.of = w
           /\ fetches' \in [1..MaxFetches -> FetchRecords]
           /\ \A i \in 1..MaxFetches : Asked(i)' =>
                \/ fetches'[i] = old[i]
                \/ fetches'[i].of = w /\ view'.kind = "loading"
           /\ \A i, k \in 1..MaxFetches :
                fetches'[i] # old[i] /\ fetches'[k] # old[k] => i = k
<1>1. 0 \in 0..MaxEpoch
  BY BoundAssumption
<1>2. CASE w = NoWallet
  BY <1>1, <1>2 DEF Refetch, View, Kinds, Owners, Asked, Views
<1>3. CASE w # NoWallet
  <2>1. PICK i \in 1..MaxFetches :
          fetches' = [old EXCEPT ![i] = [step |-> "asked", of |-> w, epoch |-> 0]]
    BY <1>3 DEF Refetch, NoFetch
  <2>2. view' = [kind |-> "loading", of |-> w, epoch |-> 0]
    BY <1>3 DEF Refetch, View
  <2> QED BY <1>1, <2>1, <2>2 DEF Kinds, Asked, Views, FetchRecords
<1> QED BY <1>2, <1>3

\* A hook mounted anew for account w, with nothing of the old one under way.
LEMMA MountSteps ==
    ASSUME HookInv, NEW w \in Owners, w = CardOf(page, wallet)', Mount(w)
    PROVE  HookInv'
<1> DEFINE old == [i \in 1..MaxFetches |->
       IF fetches[i].step = "unused" THEN NoFetch ELSE [NoFetch EXCEPT !.step = "over"]]
<1>1. /\ raced' = FALSE /\ Refetch(w, old)
      /\ calls' = [j \in 1..MaxCalls |-> [calls[j] EXCEPT !.shown = FALSE]]
  BY DEF Mount
<1>2. old \in [1..MaxFetches -> FetchRecords]
  BY BoundAssumption DEF NoFetch, Owners, FetchRecords
<1>3. \A i \in 1..MaxFetches : old[i].step \in {"unused", "over"}
  BY DEF NoFetch
<1> HIDE DEF old
<1>4. /\ view' \in Views
      /\ view'.kind \in {"connect", "loading"} /\ view'.of = w
      /\ fetches' \in [1..MaxFetches -> FetchRecords]
      /\ \A i \in 1..MaxFetches : Asked(i)' =>
           \/ fetches'[i] = old[i]
           \/ fetches'[i].of = w /\ view'.kind = "loading"
      /\ \A i, k \in 1..MaxFetches :
           fetches'[i] # old[i] /\ fetches'[k] # old[k] => i = k
  BY <1>1, <1>2, RefetchShows
<1>5. \A i \in 1..MaxFetches : Asked(i)' =>
        fetches'[i] # old[i] /\ fetches'[i].of = w /\ view'.kind = "loading"
  BY <1>3, <1>4 DEF Asked
<1>6. HookTypes'
  <2>1. \A j \in 1..MaxCalls : [calls[j] EXCEPT !.shown = FALSE] \in CallRecords
    BY DEF HookInv, HookTypes, CallRecords
  <2>2. calls' \in [1..MaxCalls -> CallRecords]
    BY <1>1, <2>1
  <2> QED BY <1>1, <1>4, <2>2 DEF HookTypes
<1>7. /\ \A j \in 1..MaxCalls : ~Pending(j)'
      /\ \A j \in 1..MaxCalls : calls'[j].tx = calls[j].tx /\ calls'[j].step = calls[j].step
  BY <1>1 DEF HookInv, HookTypes, Views, FetchRecords, CallRecords, Pending
<1>8. Executed'
  BY <1>4, <1>7 DEF HookInv, Executed
<1>9. Undisturbed'
  BY <1>4, <1>5, <1>7 DEF Undisturbed
<1> QED BY <1>6, <1>8, <1>9 DEF HookInv

\* Leaving the overview and coming back, which mounts the card anew.
LEMMA ReopenSteps == HookInv /\ SessionTypeOK /\ Reopen => HookInv'
<1> SUFFICES ASSUME HookInv, SessionTypeOK, Reopen PROVE HookInv'
  OBVIOUS
<1>1. wallet \in Owners /\ wallet = CardOf(page, wallet)' /\ Mount(wallet)
  BY DEF Reopen, SessionTypeOK, CardOf, session
<1> QED BY <1>1, MountSteps

\* Steps that leave the session and the hook alone.
LEMMA HookStutters == HookInv /\ UNCHANGED session /\ UNCHANGED hook => HookInv'
BY DEF session, hook, HookInv, HookTypes, Executed, Undisturbed,
       Asked, Pending, CardOf

\* A step of the session: the card stays, is mounted anew, or asks for another
\* account, and then what was under way makes the view disturbed.
LEMMA FollowSteps ==
    ASSUME HookInv, SessionTypeOK, SessionTypeOK', Follow
    PROVE  HookInv'
<1> DEFINE now == CardOf(page, wallet)
           next == CardOf(page', wallet')
<1>1. now \in Owners /\ next \in Owners /\ next = CardOf(page, wallet)'
  BY DEF CardOf, SessionTypeOK, Owners
<1>2. CASE now = next /\ UNCHANGED hook
  <2>1. UNCHANGED <<view, fetches, calls, raced>>
    BY <1>2 DEF hook
  <2> QED
    BY <2>1, <1>1, <1>2
       DEF HookInv, HookTypes, Views, FetchRecords, CallRecords, Executed, Undisturbed, Asked, Pending
<1>3. CASE Mount(next)
  BY <1>1, <1>3, MountSteps
<1>4. CASE now # next /\ AccountChanges(next)
  <2>1. Refetch(next, fetches) /\ calls' = calls
        /\ raced' = (raced \/ FetchPending \/ CallPending)
    BY <1>4 DEF AccountChanges
  <2>2. /\ view' \in Views
        /\ view'.kind \in {"connect", "loading"} /\ view'.of = next
        /\ fetches' \in [1..MaxFetches -> FetchRecords]
        /\ \A i \in 1..MaxFetches : Asked(i)' =>
             \/ fetches'[i] = fetches[i]
             \/ fetches'[i].of = next /\ view'.kind = "loading"
        /\ \A i, k \in 1..MaxFetches :
             fetches'[i] # fetches[i] /\ fetches'[k] # fetches[k] => i = k
    BY <1>1, <2>1, RefetchShows DEF HookInv, HookTypes, Views, FetchRecords, CallRecords
  <2>3. HookTypes'
    BY <2>1, <2>2 DEF HookInv, HookTypes, Views, FetchRecords, CallRecords
  <2>4. Executed'
    BY <2>1, <2>2 DEF HookInv, Executed
  <2>5. ASSUME ~raced' PROVE Undisturbed'
    <3>1. \A i \in 1..MaxFetches : ~Asked(i)
      BY <2>1, <2>5 DEF FetchPending, Asked
    <3>2. \A j \in 1..MaxCalls : ~Pending(j)'
      BY <2>1, <2>5 DEF CallPending, Pending
    <3>3. \A i \in 1..MaxFetches : Asked(i)' => fetches'[i] # fetches[i]
      BY <3>1 DEF Asked
    <3> QED BY <1>1, <2>2, <3>2, <3>3 DEF Undisturbed
  <2> QED BY <2>3, <2>4, <2>5 DEF HookInv
<1> QED BY <1>2, <1>3, <1>4 DEF Follow

-----------------------------------------------------------------------------
(* Requests. *)

\* A request is answered, fails, or its answer is received by the hook.
LEMMA FetchSteps ==
    ASSUME HookInv, latest \in 0..MaxEpoch, NEW i \in 1..MaxFetches,
           IndexerAnswers(i) \/ FetchFails(i) \/ Receive(i)
    PROVE  HookInv'
<1> USE DEF HookInv
<1>1. /\ UNCHANGED <<page, wallet, calls, raced>>
      /\ CardOf(page, wallet)' = CardOf(page, wallet) /\ Asked(i)
  BY DEF IndexerAnswers, FetchFails, Receive, session, CardOf, Asked
<1>2. CASE IndexerAnswers(i)
  <2>1. /\ UNCHANGED view
        /\ fetches' = [fetches EXCEPT ![i] =
             [fetches[i] EXCEPT !.step = ClaimOf(fetches[i].of), !.epoch = latest]]
        /\ ClaimOf(fetches[i].of) \in {"none", "awaiting", "ready"}
    BY <1>2 DEF IndexerAnswers, ClaimOf, HookTypes
  <2>2. HookTypes'
    <3>1. [fetches[i] EXCEPT !.step = ClaimOf(fetches[i].of), !.epoch = latest] \in FetchRecords
      BY <2>1 DEF HookTypes, FetchRecords
    <3> QED BY <1>1, <2>1, <3>1 DEF HookTypes
  <2>3. Executed'
    BY <1>1, <2>1 DEF Executed
  <2>4. \A k \in 1..MaxFetches : fetches'[k].of = fetches[k].of /\ (Asked(k)' <=> Asked(k))
    BY <1>1, <2>1 DEF HookTypes, Views, FetchRecords, CallRecords, Asked
  <2>5. Undisturbed => Undisturbed'
    BY <1>1, <2>1, <2>4 DEF Undisturbed, Pending
  <2> QED BY <1>1, <2>2, <2>3, <2>5
<1>3. CASE FetchFails(i) \/ Receive(i)
  <2>1. /\ fetches' = [fetches EXCEPT ![i] = [step |-> "over", of |-> NoWallet, epoch |-> 0]]
        /\ view'.of = fetches[i].of
        /\ view'.kind \in {"error", "none", "awaiting", "ready"}
        /\ view' \in Views
    BY <1>3, BoundAssumption DEF FetchFails, Receive, Over, NoFetch, View, HookTypes, Views, FetchRecords, CallRecords, Kinds, Owners
  <2>2. HookTypes'
    BY <1>1, <2>1, BoundAssumption DEF HookTypes, Views, FetchRecords, CallRecords, Owners
  <2>3. Executed'
    BY <1>1, <2>1 DEF Executed
  <2>4. \A k \in 1..MaxFetches :
          Asked(k)' => k # i /\ Asked(k)
    BY <2>1 DEF Asked, HookTypes, Views, FetchRecords, CallRecords
  <2>5. Undisturbed => Undisturbed'
    BY <1>1, <2>1, <2>4 DEF Undisturbed, Pending
  <2> QED BY <1>1, <2>2, <2>3, <2>5
<1> QED BY <1>2, <1>3

-----------------------------------------------------------------------------
(* Claims. *)

\* The user clicks Claim.
LEMMA ClickSteps == HookInv /\ SessionTypeOK /\ Click => HookInv'
<1> SUFFICES ASSUME HookInv, SessionTypeOK, Click PROVE HookInv'
  OBVIOUS
<1> USE DEF HookInv
<1>1. /\ view.kind = "ready" /\ wallet \in Owners /\ CardOf(page, wallet) = wallet
      /\ UNCHANGED <<page, wallet, fetches, raced>>
      /\ view' = [kind |-> "claiming", of |-> wallet, epoch |-> view.epoch]
  BY DEF Click, Card, CardOf, View, SessionTypeOK, session, HookTypes, Views, FetchRecords, CallRecords, Kinds
<1>2. PICK j \in 1..MaxCalls :
        /\ calls[j].step = "unused"
        /\ calls' = [calls EXCEPT ![j] = [step |-> "signing", of |-> wallet,
             proofOf |-> view.of, epoch |-> view.epoch, tx |-> "none", short |-> FALSE,
             shown |-> TRUE]]
  BY DEF Click
<1>3. HookTypes'
  BY <1>1, <1>2 DEF HookTypes, Views, FetchRecords, CallRecords, Kinds
<1>4. Executed'
  BY <1>1, <1>2 DEF Executed, HookTypes, Views, FetchRecords, CallRecords
<1>5. /\ Pending(j)'
      /\ \A k \in 1..MaxCalls : k # j => (Pending(k)' <=> Pending(k)) /\ calls'[k] = calls[k]
      /\ calls'[j].of = wallet
  BY <1>2 DEF Pending, HookTypes, Views, FetchRecords, CallRecords
<1>6. Undisturbed => Undisturbed'
  <2> SUFFICES ASSUME Undisturbed PROVE Undisturbed'
    OBVIOUS
  <2>1. /\ \A i \in 1..MaxFetches : ~Asked(i)'
        /\ \A k \in 1..MaxCalls : ~Pending(k)
    BY <1>1 DEF Undisturbed, Asked
  <2>2. CardOf(page, wallet)' = wallet
    BY <1>1 DEF CardOf
  <2> QED BY <1>1, <1>5, <2>1, <2>2 DEF Undisturbed
<1> QED BY <1>1, <1>3, <1>4, <1>6

\* A claim's prompt is answered and its transaction sent.
LEMMA SendSteps ==
    ASSUME HookInv, NEW j \in 1..MaxCalls, Send(j)
    PROVE  HookInv'
<1> USE DEF HookInv
<1>1. /\ UNCHANGED <<page, wallet, view, fetches, raced>>
      /\ calls[j].step = "signing"
      /\ calls' = [calls EXCEPT ![j] = [calls[j] EXCEPT !.step = "confirming", !.tx = "sent"]]
  BY DEF Send, Sign, session, HookTypes
<1>2. HookTypes'
  <2>1. [calls[j] EXCEPT !.step = "confirming", !.tx = "sent"] \in CallRecords
    BY DEF HookTypes, CallRecords
  <2> QED BY <1>1, <2>1 DEF HookTypes
<1>3. Executed'
  BY <1>1 DEF Executed, HookTypes, Views, FetchRecords, CallRecords
<1>4. \A k \in 1..MaxCalls : calls'[k].of = calls[k].of /\ (Pending(k)' <=> Pending(k))
  BY <1>1 DEF Pending, HookTypes, Views, FetchRecords, CallRecords
<1>5. Undisturbed => Undisturbed'
  BY <1>1, <1>4 DEF Undisturbed, Asked, CardOf
<1> QED BY <1>1, <1>2, <1>3, <1>5

\* A claim ends: the view, if it is still the same instance, says how.
LEMMA EndSteps ==
    ASSUME HookInv, NEW j \in 1..MaxCalls,
           SendLost(j) \/ SendFails(j) \/ Confirmed(j) \/ ConfirmFails(j)
    PROVE  HookInv'
<1> USE DEF HookInv
<1>1. /\ UNCHANGED <<page, wallet, fetches, raced>>
      /\ calls[j].step \in {"signing", "confirming"}
      /\ IF calls[j].shown
         THEN /\ view'.of = calls[j].of /\ view'.epoch = calls[j].epoch
              /\ view'.kind \in {"error", "claimed"} /\ view' \in Views
         ELSE view' = view
  BY DEF SendLost, Sign, SendFails, Confirmed, ConfirmFails, Show, View, session, HookTypes,
         Views, FetchRecords, CallRecords, Kinds
<1>2. PICK t \in {calls[j].tx, "sent"} :
        calls' = [calls EXCEPT ![j] = [calls[j] EXCEPT !.step = "over", !.tx = t]]
  <2>1. CASE SendLost(j)
    BY <2>1 DEF SendLost, HookTypes
  <2>2. CASE SendFails(j) \/ Confirmed(j) \/ ConfirmFails(j)
    <3>1. calls' = [calls EXCEPT ![j] = [calls[j] EXCEPT !.step = "over"]]
      BY <2>2 DEF SendFails, Confirmed, ConfirmFails
    <3>2. [calls[j] EXCEPT !.step = "over"] = [calls[j] EXCEPT !.step = "over", !.tx = calls[j].tx]
      BY DEF HookTypes, CallRecords
    <3> QED BY <3>1, <3>2
  <2> QED BY <2>1, <2>2
<1>3. HookTypes'
  <2>1. [calls[j] EXCEPT !.step = "over", !.tx = t] \in CallRecords
    BY DEF HookTypes, CallRecords
  <2>2. view' \in Views
    BY <1>1 DEF HookTypes
  <2> QED BY <1>1, <1>2, <2>1, <2>2 DEF HookTypes
<1>4. /\ ~Pending(j)' /\ (calls[j].shown <=> Pending(j))
      /\ \A k \in 1..MaxCalls : k # j => (Pending(k)' <=> Pending(k)) /\ calls'[k] = calls[k]
      /\ calls'[j].of = calls[j].of /\ calls'[j].step = "over"
  BY <1>1, <1>2 DEF Pending, HookTypes, Views, FetchRecords, CallRecords
<1>6. Executed'
  BY <1>1, <1>4 DEF Executed
<1>5. Undisturbed => Undisturbed'
  <2>1. CASE calls[j].shown
    BY <2>1, <1>1, <1>4 DEF Undisturbed, Asked, CardOf
  <2>2. CASE ~calls[j].shown
    BY <2>2, <1>1, <1>4 DEF Undisturbed, Asked, CardOf
  <2> QED BY <2>1, <2>2
<1> QED BY <1>1, <1>3, <1>6, <1>5

\* What executing a claim, or its expiry, does to its record.
LEMMA Landing ==
    ASSUME HookTypes, NEW j \in 1..MaxCalls, ClaimLands(j)
    PROVE  /\ calls[j].tx = "sent" /\ view' = view
           /\ \E t \in {"executed", "expired"}, b \in BOOLEAN :
                calls' = [calls EXCEPT ![j] = [calls[j] EXCEPT !.tx = t, !.short = b]]
<1>1. \A t : [calls[j] EXCEPT !.tx = t] = [calls[j] EXCEPT !.tx = t, !.short = calls[j].short]
  BY DEF HookTypes, CallRecords
<1>2. \/ calls' = [calls EXCEPT ![j] = [calls[j] EXCEPT !.tx = "executed", !.short = FALSE]]
      \/ calls' = [calls EXCEPT ![j] = [calls[j] EXCEPT !.tx = "executed"]]
      \/ calls' = [calls EXCEPT ![j] = [calls[j] EXCEPT !.tx = "expired"]]
  BY DEF ClaimLands, Execute, Expire, HookTypes
<1>3. calls[j].short \in BOOLEAN
  BY DEF HookTypes, CallRecords
<1>4. calls[j].tx = "sent" /\ view' = view
  BY DEF ClaimLands, Execute, Expire
<1> QED BY <1>1, <1>2, <1>3, <1>4

\* A sent transaction is executed or expires, or its wallet's SOL is moved.
LEMMA LandSteps ==
    ASSUME HookInv, (\E j \in 1..MaxCalls : ClaimLands(j)) \/ (\E w \in Wallets : MoveSol(w))
    PROVE  HookInv'
<1> USE DEF HookInv
<1>1. UNCHANGED <<page, wallet, view, fetches, raced>>
  BY DEF ClaimLands, Execute, Expire, MoveSol, session
<1>2. /\ calls' \in [1..MaxCalls -> CallRecords]
      /\ \A k \in 1..MaxCalls :
           /\ calls'[k].of = calls[k].of
           /\ calls'[k].step = calls[k].step /\ calls'[k].shown = calls[k].shown
           /\ calls'[k].tx # "none" => calls[k].tx # "none"
  <2>1. ASSUME NEW j \in 1..MaxCalls, ClaimLands(j)
        PROVE  \E t \in {"executed", "expired"}, b \in BOOLEAN :
                 calls' = [calls EXCEPT ![j] = [calls[j] EXCEPT !.tx = t, !.short = b]]
    BY <2>1, Landing
  <2>2. ASSUME NEW j \in 1..MaxCalls, ClaimLands(j), NEW t \in {"executed", "expired"},
               NEW b \in BOOLEAN,
               calls' = [calls EXCEPT ![j] = [calls[j] EXCEPT !.tx = t, !.short = b]]
        PROVE  <1>2!1 /\ <1>2!2
    <3>1. calls[j].tx = "sent" /\ [calls[j] EXCEPT !.tx = t, !.short = b] \in CallRecords
      BY <2>2 DEF ClaimLands, Execute, Expire, HookTypes, CallRecords
    <3> QED BY <2>2, <3>1 DEF HookTypes, CallRecords
  <2>3. ASSUME NEW w \in Wallets, MoveSol(w)
        PROVE  <1>2!1 /\ <1>2!2
    <3>1. \A k \in 1..MaxCalls :
             calls'[k] = calls[k] \/ calls'[k] = [calls[k] EXCEPT !.short = TRUE]
      BY <2>3 DEF MoveSol
    <3>2. \A k \in 1..MaxCalls : [calls[k] EXCEPT !.short = TRUE] \in CallRecords
      BY DEF HookTypes, CallRecords
    <3>3. calls' \in [1..MaxCalls -> CallRecords]
      BY <2>3, <3>2 DEF MoveSol, HookTypes
    <3> QED BY <3>1, <3>3 DEF HookTypes, CallRecords
  <2> QED BY <2>1, <2>2, <2>3
<1>3. HookTypes'
  BY <1>1, <1>2 DEF HookTypes
<1>4. Executed'
  BY <1>2 DEF Executed
<1>5. Undisturbed => Undisturbed'
  BY <1>1, <1>2 DEF Undisturbed, Asked, Pending, CardOf
<1> QED BY <1>1, <1>3, <1>4, <1>5

-----------------------------------------------------------------------------
(* The indexer, the multisig and the payments. *)

ChainTypes ==
    /\ latest \in 0..MaxEpoch /\ torn \in BOOLEAN
    /\ owed \in [Epochs -> SUBSET Wallets]
    /\ recorded \subseteq 1..latest /\ live \subseteq recorded
    /\ \A c \in paid : c[1] \in live /\ c[2] \in owed[c[1]]

\* Steps that leave the indexer and the chain alone.
LEMMA ChainStutters ==
    ChainTypes /\ UNCHANGED <<indexer, live, paid>> => ChainTypes'
BY DEF ChainTypes, indexer

\* A claim that executes is paid once.
LEMMA ExecuteKeepsTypes ==
    ASSUME ChainTypes, NEW j \in 1..MaxCalls, Execute(j)
    PROVE  ChainTypes'
<1>1. \A c \in paid' : c \in paid \/ (Payable(calls[j]) /\ c = <<calls[j].epoch, calls[j].of>>)
  BY DEF Execute
<1>2. ASSUME NEW c \in paid' PROVE c[1] \in live /\ c[2] \in owed[c[1]]
  <2>1. CASE c \in paid
    BY <2>1 DEF ChainTypes
  <2>2. CASE Payable(calls[j]) /\ c = <<calls[j].epoch, calls[j].of>>
    BY <2>2 DEF Payable
  <2> QED BY <1>1, <2>1, <2>2
<1> QED BY <1>2 DEF Execute, indexer, ChainTypes

\* A new epoch, a distributor recorded for the latest, and one put on chain.
LEMMA IndexerKeepsTypes ==
    ASSUME ChainTypes,
           OpenLatest \/ NewEpoch \/ Record \/ (\E e \in Epochs : ExecuteProposal(e))
    PROVE  ChainTypes'
<1>1. CASE OpenLatest
  BY <1>1 DEF OpenLatest, ChainTypes
<1>2. CASE NewEpoch
  <2>1. PICK who \in SUBSET Wallets : owed' = [owed EXCEPT ![latest + 1] = who]
    BY <1>2 DEF NewEpoch
  <2>2. /\ latest' = latest + 1 /\ latest' \in 0..MaxEpoch /\ torn' = FALSE
        /\ UNCHANGED <<recorded, live, paid>>
    BY <1>2, BoundAssumption DEF NewEpoch, ChainTypes
  <2>3. owed' \in [Epochs -> SUBSET Wallets]
    BY <2>1, BoundAssumption DEF ChainTypes, Epochs
  <2>4. \A e \in live : e \in Epochs /\ owed'[e] = owed[e]
    BY <2>1, BoundAssumption DEF ChainTypes, Epochs
  <2>5. recorded' \subseteq 1..latest'
    BY <2>2, BoundAssumption DEF ChainTypes
  <2> QED BY <2>2, <2>3, <2>4, <2>5 DEF ChainTypes
<1>3. CASE Record
  <2>1. latest \in 1..latest
    BY <1>3, BoundAssumption DEF Record, ChainTypes
  <2> QED BY <1>3, <2>1 DEF Record, ChainTypes
<1>4. CASE \E e \in Epochs : ExecuteProposal(e)
  BY <1>4 DEF ExecuteProposal, indexer, ChainTypes
<1> QED BY <1>1, <1>2, <1>3, <1>4

-----------------------------------------------------------------------------
(* The invariant. *)

IInv == SessionInv /\ HookInv /\ ChainTypes

\* The three groups of types are those of Claims.
LEMMA TypesApart == TypeOK <=> SessionTypeOK /\ HookTypes /\ ChainTypes
BY DEF TypeOK, HookTypes, ChainTypes, Views, FetchRecords, CallRecords

\* The dashboard as it is first opened.
LEMMA InitInvariant == Init => IInv
<1> SUFFICES ASSUME Init PROVE IInv
  OBVIOUS
<1>1. SessionInv
  BY SessionInitInv DEF Init
<1>2. HookTypes
  <2>1. NoFetch \in FetchRecords
    BY BoundAssumption DEF NoFetch, FetchRecords, Owners
  <2>2. NoCall \in CallRecords
    BY BoundAssumption DEF NoCall, CallRecords, Owners
  <2>3. View("connect", NoWallet, 0) \in Views
    BY BoundAssumption DEF View, Views, Kinds, Owners
  <2> QED BY <2>1, <2>2, <2>3 DEF Init, HookTypes
<1>3. Executed /\ Undisturbed
  BY DEF Init, SessionInit, Executed, Undisturbed, Asked, Pending,
         CardOf, View, NoFetch, NoCall
<1>4. ChainTypes
  <2>1. owed \in [Epochs -> SUBSET Wallets] /\ recorded = {} /\ live = {} /\ paid = {}
    BY DEF Init
  <2>2. latest = 0 /\ torn = FALSE
    BY DEF Init
  <2>3. 0 \in 0..MaxEpoch
    BY BoundAssumption
  <2> QED BY <2>1, <2>2, <2>3 DEF ChainTypes
<1> QED BY <1>1, <1>2, <1>3, <1>4 DEF IInv, HookInv

\* Every step of session, hook, indexer and chain keeps the invariant.
LEMMA StepInvariant == IInv /\ [Next]_vars => IInv'
<1> SUFFICES ASSUME IInv, [Next]_vars PROVE IInv'
  OBVIOUS
<1> USE DEF IInv
<1>1. CASE SessionNext /\ Follow
  <2>1. SessionInv'
    BY <1>1, SessionSteps
  <2>2. HookInv'
    BY <1>1, <2>1, FollowSteps DEF SessionInv
  <2>3. ChainTypes'
    BY <1>1, ChainStutters DEF Follow
  <2> QED BY <2>1, <2>2, <2>3
<1>2. CASE HookStep
  <2>1. /\ UNCHANGED session
        /\ UNCHANGED <<indexer, live, paid>>
    BY <1>2 DEF HookStep, FetchMoves, Prompted, ClaimEnds, IndexerAnswers, FetchFails, Receive,
                Sign, Send, SendLost, SendFails, Confirmed, ConfirmFails, Reopen, Click
  <2>2. HookInv'
    <3>1. ASSUME NEW i \in 1..MaxFetches, IndexerAnswers(i) \/ FetchFails(i) \/ Receive(i)
          PROVE  HookInv'
      BY <3>1, FetchSteps DEF ChainTypes
    <3>2. ASSUME NEW j \in 1..MaxCalls, \/ Send(j) \/ SendLost(j) \/ SendFails(j)
                                        \/ Confirmed(j) \/ ConfirmFails(j)
          PROVE  HookInv'
      BY <3>2, SendSteps, EndSteps
    <3>3. CASE Reopen
      BY <3>3, ReopenSteps DEF SessionInv
    <3>4. CASE Click
      BY <3>4, ClickSteps DEF SessionInv
    <3> QED BY <1>2, <3>1, <3>2, <3>3, <3>4 DEF HookStep, FetchMoves, Prompted, ClaimEnds
  <2> QED BY <2>1, <2>2, SessionStutters, ChainStutters
<1>3. CASE ChainStep
  <2>1. ASSUME (\E j \in 1..MaxCalls : ClaimLands(j)) \/ (\E w \in Wallets : MoveSol(w))
        PROVE  IInv'
    <3>1. UNCHANGED session
      BY <2>1 DEF ClaimLands, Execute, Expire, MoveSol
    <3>2. ChainTypes'
      BY <2>1, ExecuteKeepsTypes, ChainStutters DEF ClaimLands, Expire, MoveSol
    <3> QED BY <2>1, <3>1, <3>2, SessionStutters, LandSteps
  <2>2. ASSUME OpenLatest \/ NewEpoch \/ Record \/ (\E e \in Epochs : ExecuteProposal(e))
        PROVE  IInv'
    <3>1. UNCHANGED session /\ UNCHANGED hook
      BY <2>2 DEF OpenLatest, NewEpoch, Record, ExecuteProposal
    <3> QED BY <2>2, <3>1, SessionStutters, HookStutters, IndexerKeepsTypes
  <2> QED BY <1>3, <2>1, <2>2 DEF ChainStep
<1>4. CASE UNCHANGED vars
  BY <1>4, SessionStutters, HookStutters, ChainStutters DEF vars
<1> QED BY <1>1, <1>2, <1>3, <1>4 DEF Next

\* Every state the dashboard and the wallet reach together satisfies the inductive
\* invariant.
THEOREM Invariant == Spec => []IInv
BY InitInvariant, StepInvariant, PTL DEF Spec

\* The card, the claims under way and the records of the indexer are well formed;
\* nobody is paid who is not owed, by a distributor that is not on chain.
THEOREM ClaimsTypeCorrect == Spec => []TypeOK
<1>1. IInv => TypeOK
  BY TypesApart DEF IInv, SessionInv, HookInv
<1> QED BY Invariant, <1>1, PTL

\* With another account than the one that entered, the dashboard is being left.
THEOREM DriftIsCaughtHolds == Spec => []DriftIsCaught
<1>1. IInv => DriftIsCaught
  BY DEF IInv, SessionInv
<1> QED BY Invariant, <1>1, PTL

\* After the guard or the menu has disconnected the user nothing connects that
\* the user did not ask for.
THEOREM NoReattachHolds == Spec => NoReattach
<1>1. IInv => [AutoConnect => ~left]_session
  BY DEF IInv, SessionInv, SessionTypeOK, AutoConnect
<1> QED BY Invariant, <1>1, PTL DEF NoReattach

-----------------------------------------------------------------------------
(* What "claimed" means. *)

\* What the simulation found: the distributor is on chain and owes the claimant.
Passed(c) == c.epoch \in live /\ c.proofOf = c.of /\ c.of \in owed[c.epoch]
Settled(c) == <<c.epoch, c.of>> \in paid \/ c.short

\* A claim that was sent would be paid, unless it has been or the SOL is gone.
PaidInv ==
    /\ \A j \in 1..MaxCalls : calls[j].tx = "sent" => Passed(calls[j])
    /\ \A j \in 1..MaxCalls : calls[j].tx = "executed" => Settled(calls[j])
    /\ ClaimedMeansPaid

\* What a distributor owes stays, and what is paid, is paid.
LEMMA DebtsStay ==
    ASSUME ChainTypes, [Next]_vars
    PROVE  live \subseteq live' /\ paid \subseteq paid' /\ (\A e \in live : owed'[e] = owed[e])
<1>1. CASE NewEpoch
  <2>1. PICK who \in SUBSET Wallets : owed' = [owed EXCEPT ![latest + 1] = who]
    BY <1>1 DEF NewEpoch
  <2>2. \A e \in live : e \in Epochs /\ owed'[e] = owed[e]
    BY <2>1, BoundAssumption DEF ChainTypes, Epochs
  <2> QED BY <1>1, <2>2 DEF NewEpoch
<1>2. CASE \E e \in Epochs : ExecuteProposal(e)
  BY <1>2 DEF ExecuteProposal, indexer
<1>3. CASE \E j \in 1..MaxCalls : ClaimLands(j)
  BY <1>3 DEF ClaimLands, Execute, Expire, indexer
<1>4. CASE OpenLatest \/ Record \/ \E w \in Wallets : MoveSol(w)
  BY <1>4 DEF OpenLatest, Record, MoveSol, indexer
<1>5. CASE HookStep \/ Follow \/ UNCHANGED vars
  BY <1>5 DEF HookStep, FetchMoves, Prompted, ClaimEnds, IndexerAnswers, FetchFails, Receive,
              Sign, Send, SendLost, SendFails, Confirmed, ConfirmFails, Reopen, Click, Follow,
              vars, indexer
<1> QED BY <1>1, <1>2, <1>3, <1>4, <1>5 DEF Next, ChainStep

\* A claim keeps its claimant, its proof and its epoch from the click on.
Same(j) ==
    /\ calls'[j].of = calls[j].of /\ calls'[j].proofOf = calls[j].proofOf
    /\ calls'[j].epoch = calls[j].epoch

\* A step keeps PaidInv if what it sends has passed, what it executes is settled, and
\* what it newly calls claimed has executed.
LEMMA ClaimsGoOn ==
    ASSUME PaidInv, ChainTypes, [Next]_vars,
           \A j \in 1..MaxCalls :
              /\ calls'[j].tx \in {"sent", "executed"} => Same(j)
              /\ calls'[j].tx = "sent" => calls[j].tx = "sent" \/ Passed(calls[j])
              /\ calls'[j].tx = "executed" =>
                   \/ calls[j].tx = "executed" /\ calls'[j].short = calls[j].short
                   \/ <<calls[j].epoch, calls[j].of>> \in paid' \/ calls'[j].short
              /\ calls[j].tx = "executed" =>
                   calls'[j].tx = "executed" /\ calls'[j].short = calls[j].short,
           view'.kind = "claimed" =>
              \/ view' = view
              \/ \E j \in 1..MaxCalls : /\ calls[j].tx = "executed"
                                        /\ view'.of = calls[j].of /\ view'.epoch = calls[j].epoch
    PROVE  PaidInv'
<1>1. live \subseteq live' /\ paid \subseteq paid' /\ (\A e \in live : owed'[e] = owed[e])
  BY DebtsStay
<1>2. ASSUME NEW j \in 1..MaxCalls, calls'[j].tx = "sent"
      PROVE  Passed(calls[j])'
  <2>1. Passed(calls[j]) /\ Same(j)
    BY <1>2 DEF PaidInv
  <2> QED BY <1>1, <2>1 DEF Passed, Same
<1>3. ASSUME NEW j \in 1..MaxCalls, calls'[j].tx = "executed"
      PROVE  Settled(calls[j])'
  <2>1. Same(j)
    BY <1>3
  <2>2. CASE calls[j].tx = "executed" /\ calls'[j].short = calls[j].short
    BY <1>1, <2>1, <2>2 DEF PaidInv, Settled, Same
  <2>3. CASE <<calls[j].epoch, calls[j].of>> \in paid' \/ calls'[j].short
    BY <2>1, <2>3 DEF Settled, Same
  <2> QED BY <1>3, <2>2, <2>3
<1>4. ClaimedMeansPaid'
  <2> SUFFICES ASSUME view'.kind = "claimed",
                      <<view'.epoch, view'.of>> \notin paid'
               PROVE  \E j \in 1..MaxCalls :
                        /\ calls'[j].of = view'.of /\ calls'[j].epoch = view'.epoch
                        /\ calls'[j].tx = "executed" /\ calls'[j].short
    BY DEF ClaimedMeansPaid
  <2>1. CASE view' = view
    <3>1. PICK j \in 1..MaxCalls : /\ calls[j].of = view.of /\ calls[j].epoch = view.epoch
                                   /\ calls[j].tx = "executed" /\ calls[j].short
      BY <1>1, <2>1 DEF PaidInv, ClaimedMeansPaid
    <3>2. calls'[j].tx = "executed" /\ calls'[j].short /\ Same(j)
      BY <3>1
    <3> QED BY <2>1, <3>1, <3>2 DEF Same
  <2>2. ASSUME NEW j \in 1..MaxCalls, calls[j].tx = "executed",
               view'.of = calls[j].of, view'.epoch = calls[j].epoch
        PROVE  calls'[j].short /\ calls'[j].tx = "executed" /\ Same(j)
    <3>1. calls'[j].tx = "executed" /\ Same(j)
      BY <2>2
    <3>2. Settled(calls[j])'
      BY <1>3, <3>1
    <3> QED BY <2>2, <3>1, <3>2 DEF Settled, Same
  <2> QED BY <2>1, <2>2 DEF Same
<1> QED BY <1>2, <1>3, <1>4 DEF PaidInv

\* Every step keeps it.
LEMMA PaidSteps == IInv /\ PaidInv /\ [Next]_vars => PaidInv'
<1> SUFFICES ASSUME IInv, PaidInv, [Next]_vars PROVE PaidInv'
  OBVIOUS
<1>0. HookTypes /\ Executed /\ ChainTypes
  BY DEF IInv, HookInv
<1>1. ASSUME view'.kind = "claimed" => view' = view,
             \A j \in 1..MaxCalls : calls'[j].tx # "none" =>
                 calls'[j].tx = calls[j].tx /\ Same(j) /\ calls'[j].short = calls[j].short,
             \A j \in 1..MaxCalls : calls[j].tx = "executed" => calls'[j].tx = "executed"
      PROVE  PaidInv'
  BY <1>0, <1>1, ClaimsGoOn
<1>2. CASE \E w : Mount(w)
  <2>1. view'.kind # "claimed"
    BY <1>2 DEF Mount, Refetch, View
  <2>2. calls' = [j \in 1..MaxCalls |-> [calls[j] EXCEPT !.shown = FALSE]]
    BY <1>2 DEF Mount
  <2> QED BY <1>0, <1>1, <2>1, <2>2 DEF Same, HookTypes, CallRecords
<1>3. CASE \E w : AccountChanges(w)
  <2>1. view'.kind # "claimed" /\ calls' = calls
    BY <1>3 DEF AccountChanges, Refetch, View
  <2> QED BY <1>1, <2>1 DEF Same
<1>4. ASSUME NEW i \in 1..MaxFetches, FetchMoves(i)
      PROVE  PaidInv'
  <2>1. (view'.kind = "claimed" => view' = view) /\ calls' = calls
    BY <1>4 DEF FetchMoves, IndexerAnswers, FetchFails, Receive, View
  <2> QED BY <1>1, <2>1 DEF Same
<1>5. CASE UNCHANGED <<view, calls>>
  BY <1>1, <1>5 DEF Same
<1>6. CASE Click
  <2>1. PICK j \in 1..MaxCalls :
          /\ calls[j].step = "unused"
          /\ calls' = [calls EXCEPT ![j] = [step |-> "signing", of |-> wallet,
               proofOf |-> view.of, epoch |-> view.epoch, tx |-> "none", short |-> FALSE,
               shown |-> TRUE]]
    BY <1>6 DEF Click
  <2>2. calls[j].tx = "none" /\ calls'[j].tx = "none"
    BY <1>0, <2>1 DEF Executed, HookTypes
  <2>3. \A k \in 1..MaxCalls : k # j => calls'[k] = calls[k]
    BY <1>0, <2>1 DEF HookTypes
  <2>4. view'.kind # "claimed"
    BY <1>6 DEF Click, View
  <2> QED BY <1>1, <2>2, <2>3, <2>4 DEF Same
<1>7. ASSUME NEW j \in 1..MaxCalls, Send(j) \/ SendLost(j)
      PROVE  PaidInv'
  <2>1. /\ Payable(calls[j]) /\ calls[j].step = "signing"
        /\ view'.kind = "claimed" => view' = view
    BY <1>7 DEF Send, SendLost, Sign, Show, View
  <2>2. PICK st \in {"confirming", "over"} :
          calls' = [calls EXCEPT ![j].step = st, ![j].tx = "sent"]
    BY <1>7 DEF Send, SendLost
  <2>3. /\ Same(j) /\ calls'[j].tx = "sent"
        /\ \A k \in 1..MaxCalls : k # j => calls'[k] = calls[k]
    BY <1>0, <2>2 DEF Same, HookTypes, CallRecords
  <2>4. Passed(calls[j]) /\ calls[j].tx # "executed"
    BY <1>0, <2>1 DEF Payable, Passed, Executed
  <2> QED BY <1>0, <2>1, <2>3, <2>4, ClaimsGoOn DEF Same
<1>8. ASSUME NEW j \in 1..MaxCalls, SendFails(j) \/ ClaimEnds(j)
      PROVE  PaidInv'
  <2>1. /\ calls' = [calls EXCEPT ![j].step = "over"]
        /\ view'.kind = "claimed" =>
              \/ view' = view
              \/ /\ calls[j].tx = "executed"
                 /\ view'.of = calls[j].of /\ view'.epoch = calls[j].epoch
    BY <1>8 DEF SendFails, ClaimEnds, Confirmed, ConfirmFails, Show, View
  <2>2. \A k \in 1..MaxCalls :
           Same(k) /\ calls'[k].tx = calls[k].tx /\ calls'[k].short = calls[k].short
    BY <1>0, <2>1 DEF Same, HookTypes, CallRecords
  <2> QED BY <1>0, <2>1, <2>2, ClaimsGoOn
<1>9. ASSUME NEW j \in 1..MaxCalls, ClaimLands(j)
      PROVE  PaidInv'
  <2>1. view' = view /\ calls[j].tx = "sent"
    BY <1>0, <1>9, Landing
  <2>2. /\ Same(j) /\ calls'[j].tx \in {"executed", "expired"}
        /\ \A k \in 1..MaxCalls : k # j => calls'[k] = calls[k]
    <3>1. PICK t \in {"executed", "expired"}, b \in BOOLEAN :
             calls' = [calls EXCEPT ![j] = [calls[j] EXCEPT !.tx = t, !.short = b]]
      BY <1>0, <1>9, Landing
    <3> QED BY <1>0, <3>1 DEF Same, HookTypes, CallRecords
  <2>3. ASSUME calls'[j].tx = "executed"
        PROVE  <<calls[j].epoch, calls[j].of>> \in paid' \/ calls'[j].short
    <3>1. Execute(j)
      BY <1>0, <1>9, <2>3 DEF ClaimLands, Expire, HookTypes, CallRecords
    <3>2. CASE paid' = paid \cup {<<calls[j].epoch, calls[j].of>>}
      BY <3>2
    <3>3. CASE /\ ~Payable(calls[j]) \/ calls[j].short
               /\ calls' = [calls EXCEPT ![j].tx = "executed"] /\ paid' = paid
      <4>1. calls'[j].short = calls[j].short
        BY <1>0, <3>3 DEF HookTypes, CallRecords
      <4>2. Passed(calls[j])
        BY <2>1 DEF PaidInv
      <4> QED BY <3>3, <4>1, <4>2 DEF Passed, Payable
    <3> QED BY <3>1, <3>2, <3>3 DEF Execute
  <2> QED BY <1>0, <2>1, <2>2, <2>3, ClaimsGoOn DEF Same
<1>10. ASSUME NEW w \in Wallets, MoveSol(w)
       PROVE  PaidInv'
  <2>1. view' = view
    BY <1>10 DEF MoveSol
  <2>2. \A k \in 1..MaxCalls :
           Same(k) /\ calls'[k].tx = calls[k].tx
           /\ (calls[k].tx # "sent" => calls'[k].short = calls[k].short)
    BY <1>0, <1>10 DEF MoveSol, Same, HookTypes, CallRecords
  <2> QED BY <1>0, <2>1, <2>2, ClaimsGoOn
<1>11. CASE Follow
  BY <1>2, <1>3, <1>5, <1>11 DEF Follow, hook
<1>12. CASE Reopen
  BY <1>2, <1>12 DEF Reopen
<1>13. CASE HookStep
  BY <1>4, <1>6, <1>7, <1>8, <1>12, <1>13 DEF HookStep, Prompted
<1>14. CASE ChainStep
  <2>1. OpenLatest \/ NewEpoch \/ Record \/ (\E e \in Epochs : ExecuteProposal(e))
           => UNCHANGED <<view, calls>>
    BY DEF OpenLatest, NewEpoch, Record, ExecuteProposal, hook
  <2> QED BY <1>5, <1>9, <1>10, <1>14, <2>1 DEF ChainStep
<1>15. CASE UNCHANGED vars
  BY <1>5, <1>15 DEF vars, hook
<1> QED BY <1>11, <1>13, <1>14, <1>15 DEF Next

\* "Funds transferred to your wallet" is shown of a claim that is paid, or whose SOL
\* for the fee and the rent the user has moved after it passed its simulation.
THEOREM ClaimedMeansPaidHolds == Spec => []ClaimedMeansPaid
<1>1. Init => PaidInv
  BY DEF Init, NoCall, View, PaidInv, ClaimedMeansPaid
<1>2. PaidInv => ClaimedMeansPaid
  BY DEF PaidInv
<1> QED BY <1>1, <1>2, PaidSteps, Invariant, PTL DEF Spec

-----------------------------------------------------------------------------
(* What the card shows. *)

\* While the account stays, the card is about it.
THEOREM ShownIsCurrentHolds == Spec => []ShownIsCurrent
<1>1. IInv => ShownIsCurrent
  BY DEF IInv, HookInv, Undisturbed, ShownIsCurrent
<1> QED BY Invariant, <1>1, PTL

\* And it submits one claim at a time.
THEOREM OneClaimAtATimeHolds == Spec => []OneClaimAtATime
<1>1. IInv => OneClaimAtATime
  <2> SUFFICES ASSUME IInv, ~raced PROVE OneClaimAtATime
    BY DEF OneClaimAtATime
  <2> DEFINE mine == {j \in 1..MaxCalls : calls[j].shown /\ calls[j].step # "over"}
  <2>1. Undisturbed
    BY DEF IInv, HookInv
  <2>2. (Card = "submitting") <=> (view.kind = "claiming")
    BY DEF Card
  <2>3. (view.kind = "claiming") <=> CallPending
    BY <2>1 DEF Undisturbed, Pending, CallPending
  <2>4. mine = {} \/ \E j \in 1..MaxCalls : mine = {j}
    BY <2>1 DEF Undisturbed, Pending
  <2>5. Cardinality(mine) <= 1
    <3>1. Cardinality({}) = 0
      BY FS_EmptySet
    <3>2. \A j \in 1..MaxCalls : Cardinality({j}) = 1
      BY FS_Singleton
    <3> HIDE DEF mine
    <3> QED BY <2>4, <3>1, <3>2
  <2> QED BY <2>2, <2>3, <2>5 DEF OneClaimAtATime
<1> QED BY Invariant, <1>1, PTL

-----------------------------------------------------------------------------
(* A mix-up of accounts ends. *)

\* A card whose account changed under what it awaited is on a page that is left.
RacedInv == raced => leaving /\ CardOf(page, wallet) # NoWallet

\* Only the extension's event puts one account in the place of another, and the guard,
\* which hears it too, leaves the page.
LEMMA AccountsChangeByEvent ==
    ASSUME SessionInv, SessionNext, CardOf(page, wallet) # NoWallet,
           CardOf(page', wallet') \notin {NoWallet, CardOf(page, wallet)}
    PROVE  leaving'
<1>1. page = "dashboard" /\ page' = "dashboard" /\ wallet # NoWallet /\ wallet' # wallet
      /\ wallet' # NoWallet
  BY DEF CardOf
<1>2. Event
  BY <1>1 DEF SessionNext, Connect, AutoConnect, Drop, ExtensionChanges, Poll, ClickDisconnect,
              Disconnect, Navigate, Reload, SwitchNetwork, Visit
<1> QED BY <1>1, <1>2 DEF Event, Watching, ClearAndRedirect, SessionInv, SessionTypeOK

\* A page that is being left is, until the navigation ends.
LEMMA LeavingStays ==
    ASSUME SessionInv, SessionNext, leaving
    PROVE  leaving' \/ Navigate
BY DEF SessionNext, Connect, AutoConnect, Drop, ExtensionChanges, Event, Poll, ClickDisconnect,
       Disconnect, Reload, SwitchNetwork, Visit, Seen, ClearAndRedirect, DisconnectWallet

\* The card of the landing page is nobody's, and is mounted anew.
LEMMA LeavingUnmounts == RacedInv /\ raced /\ Leave => ~raced'
<1> SUFFICES ASSUME RacedInv, raced, Leave PROVE ~raced'
  OBVIOUS
<1>1. CardOf(page, wallet) # NoWallet /\ CardOf(page', wallet') = NoWallet
  BY DEF RacedInv, Leave, Navigate, CardOf
<1>2. Mount(CardOf(page', wallet'))
  BY <1>1 DEF Leave, Follow
<1> QED BY <1>2 DEF Mount

\* Every step keeps it.
LEMMA RacedStepInv == SessionInv /\ RacedInv /\ [Next]_vars => RacedInv'
<1> SUFFICES ASSUME SessionInv, RacedInv, [Next]_vars, raced' PROVE RacedInv'
  BY DEF RacedInv
<1> DEFINE now == CardOf(page, wallet)
           next == CardOf(page', wallet')
<1>1. CASE SessionNext /\ Follow
  <2>1. CASE now = next /\ UNCHANGED hook
    <3>1. raced /\ leaving /\ now # NoWallet
      BY <2>1 DEF hook, RacedInv
    <3>2. ~Navigate
      BY <2>1, <3>1 DEF Navigate, CardOf
    <3>3. leaving'
      BY <1>1, <3>1, <3>2, LeavingStays
    <3> QED BY <2>1, <3>1, <3>3 DEF RacedInv, CardOf
  <2>2. CASE Mount(next)
    BY <2>2 DEF Mount
  <2>3. CASE now # next /\ NoWallet \notin {now, next}
    <3>1. leaving'
      BY <1>1, <2>3, AccountsChangeByEvent
    <3> QED BY <2>3, <3>1 DEF RacedInv, CardOf
  <2> QED BY <1>1, <2>1, <2>2, <2>3 DEF Follow
<1>2. CASE Reopen
  BY <1>2 DEF Reopen, Mount
<1>3. CASE UNCHANGED <<session, raced>>
  BY <1>3 DEF session, RacedInv, CardOf
<1>4. HookStep => Reopen \/ UNCHANGED <<session, raced>>
  BY DEF HookStep, FetchMoves, Prompted, ClaimEnds, IndexerAnswers, FetchFails, Receive, Sign,
         Send, SendLost, SendFails, Confirmed, ConfirmFails, Click
<1>5. ChainStep => UNCHANGED <<session, raced>>
  BY DEF ChainStep, ClaimLands, Execute, Expire, MoveSol, OpenLatest, NewEpoch, Record,
         ExecuteProposal, hook
<1>6. UNCHANGED vars => UNCHANGED <<session, raced>>
  BY DEF vars, hook
<1> QED BY <1>1, <1>2, <1>3, <1>4, <1>5, <1>6 DEF Next

\* Where a navigation that was started can end, a card that shows what was asked for
\* another account does not stay (useWalletGuard's clearAndRedirect).
THEOREM MixUpEndsHolds == Spec /\ []LeavingEnds => MixUpEnds
<1>1. Init => RacedInv
  BY DEF Init, RacedInv
<1>2. SessionInv /\ RacedInv /\ [Next]_vars => RacedInv'
  BY RacedStepInv
<1>3. RacedInv /\ raced /\ <<Leave>>_vars => ~raced'
  BY LeavingUnmounts
<1>4. LeavingEnds /\ RacedInv /\ raced => ENABLED <<Leave>>_vars
  BY DEF LeavingEnds, RacedInv
<1>5. Spec => []SessionInv
  BY Invariant, PTL DEF IInv
<1> QED BY <1>1, <1>2, <1>3, <1>4, <1>5, PTL DEF Spec, Fairness, GuardFair, MixUpEnds

-----------------------------------------------------------------------------
(* The card settles. *)

\* A card that loads awaits a request, one that submits a claim of its own.
Loading == view.kind = "loading"
Claiming == view.kind = "claiming"
Calm == view.kind \notin {"loading", "claiming"}

Answers == {"none", "awaiting", "ready"}
LoadingAt(i, steps) == Loading /\ fetches[i].step \in steps
ClaimingAt(j, steps) == Claiming /\ calls[j].shown /\ calls[j].step \in steps

\* What the card shows is under way.
Awaited ==
    /\ Loading => \E i \in 1..MaxFetches : LoadingAt(i, {"asked"} \cup Answers)
    /\ Claiming => \E j \in 1..MaxCalls : ClaimingAt(j, {"signing", "confirming"})

\* The hook asks the indexer once more.
Asks == \E i \in 1..MaxFetches : fetches[i].step = "unused" /\ fetches'[i].step # "unused"

\* A card that asks anew loads, if there is a wallet, and awaits what it asked.
LEMMA RefetchAwaits ==
    ASSUME NEW w, NEW old \in [1..MaxFetches -> FetchRecords], Refetch(w, old),
           \A i \in 1..MaxFetches : old[i].step = "unused" => fetches[i].step = "unused"
    PROVE  Awaited' /\ (Calm' \/ Asks)
<1>1. CASE w = NoWallet
  BY <1>1 DEF Refetch, View, Awaited, Loading, Claiming, Calm
<1>2. CASE w # NoWallet
  <2>1. PICK i \in 1..MaxFetches :
          /\ old[i].step = "unused"
          /\ fetches' = [old EXCEPT ![i] = [step |-> "asked", of |-> w, epoch |-> 0]]
    BY <1>2 DEF Refetch, NoFetch
  <2>2. view'.kind = "loading"
    BY <1>2 DEF Refetch, View
  <2>3. fetches'[i].step = "asked" /\ fetches[i].step = "unused"
    BY <2>1
  <2> QED BY <2>2, <2>3 DEF Awaited, Loading, Claiming, LoadingAt, Asks
<1> QED BY <1>1, <1>2

\* So does one mounted anew.
LEMMA MountAwaits == HookTypes => \A w : Mount(w) => Awaited' /\ (Calm' \/ Asks)
<1> SUFFICES ASSUME HookTypes, NEW w, Mount(w) PROVE Awaited' /\ (Calm' \/ Asks)
  OBVIOUS
<1> DEFINE old == [i \in 1..MaxFetches |->
       IF fetches[i].step = "unused" THEN NoFetch ELSE [NoFetch EXCEPT !.step = "over"]]
<1>1. Refetch(w, old)
  BY DEF Mount
<1>2. old \in [1..MaxFetches -> FetchRecords]
  BY BoundAssumption DEF NoFetch, Owners, FetchRecords
<1>3. \A i \in 1..MaxFetches : old[i].step = "unused" => fetches[i].step = "unused"
  BY DEF NoFetch
<1> HIDE DEF old
<1> QED BY <1>1, <1>2, <1>3, RefetchAwaits

\* What a step does to what the card awaits: request i goes on or the card is calm,
\* claim j goes on or the card is calm, unless the indexer is asked anew.
AwaitingGoesOn ==
    /\ \A i \in 1..MaxFetches :
         /\ LoadingAt(i, {"asked"}) => LoadingAt(i, {"asked"} \cup Answers)' \/ Calm'
         /\ LoadingAt(i, Answers) => LoadingAt(i, Answers)' \/ Calm'
    /\ \A j \in 1..MaxCalls :
         /\ ClaimingAt(j, {"signing"}) => ClaimingAt(j, {"signing", "confirming"})' \/ Calm'
         /\ ClaimingAt(j, {"confirming"}) => ClaimingAt(j, {"confirming"})' \/ Calm'

\* A step keeps what the card shows under way.
Awaiting == Awaited' /\ (AwaitingGoesOn \/ Asks)

\* A step that changes neither what the card says nor what it awaits.
LEMMA AwaitingKept ==
    ASSUME Awaited, UNCHANGED <<view, fetches, calls>> PROVE Awaiting
BY DEF Awaited, Awaiting, AwaitingGoesOn, Loading, Claiming, Calm, LoadingAt, ClaimingAt

\* A step that leaves the card calm.
LEMMA AwaitingOver ==
    ASSUME Calm' PROVE Awaiting
BY DEF Awaited, Awaiting, AwaitingGoesOn, Loading, Claiming, Calm

\* A step that has the card mounted anew or ask for another account.
LEMMA AwaitingAnew ==
    ASSUME Awaited', Calm' \/ Asks PROVE Awaiting
BY AwaitingOver DEF Awaiting

\* A request goes on.
LEMMA AwaitingRequest ==
    ASSUME HookTypes, Awaited, NEW i \in 1..MaxFetches, FetchMoves(i)
    PROVE  Awaiting
<1>1. CASE IndexerAnswers(i)
  <2>1. /\ UNCHANGED <<view, calls>> /\ fetches[i].step = "asked"
        /\ fetches'[i].step \in Answers
        /\ \A k \in 1..MaxFetches : k # i => fetches'[k] = fetches[k]
    BY <1>1 DEF IndexerAnswers, ClaimOf, HookTypes, FetchRecords, Answers
  <2>2. \A k \in 1..MaxFetches :
           LoadingAt(k, {"asked"} \cup Answers) => LoadingAt(k, {"asked"} \cup Answers)'
    BY <2>1 DEF LoadingAt, Loading
  <2>3. Awaited'
    BY <2>1, <2>2 DEF Awaited, Loading, Claiming, ClaimingAt
  <2>4. AwaitingGoesOn
    BY <2>1 DEF AwaitingGoesOn, LoadingAt, ClaimingAt, Loading, Claiming, Answers
  <2> QED BY <2>3, <2>4 DEF Awaiting
<1>2. CASE FetchFails(i) \/ Receive(i)
  <2>1. Calm'
    BY <1>2 DEF FetchFails, Receive, View, Calm
  <2> QED BY <2>1, AwaitingOver
<1> QED BY <1>1, <1>2 DEF FetchMoves

\* So does a claim.
LEMMA AwaitingClaim ==
    ASSUME HookTypes, Awaited,
           \/ \E j \in 1..MaxCalls : Prompted(j) \/ ClaimEnds(j) \/ ClaimLands(j)
           \/ \E w \in Wallets : MoveSol(w)
    PROVE  Awaiting
<1>1. CASE \/ \E j \in 1..MaxCalls : Send(j) \/ ClaimLands(j)
           \/ \E w \in Wallets : MoveSol(w)
  <2>1. /\ UNCHANGED <<view, fetches>>
        /\ \A k \in 1..MaxCalls : calls'[k].shown = calls[k].shown
        /\ \A k \in 1..MaxCalls : \/ calls'[k].step = calls[k].step
                                  \/ calls[k].step = "signing" /\ calls'[k].step = "confirming"
    <3>1. CASE \E j \in 1..MaxCalls : Send(j)
      BY <3>1 DEF Send, Sign, HookTypes, CallRecords
    <3>2. ASSUME NEW j \in 1..MaxCalls, ClaimLands(j)
          PROVE  <2>1!1 /\ <2>1!2 /\ <2>1!3
      <4>1. view' = view /\ fetches' = fetches
        BY <3>2 DEF ClaimLands, Execute, Expire
      <4>2. PICK t \in {"executed", "expired"}, b \in BOOLEAN :
               calls' = [calls EXCEPT ![j] = [calls[j] EXCEPT !.tx = t, !.short = b]]
        BY <3>2, Landing
      <4> QED BY <4>1, <4>2 DEF HookTypes, CallRecords
    <3>3. CASE \E w \in Wallets : MoveSol(w)
      BY <3>3 DEF MoveSol, HookTypes, CallRecords
    <3> QED BY <1>1, <3>1, <3>2, <3>3
  <2>2. \A k \in 1..MaxCalls :
           ClaimingAt(k, {"signing", "confirming"}) => ClaimingAt(k, {"signing", "confirming"})'
    BY <2>1 DEF ClaimingAt, Claiming
  <2>3. Awaited'
    BY <2>1, <2>2 DEF Awaited, Loading, Claiming, LoadingAt
  <2>4. AwaitingGoesOn
    BY <2>1 DEF AwaitingGoesOn, LoadingAt, ClaimingAt, Loading, Claiming, Answers
  <2> QED BY <2>3, <2>4 DEF Awaiting
<1>2. ASSUME NEW j \in 1..MaxCalls, SendLost(j) \/ SendFails(j) \/ ClaimEnds(j)
      PROVE  Awaiting
  <2>1. /\ \A k \in 1..MaxCalls : k # j => calls'[k] = calls[k]
        /\ UNCHANGED fetches
        /\ Show(j, "error") \/ Show(j, "claimed")
    BY <1>2 DEF SendLost, Sign, SendFails, ClaimEnds, Confirmed, ConfirmFails, HookTypes
  <2>2. CASE calls[j].shown
    <3>1. Calm'
      BY <2>1, <2>2 DEF Show, View, Calm
    <3> QED BY <3>1, AwaitingOver
  <2>3. CASE ~calls[j].shown
    <3>1. UNCHANGED <<view, fetches>>
      BY <2>1, <2>3 DEF Show
    <3>3. Awaited'
      BY <2>1, <2>3, <3>1 DEF Awaited, Loading, Claiming, LoadingAt, ClaimingAt
    <3>4. AwaitingGoesOn
      BY <2>1, <2>3, <3>1 DEF AwaitingGoesOn, LoadingAt, ClaimingAt, Loading, Claiming, Answers
    <3> QED BY <3>3, <3>4 DEF Awaiting
  <2> QED BY <2>2, <2>3
<1> QED BY <1>1, <1>2 DEF Prompted

\* So does every step.
LEMMA AwaitingSteps == HookTypes /\ Awaited /\ [Next]_vars => Awaiting
<1> SUFFICES ASSUME HookTypes, Awaited, [Next]_vars PROVE Awaiting
  OBVIOUS
<1>1. CASE Follow
  <2>1. CASE UNCHANGED hook
    BY <2>1, AwaitingKept DEF hook
  <2>2. CASE \E w : Mount(w)
    BY <2>2, MountAwaits, AwaitingAnew
  <2>3. CASE AccountChanges(CardOf(page', wallet'))
    <3>1. Awaited' /\ (Calm' \/ Asks)
      BY <2>3, RefetchAwaits DEF AccountChanges, HookTypes
    <3> QED BY <3>1, AwaitingAnew
  <2> QED BY <1>1, <2>1, <2>2, <2>3 DEF Follow
<1>2. CASE Reopen
  BY <1>2, MountAwaits, AwaitingAnew DEF Reopen
<1>3. CASE Click
  <2>1. PICK j \in 1..MaxCalls : calls' = [calls EXCEPT ![j] = [step |-> "signing", of |-> wallet,
              proofOf |-> view.of, epoch |-> view.epoch, tx |-> "none", short |-> FALSE,
              shown |-> TRUE]]
    BY <1>3 DEF Click
  <2>2. view.kind = "ready" /\ view'.kind = "claiming"
    BY <1>3 DEF Click, Card, View
  <2>3. ClaimingAt(j, {"signing", "confirming"})'
    BY <2>1, <2>2 DEF ClaimingAt, Claiming, HookTypes
  <2> QED BY <2>2, <2>3 DEF Awaiting, Awaited, AwaitingGoesOn, LoadingAt, ClaimingAt, Loading,
                            Claiming
<1>4. CASE UNCHANGED <<view, fetches, calls>>
  BY <1>4, AwaitingKept
<1>5. HookStep => \/ Reopen \/ Click \/ \E i \in 1..MaxFetches : FetchMoves(i)
                  \/ \E j \in 1..MaxCalls : Prompted(j) \/ ClaimEnds(j)
  BY DEF HookStep
<1>6. ChainStep => \/ UNCHANGED <<view, fetches, calls>>
                   \/ \E j \in 1..MaxCalls : ClaimLands(j)
                   \/ \E w \in Wallets : MoveSol(w)
  <2>1. OpenLatest \/ NewEpoch \/ Record => UNCHANGED <<view, fetches, calls>>
    BY DEF OpenLatest, NewEpoch, Record, hook
  <2>2. \A e \in Epochs : ExecuteProposal(e) => UNCHANGED <<view, fetches, calls>>
    BY DEF ExecuteProposal, hook
  <2> QED BY <2>1, <2>2 DEF ChainStep
<1>7. UNCHANGED vars => UNCHANGED <<view, fetches, calls>>
  BY DEF vars, hook
<1> QED BY <1>1, <1>2, <1>3, <1>4, <1>5, <1>6, <1>7, AwaitingRequest, AwaitingClaim DEF Next

\* What the awaited answer does, and what the end of a claim does.
LEMMA AwaitedComes ==
    /\ \A i \in 1..MaxFetches : HookTypes /\ FetchMoves(i) =>
         /\ LoadingAt(i, {"asked"}) => LoadingAt(i, Answers)' \/ Calm'
         /\ LoadingAt(i, Answers) => Calm'
    /\ \A j \in 1..MaxCalls : HookTypes =>
         /\ Prompted(j) /\ ClaimingAt(j, {"signing"}) => ClaimingAt(j, {"confirming"})' \/ Calm'
         /\ ClaimEnds(j) /\ ClaimingAt(j, {"confirming"}) => Calm'
<1>1. ASSUME HookTypes, NEW i \in 1..MaxFetches, FetchMoves(i)
      PROVE  /\ LoadingAt(i, {"asked"}) => LoadingAt(i, Answers)' \/ Calm'
             /\ LoadingAt(i, Answers) => Calm'
  <2>1. CASE IndexerAnswers(i)
    <3>1. UNCHANGED view /\ fetches[i].step = "asked" /\ fetches'[i].step \in Answers
      BY <1>1, <2>1 DEF IndexerAnswers, ClaimOf, HookTypes, FetchRecords, Answers
    <3> QED BY <3>1 DEF LoadingAt, Loading, Answers
  <2>2. CASE FetchFails(i) \/ Receive(i)
    BY <2>2 DEF FetchFails, Receive, View, Calm
  <2> QED BY <1>1, <2>1, <2>2 DEF FetchMoves
<1>2. ASSUME HookTypes, NEW j \in 1..MaxCalls
      PROVE  Prompted(j) /\ ClaimingAt(j, {"signing"}) => ClaimingAt(j, {"confirming"})' \/ Calm'
  <2>1. CASE Send(j)
    BY <1>2, <2>1 DEF Send, ClaimingAt, Claiming, HookTypes, CallRecords
  <2>2. CASE SendLost(j) \/ SendFails(j)
    BY <2>2 DEF SendLost, SendFails, Show, View, ClaimingAt, Calm
  <2> QED BY <2>1, <2>2 DEF Prompted
<1>3. ASSUME HookTypes, NEW j \in 1..MaxCalls
      PROVE  ClaimEnds(j) /\ ClaimingAt(j, {"confirming"}) => Calm'
  BY DEF ClaimEnds, Confirmed, ConfirmFails, Show, View, ClaimingAt, Calm
<1> QED BY <1>1, <1>2, <1>3

\* Where what the hook awaits can come to an end, and the card is not opened for ever
\* anew, it is never stuck loading or submitting (useRewardsClaim's refetch and claim).
THEOREM CardSettlesHolds ==
    Spec /\ []AwaitsEnd /\ <>[][~Asks]_vars => CardSettles
<1> DEFINE Quiet == [][Next]_vars /\ [][~Asks]_vars /\ [](HookTypes /\ Awaited) /\ []AwaitsEnd
           Fetching == \A i \in 1..MaxFetches : FetchFair(i)
           Calling == \A j \in 1..MaxCalls : CallFair(j)
           Asking(i) == LoadingAt(i, {"asked"})
           Answered(i) == LoadingAt(i, Answers)
           Signing(j) == ClaimingAt(j, {"signing"})
           Confirming(j) == ClaimingAt(j, {"confirming"})
<1>1. HookTypes /\ Awaited /\ [Next]_vars /\ [~Asks]_vars => AwaitingGoesOn
  <2>1. [~Asks]_vars => ~Asks
    BY DEF vars, hook, Asks
  <2> QED BY <2>1, AwaitingSteps DEF Awaiting
<1>2. Quiet /\ Fetching => \A i \in 1..MaxFetches : (Asking(i) \/ Answered(i) => <>Calm)
  <2> SUFFICES ASSUME NEW i \in 1..MaxFetches
               PROVE  Quiet /\ Fetching => (Asking(i) \/ Answered(i) => <>Calm)
    OBVIOUS
  <2>1. HookTypes /\ Awaited /\ [Next]_vars /\ [~Asks]_vars =>
            /\ Asking(i) => Asking(i)' \/ Answered(i)' \/ Calm'
            /\ Answered(i) => Answered(i)' \/ Calm'
    BY <1>1 DEF AwaitingGoesOn, LoadingAt
  <2>2. HookTypes /\ <<FetchMoves(i)>>_vars =>
            (Asking(i) => Answered(i)' \/ Calm') /\ (Answered(i) => Calm')
    BY AwaitedComes
  <2>3. AwaitsEnd => (Asking(i) \/ Answered(i) => ENABLED <<FetchMoves(i)>>_vars)
    BY DEF AwaitsEnd, LoadingAt, Answers
  <2>4. Fetching => FetchFair(i)
    OBVIOUS
  <2> QED BY <2>1, <2>2, <2>3, <2>4, PTL DEF FetchFair
<1>3. Quiet /\ Calling => \A j \in 1..MaxCalls : (Signing(j) \/ Confirming(j) => <>Calm)
  <2> SUFFICES ASSUME NEW j \in 1..MaxCalls
               PROVE  Quiet /\ Calling => (Signing(j) \/ Confirming(j) => <>Calm)
    OBVIOUS
  <2>1. HookTypes /\ Awaited /\ [Next]_vars /\ [~Asks]_vars =>
            /\ Signing(j) => Signing(j)' \/ Confirming(j)' \/ Calm'
            /\ Confirming(j) => Confirming(j)' \/ Calm'
    BY <1>1 DEF AwaitingGoesOn, ClaimingAt
  <2>2. /\ HookTypes /\ <<Prompted(j)>>_vars => (Signing(j) => Confirming(j)' \/ Calm')
        /\ HookTypes /\ <<ClaimEnds(j)>>_vars => (Confirming(j) => Calm')
    BY AwaitedComes
  <2>3. AwaitsEnd => /\ Signing(j) => ENABLED <<Prompted(j)>>_vars
                     /\ Confirming(j) => ENABLED <<ClaimEnds(j)>>_vars
    BY DEF AwaitsEnd, ClaimingAt
  <2>4. Calling => CallFair(j)
    OBVIOUS
  <2> QED BY <2>1, <2>2, <2>3, <2>4, PTL DEF CallFair
<1>4. Quiet /\ Fetching => ((\E i \in 1..MaxFetches : Asking(i) \/ Answered(i)) => <>Calm)
  <2> HIDE DEF Quiet, Fetching, Asking, Answered
  <2> QED BY <1>2
<1>5. Quiet /\ Calling => ((\E j \in 1..MaxCalls : Signing(j) \/ Confirming(j)) => <>Calm)
  <2> HIDE DEF Quiet, Calling, Signing, Confirming
  <2> QED BY <1>3
<1>6. Awaited => \/ Calm
                 \/ \E i \in 1..MaxFetches : Asking(i) \/ Answered(i)
                 \/ \E j \in 1..MaxCalls : Signing(j) \/ Confirming(j)
  BY DEF Awaited, Calm, Loading, Claiming, LoadingAt, ClaimingAt
<1>7. Fetching => []Fetching
  <2>1. \A i \in 1..MaxFetches : FetchFair(i) => []FetchFair(i)
    <3> SUFFICES ASSUME NEW i \in 1..MaxFetches PROVE FetchFair(i) => []FetchFair(i)
      OBVIOUS
    <3> QED BY PTL DEF FetchFair
  <2>2. Fetching => \A i \in 1..MaxFetches : []FetchFair(i)
    BY <2>1
  <2>3. (\A i \in 1..MaxFetches : []FetchFair(i)) => []Fetching
    OBVIOUS
  <2> QED BY <2>2, <2>3
<1>8. Calling => []Calling
  <2>1. \A j \in 1..MaxCalls : CallFair(j) => []CallFair(j)
    <3> SUFFICES ASSUME NEW j \in 1..MaxCalls PROVE CallFair(j) => []CallFair(j)
      OBVIOUS
    <3> QED BY PTL DEF CallFair
  <2>2. Calling => \A j \in 1..MaxCalls : []CallFair(j)
    BY <2>1
  <2>3. (\A j \in 1..MaxCalls : []CallFair(j)) => []Calling
    OBVIOUS
  <2> QED BY <2>2, <2>3
<1>9. Spec => [](HookTypes /\ Awaited)
  <2>1. Init => Awaited
    BY DEF Init, View, Awaited, Loading, Claiming
  <2>2. IInv => HookTypes
    BY DEF IInv, HookInv
  <2>3. HookTypes /\ Awaited /\ [Next]_vars => Awaited'
    BY AwaitingSteps DEF Awaiting
  <2> QED BY <2>1, <2>2, <2>3, Invariant, PTL DEF Spec
<1>10. Spec => Fetching /\ Calling
  BY DEF Spec, Fairness
<1>11. Calm => view.kind \notin {"loading", "claiming"}
  BY DEF Calm
<1> HIDE DEF Fetching, Calling
<1> QED BY <1>4, <1>5, <1>6, <1>7, <1>8, <1>9, <1>10, <1>11, PTL DEF Spec, CardSettles

-----------------------------------------------------------------------------
(* The recursive functions of the amount field are what their equations say. *)

\* The powers of ten are what their recursion says.
LEMMA TensEquation ==
    /\ \A n \in Nat : Tens[n] \in Nat \ {0}
    /\ Tens[0] = 1
    /\ \A n \in Nat : Tens[n + 1] = 10 * Tens[n]
<1> DEFINE B == {0}
           base == [n \in Nat |-> 1]
           below == [n \in Nat |-> n - 1]
           after == [n \in Nat |-> [v \in Nat \ {0} |-> 10 * v]]
<1>1. /\ \A n \in Nat : n \in B => base[n] \in Nat \ {0}
      /\ \A n \in Nat : n \notin B => below[n] \in 0..(n - 1)
      /\ \A n \in Nat : n \notin B => \A v \in Nat \ {0} : after[n][v] \in Nat \ {0}
  OBVIOUS
<1>2. \E f \in [Nat -> Nat \ {0}] : Recursive(f, Nat, B, base, below, after)
  <2> HIDE DEF B, base, below, after
  <2> QED BY <1>1, Recursion
<1>3. PICK f \in [Nat -> Nat \ {0}] : Recursive(f, Nat, B, base, below, after)
  BY <1>2
<1>4. ASSUME NEW n \in Nat PROVE f[n] = IF n = 0 THEN 1 ELSE 10 * f[n - 1]
  <2>1. f[n] = IF n \in B THEN base[n] ELSE after[n][f[below[n]]]
    BY <1>3 DEF Recursive
  <2>2. n # 0 => n - 1 \in Nat /\ f[n - 1] \in Nat \ {0}
    BY <1>3
  <2> QED BY <2>1, <2>2
<1>5. f = [n \in Nat |-> IF n = 0 THEN 1 ELSE 10 * f[n - 1]]
  BY <1>4
<1>6. Tens = [n \in Nat |-> IF n = 0 THEN 1 ELSE 10 * Tens[n - 1]]
  BY <1>5 DEF Tens
<1> DEFINE N == {n \in Nat : Tens[n] \in Nat \ {0}}
<1> HIDE DEF B, base, below, after
<1>7. Tens[0] = 1 /\ \A n \in Nat : Tens[n + 1] = 10 * Tens[n]
  <2>1. \A n \in Nat : n + 1 \in Nat /\ n + 1 # 0 /\ (n + 1) - 1 = n
    OBVIOUS
  <2> QED BY <1>6, <2>1
<1>8. Nat \subseteq N
  <2>1. 0 \in N /\ \A n \in Nat : n \in N => n + 1 \in N
    BY <1>7
  <2> HIDE DEF N
  <2> QED BY <2>1, NumbersInduction
<1> QED BY <1>7, <1>8

\* So are the decimal numerals of the numbers: digits, one at least.
LEMMA TextEquation ==
    \A n \in Nat : /\ Text[n] \in Seq(Digit) /\ Text[n] # <<>>
                   /\ n < 10 => Text[n] = <<n>>
                   /\ n >= 10 => Text[n] = Append(Text[n \div 10], n % 10)
<1> DEFINE V == Seq(Digit) \ {<<>>}
           B == 0..9
           base == [n \in Nat |-> <<n>>]
           below == [n \in Nat |-> n \div 10]
           after == [n \in Nat |-> [v \in V |-> Append(v, n % 10)]]
<1>0. \A n \in Nat : n % 10 \in Digit /\ (n \notin B => n \div 10 \in 0..(n - 1))
  BY SMT DEF Digit
<1>12. \A v \in V, c \in Digit : Append(v, c) \in V
  OBVIOUS
<1>1. /\ \A n \in Nat : n \in B => base[n] \in V
      /\ \A n \in Nat : n \notin B => below[n] \in 0..(n - 1)
      /\ \A n \in Nat : n \notin B => \A v \in V : after[n][v] \in V
  <2>1. \A n \in B : <<n>> \in V
    BY DEF Digit
  <2> QED BY <1>0, <1>12, <2>1
<1>2. \E f \in [Nat -> V] : Recursive(f, Nat, B, base, below, after)
  <2> HIDE DEF V, B, base, below, after
  <2> QED BY <1>1, Recursion
<1>3. PICK f \in [Nat -> V] : Recursive(f, Nat, B, base, below, after)
  BY <1>2
<1>4. ASSUME NEW n \in Nat PROVE f[n] = IF n < 10 THEN <<n>> ELSE Append(f[n \div 10], n % 10)
  <2>1. f[n] = IF n \in B THEN base[n] ELSE after[n][f[below[n]]]
    BY <1>3 DEF Recursive
  <2>2. n \div 10 \in Nat
    BY SMT
  <2>3. f[n \div 10] \in V
    BY <1>3, <2>2
  <2> HIDE DEF V
  <2>4. /\ n \in B <=> n < 10
        /\ base[n] = <<n>> /\ below[n] = n \div 10
        /\ \A v \in V : after[n][v] = Append(v, n % 10)
    <3>1. n \in B <=> n < 10
      OBVIOUS
    <3>2. base[n] = <<n>> /\ below[n] = n \div 10
      OBVIOUS
    <3>3. after[n] = [v \in V |-> Append(v, n % 10)]
      OBVIOUS
    <3> QED BY <3>1, <3>2, <3>3
  <2> HIDE DEF B, base, below, after
  <2> QED BY <2>1, <2>3, <2>4
<1>5. f = [n \in Nat |-> IF n < 10 THEN <<n>> ELSE Append(f[n \div 10], n % 10)]
  BY <1>3, <1>4
<1> DEFINE Is(g) == g = [n \in Nat |-> IF n < 10 THEN <<n>> ELSE Append(g[n \div 10], n % 10)]
<1>6. Is(Text)
  <2>1. Text = CHOOSE g : Is(g)
    BY DEF Text
  <2>2. Is(f)
    BY <1>5
  <2> HIDE DEF Is
  <2> QED BY <2>1, <2>2
<1>7. \A n \in Nat : Text[n] = IF n < 10 THEN <<n>> ELSE Append(Text[n \div 10], n % 10)
  BY <1>6
<1> DEFINE N == {n \in Nat : \A k \in 0..n : Text[k] \in V}
<1>8. \A n \in Nat : n < 10 => Text[n] \in V
  <2>1. \A n \in Nat : n < 10 => <<n>> \in V
    BY DEF Digit
  <2> QED BY <1>7, <2>1
<1>9. ASSUME NEW n \in Nat, n \in N PROVE n + 1 \in N
  <2>1. ASSUME NEW k \in 0..(n + 1) PROVE Text[k] \in V
    <3>1. CASE k < 10
      BY <1>8, <3>1
    <3>2. CASE ~(k < 10)
      <4>1. k \in Nat /\ k \div 10 \in 0..(k - 1) /\ k % 10 \in Digit
        BY <1>0, <3>2
      <4>2. k \div 10 \in 0..n
        BY <4>1
      <4>3. Text[k \div 10] \in V
        BY <1>9, <4>2
      <4>4. Append(Text[k \div 10], k % 10) \in V
        BY <1>12, <4>1, <4>3
      <4>5. Text[k] = Append(Text[k \div 10], k % 10)
        BY <1>7, <3>2, <4>1
      <4> QED BY <4>4, <4>5
    <3> QED BY <3>1, <3>2
  <2>2. n + 1 \in Nat
    OBVIOUS
  <2> HIDE DEF V
  <2> QED BY <2>1, <2>2
<1>10. Nat \subseteq N
  <2>1. 0 \in N
    <3>1. \A k \in 0..0 : k \in Nat /\ k < 10
      OBVIOUS
    <3> HIDE DEF V
    <3> QED BY <1>8, <3>1
  <2> HIDE DEF N
  <2> QED BY <1>9, <2>1, NumbersInduction
<1>11. \A n \in Nat : Text[n] \in V
  <2>1. \A n \in Nat : n \in 0..n
    OBVIOUS
  <2> HIDE DEF V
  <2> QED BY <1>10, <2>1
<1>13. \A n \in Nat : (n < 10 => Text[n] = <<n>>) /\ (n >= 10 => Text[n] = Append(Text[n \div 10], n % 10))
  <2>1. \A n \in Nat : n >= 10 <=> ~(n < 10)
    OBVIOUS
  <2> QED BY <1>7, <2>1
<1> QED BY <1>11, <1>13

\* What DigitsOf keeps of the first i characters.
Kept(text, k) ==
    /\ k[0] = <<>> /\ DigitsOf(text) = k[Len(text)]
    /\ \A i \in 0..Len(text) : k[i] \in Seq(Digit)
    /\ \A i \in 0..(Len(text) - 1) :
          k[i + 1] = IF text[i + 1] \in Digit THEN Append(k[i], text[i + 1]) ELSE k[i]

\* The digits kept of the prefixes of a text exist as a function.
LEMMA DigitsEquation ==
    ASSUME NEW text, Len(text) \in Nat
    PROVE  \E k : Kept(text, k)
<1> DEFINE V == Seq(Digit)
           B == {0}
           base == [n \in Nat |-> <<>>]
           below == [n \in Nat |-> n - 1]
           after == [n \in Nat |-> [v \in V |-> IF text[n] \in Digit THEN Append(v, text[n]) ELSE v]]
           l == Len(text)
           Is(g) == g = [i \in 0..l |-> IF i = 0 THEN <<>>
                           ELSE IF text[i] \in Digit THEN Append(g[i - 1], text[i]) ELSE g[i - 1]]
<1>0. \A v \in V, c \in Digit : Append(v, c) \in V
  OBVIOUS
<1>1. /\ \A n \in Nat : n \in B => base[n] \in V
      /\ \A n \in Nat : n \notin B => below[n] \in 0..(n - 1)
      /\ \A n \in Nat : n \notin B => \A v \in V : after[n][v] \in V
  <2>1. <<>> \in V
    OBVIOUS
  <2> HIDE DEF V
  <2> QED BY <1>0, <2>1
<1>2. \E f \in [Nat -> V] : Recursive(f, Nat, B, base, below, after)
  <2> HIDE DEF V, B, base, below, after
  <2> QED BY <1>1, Recursion
<1>3. PICK f \in [Nat -> V] : Recursive(f, Nat, B, base, below, after)
  BY <1>2
<1> HIDE DEF V
<1>4. ASSUME NEW n \in Nat
      PROVE  /\ n = 0 => f[n] = <<>>
             /\ n # 0 => f[n] = IF text[n] \in Digit THEN Append(f[n - 1], text[n]) ELSE f[n - 1]
  <2>1. f[n] = IF n \in B THEN base[n] ELSE after[n][f[below[n]]]
    BY <1>3 DEF Recursive
  <2>2. n # 0 => n - 1 \in Nat /\ f[n - 1] \in V
    BY <1>3
  <2> QED BY <2>1, <2>2
<1> DEFINE g == [i \in 0..l |-> f[i]]
<1> HIDE DEF B, base, below, after
<1>5. Is(g)
  <2>1. \A i \in 0..l : i # 0 => i - 1 \in 0..l
    OBVIOUS
  <2>2. \A i \in 0..l : i \in Nat /\ (i # 0 => g[i - 1] = f[i - 1])
    BY <2>1
  <2>3. ASSUME NEW i \in 0..l
        PROVE  f[i] = IF i = 0 THEN <<>>
                      ELSE IF text[i] \in Digit THEN Append(g[i - 1], text[i]) ELSE g[i - 1]
    BY <1>4, <2>2
  <2>4. g = [i \in 0..l |-> f[i]]
    OBVIOUS
  <2> HIDE DEF g
  <2> QED BY <2>3, <2>4
<1> DEFINE k == CHOOSE k : Is(k)
<1>6. DigitsOf(text) = k[l]
  BY DEF DigitsOf
<1>7. Is(k)
  <2> HIDE DEF Is, g
  <2> QED BY <1>5
<1> HIDE DEF k, l
<1>8. l \in Nat
  BY DEF l
<1>9. /\ k[0] = <<>>
      /\ \A i \in 0..(l - 1) :
          k[i + 1] = IF text[i + 1] \in Digit THEN Append(k[i], text[i + 1]) ELSE k[i]
  <2>1. \A i \in 0..(l - 1) : i + 1 \in 0..l /\ i + 1 # 0 /\ (i + 1) - 1 = i
    BY <1>8
  <2>2. 0 \in 0..l
    BY <1>8
  <2> QED BY <1>7, <2>1, <2>2
<1> DEFINE N == {i \in 0..l : k[i] \in V}
<1>10. 0..l \subseteq N
  <2>1. 0 \in N
    <3>1. <<>> \in V
      BY DEF V
    <3> QED BY <1>8, <1>9, <3>1
  <2>2. ASSUME NEW i \in 0..(l - 1), i \in N PROVE i + 1 \in N
    <3>1. i + 1 \in 0..l
      BY <1>8
    <3> QED BY <1>0, <1>9, <2>2, <3>1
  <2> HIDE DEF N
  <2> QED BY <1>8, <2>1, <2>2, UpToInduction
<1>11. \A i \in 0..l : k[i] \in V
  BY <1>10
<1> QED BY <1>6, <1>9, <1>11 DEF Kept, l, V

\* The digits of any text are digits, and those of digits are all of them.
LEMMA DigitsAre ==
    /\ \A text : Len(text) \in Nat => DigitsOf(text) \in Seq(Digit)
    /\ \A text \in Seq(Digit) : DigitsOf(text) = text
<1>1. ASSUME NEW text, Len(text) \in Nat PROVE DigitsOf(text) \in Seq(Digit)
  <2>1. PICK k : Kept(text, k)
    BY <1>1, DigitsEquation
  <2>2. Len(text) \in 0..Len(text)
    BY <1>1
  <2> QED BY <2>1, <2>2 DEF Kept
<1>2. ASSUME NEW text \in Seq(Digit) PROVE DigitsOf(text) = text
  <2> DEFINE l == Len(text)
  <2>1. l \in Nat /\ \A i \in 1..l : text[i] \in Digit
    OBVIOUS
  <2>2. PICK k : Kept(text, k)
    BY <2>1, DigitsEquation
  <2> DEFINE N == {i \in 0..l : k[i] = SubSeq(text, 1, i)}
  <2>3. 0 \in N
    <3>1. SubSeq(text, 1, 0) = <<>>
      OBVIOUS
    <3> QED BY <2>1, <2>2, <3>1 DEF Kept
  <2>4. ASSUME NEW i \in 0..(l - 1), i \in N PROVE i + 1 \in N
    <3>1. i + 1 \in 1..l /\ i + 1 \in 0..l
      BY <2>1
    <3>2. k[i + 1] = Append(SubSeq(text, 1, i), text[i + 1])
      BY <2>1, <2>2, <2>4, <3>1 DEF Kept
    <3>3. SubSeq(text, 1, i + 1) = Append(SubSeq(text, 1, i), text[i + 1])
      BY <3>1
    <3> QED BY <3>1, <3>2, <3>3
  <2>5. l \in N
    <3>1. 0..l \subseteq N
      <4> HIDE DEF N, l
      <4> QED BY <2>1, <2>3, <2>4, UpToInduction
    <3>2. l \in 0..l
      BY <2>1
    <3> QED BY <3>1, <3>2
  <2>6. SubSeq(text, 1, l) = text
    OBVIOUS
  <2> QED BY <2>2, <2>5, <2>6 DEF Kept
<1> QED BY <1>1, <1>2

\* What holds of no digits, and of more digits by one if of some, holds of all.
LEMMA AppendInduction ==
    ASSUME NEW S, NEW N, <<>> \in N,
           \A s \in Seq(S), c \in S : s \in N => Append(s, c) \in N
    PROVE  Seq(S) \subseteq N
<1> SUFFICES ASSUME NEW s \in Seq(S) PROVE s \in N
  OBVIOUS
<1> DEFINE P == {i \in 0..Len(s) : SubSeq(s, 1, i) \in N}
<1>1. Len(s) \in Nat
  OBVIOUS
<1>2. 0 \in P
  <2>1. SubSeq(s, 1, 0) \in N
    <3>1. SubSeq(s, 1, 0) = <<>>
      OBVIOUS
    <3> QED BY ONLY <<>> \in N, <3>1, Zenon
  <2>2. 0 \in 0..Len(s)
    BY <1>1
  <2> QED BY ONLY <2>1, <2>2, Zenon
<1>3. ASSUME NEW i \in 0..(Len(s) - 1), i \in P PROVE i + 1 \in P
  <2>1. i + 1 \in 1..Len(s) /\ i + 1 \in 0..Len(s)
    BY <1>1
  <2>2. SubSeq(s, 1, i) \in Seq(S) /\ s[i + 1] \in S
    BY <2>1
  <2>3. SubSeq(s, 1, i + 1) = Append(SubSeq(s, 1, i), s[i + 1])
    BY <2>1
  <2> QED BY <1>3, <2>1, <2>2, <2>3
<1>4. Len(s) \in P
  <2>1. Len(s) \in 0..Len(s)
    BY <1>1
  <2> HIDE DEF P
  <2> QED BY <1>1, <1>2, <1>3, <2>1, UpToInduction
<1>5. SubSeq(s, 1, Len(s)) = s
  OBVIOUS
<1> QED BY <1>4, <1>5

-----------------------------------------------------------------------------
(* Numbers and their digits. *)

\* No digits read as zero, as Number("") does.
LEMMA NumberOfNone == Number(<<>>) = 0
<1> DEFINE f == [i \in DOMAIN <<>> |-> <<>>[i] * Tens[Len(<<>>) - i]]
<1>1. DOMAIN f = {}
  OBVIOUS
<1> HIDE DEF f
<1>2. SumFunction(f) = 0
  BY <1>1, SumOfNone DEF SumFunction
<1> QED BY <1>2 DEF Number, f

\* One more digit counts once, the others ten times as much as before.
LEMMA NumberAppend ==
    ASSUME NEW s \in Seq(Digit), NEW c \in Digit
    PROVE  /\ Number(s) \in Nat
           /\ Number(Append(s, c)) = 10 * Number(s) + c
<1> DEFINE n == Len(s)
           t == Append(s, c)
           f == [i \in 1..n |-> s[i] * Tens[n - i]]
           g == [i \in 1..(n + 1) |-> t[i] * Tens[n + 1 - i]]
<1>1. n \in Nat /\ DOMAIN s = 1..n /\ Len(t) = n + 1 /\ DOMAIN t = 1..(n + 1)
  BY DEF Digit
<1>2. t[n + 1] = c /\ \A i \in 1..n : t[i] = s[i] /\ s[i] \in Nat
  BY DEF Digit
<1>3. Number(s) = SumFunctionOnSet(f, 1..n) /\ Number(t) = SumFunctionOnSet(g, 1..(n + 1))
  <2>1. Number(s) = SumFunction(f) /\ Number(t) = SumFunction(g)
    BY <1>1 DEF Number
  <2>2. DOMAIN f = 1..n /\ DOMAIN g = 1..(n + 1)
    OBVIOUS
  <2> HIDE DEF f, g, n, t
  <2> QED BY <2>1, <2>2 DEF SumFunction
<1>4. ASSUME NEW i \in 1..n PROVE f[i] \in Nat /\ g[i] = 10 * f[i]
  <2>1. n - i \in Nat /\ n + 1 - i = (n - i) + 1 /\ i \in 1..(n + 1)
    BY <1>1
  <2>2. Tens[n - i] \in Nat /\ Tens[n + 1 - i] = 10 * Tens[n - i]
    BY <2>1, TensEquation
  <2>3. g[i] = t[i] * Tens[n + 1 - i] /\ t[i] = s[i] /\ s[i] \in Nat
    BY <1>2, <2>1
  <2>4. f[i] = s[i] * Tens[n - i]
    OBVIOUS
  <2> HIDE DEF f, g, n, t
  <2>5. PICK a \in Nat, b \in Nat : a = s[i] /\ b = Tens[n - i]
    BY <2>2, <2>3
  <2>6. a * b \in Nat /\ a * (10 * b) = 10 * (a * b)
    OBVIOUS
  <2> QED BY <2>2, <2>3, <2>4, <2>5, <2>6
<1>5. g[n + 1] = c /\ c \in Nat
  <2>1. n + 1 \in 1..(n + 1) /\ n + 1 - (n + 1) = 0 /\ c \in Nat
    BY <1>1 DEF Digit
  <2>2. g[n + 1] = t[n + 1] * Tens[n + 1 - (n + 1)]
    BY <2>1
  <2> HIDE DEF f, g, n, t
  <2>3. g[n + 1] = c * 1
    BY <1>2, <2>1, <2>2, TensEquation
  <2> QED BY <2>1, <2>3
<1>6. /\ IsFiniteSet(1..n) /\ n + 1 \notin 1..n
      /\ 1..(n + 1) = (1..n) \cup {n + 1}
  <2> HIDE DEF f, g, n, t
  <2>1. IsFiniteSet(1..n)
    BY <1>1, FS_Interval
  <2> QED BY <1>1, <2>1
<1> HIDE DEF f, g, n, t
<1>7. SumFunctionOnSet(f, 1..n) \in Nat
  BY <1>4, <1>6, SumType
<1>8. SumFunctionOnSet(g, 1..n) = 10 * SumFunctionOnSet(f, 1..n)
  BY <1>4, <1>6, SumScaled
<1>9. SumFunctionOnSet(g, (1..n) \cup {n + 1}) = SumFunctionOnSet(g, 1..n) + g[n + 1]
  <2>1. \A i \in 1..n : g[i] \in Nat
    BY <1>4
  <2>2. g[n + 1] \in Nat
    BY <1>5
  <2>3. PICK m : m = n + 1
    OBVIOUS
  <2>4. IsFiniteSet(1..n) /\ m \notin 1..n /\ g[m] \in Nat
    BY <1>6, <2>2, <2>3
  <2>5. SumFunctionOnSet(g, (1..n) \cup {m}) = SumFunctionOnSet(g, 1..n) + g[m]
    BY <2>1, <2>4, SumWith
  <2> QED BY <2>3, <2>5
<1> QED BY <1>3, <1>5, <1>6, <1>7, <1>8, <1>9 DEF t

\* Digits are a number of as many digits.
LEMMA NumberType ==
    \A s \in Seq(Digit) : Number(s) \in Nat /\ Number(s) < Tens[Len(s)]
<1> DEFINE N == {s \in Seq(Digit) : Number(s) \in Nat /\ Number(s) < Tens[Len(s)]}
<1>1. <<>> \in N
  BY NumberOfNone, TensEquation
<1>2. ASSUME NEW s \in Seq(Digit), NEW c \in Digit, s \in N PROVE Append(s, c) \in N
  <2>1. Len(Append(s, c)) = Len(s) + 1 /\ Len(s) \in Nat /\ Append(s, c) \in Seq(Digit)
    OBVIOUS
  <2>2. Tens[Len(s) + 1] = 10 * Tens[Len(s)] /\ Tens[Len(s)] \in Nat
    BY <2>1, TensEquation
  <2>3. Number(Append(s, c)) = 10 * Number(s) + c /\ c \in 0..9
    BY NumberAppend DEF Digit
  <2> QED BY <1>2, <2>1, <2>2, <2>3
<1> HIDE DEF N
<1>3. Seq(Digit) \subseteq N
  BY <1>1, <1>2, AppendInduction
<1> QED BY <1>3 DEF N

\* The digits a number is written with are that number.
LEMMA TextNumber == \A n \in Nat : Number(Text[n]) = n
<1> DEFINE N == {n \in Nat : \A k \in 0..n : Number(Text[k]) = k}
<1>1. \A n \in Nat : n < 10 => Number(Text[n]) = n
  <2> SUFFICES ASSUME NEW n \in Nat, n < 10 PROVE Number(<<n>>) = n
    BY TextEquation
  <2>1. PICK e : e = <<>>
    OBVIOUS
  <2>2. e \in Seq(Digit) /\ n \in Digit /\ Append(e, n) = <<n>>
    BY <2>1 DEF Digit
  <2>3. Number(Append(e, n)) = 10 * Number(e) + n
    BY <2>2, NumberAppend
  <2>4. Number(e) = 0
    BY <2>1, NumberOfNone, Zenon
  <2> QED BY <2>2, <2>3, <2>4
<1>2. \A n \in Nat : /\ n % 10 \in Digit /\ n = 10 * (n \div 10) + (n % 10)
                     /\ n >= 10 => n \div 10 \in 0..(n - 1)
  BY SMT DEF Digit
<1>3. ASSUME NEW n \in Nat, n \in N PROVE n + 1 \in N
  <2>1. ASSUME NEW k \in 0..(n + 1) PROVE Number(Text[k]) = k
    <3>1. CASE k < 10
      BY <1>1, <3>1
    <3>2. CASE k >= 10
      <4>1. k \in Nat /\ k \div 10 \in 0..(k - 1) /\ k % 10 \in Digit /\ k = 10 * (k \div 10) + (k % 10)
        BY <1>2, <3>2
      <4>2. k \div 10 \in 0..n /\ k \div 10 \in Nat
        BY <4>1
      <4>3. Number(Text[k \div 10]) = k \div 10 /\ Text[k \div 10] \in Seq(Digit)
        BY <1>3, <4>2, TextEquation
      <4>4. Number(Append(Text[k \div 10], k % 10)) = 10 * (k \div 10) + (k % 10)
        BY <4>1, <4>3, NumberAppend
      <4> QED BY <3>2, <4>1, <4>4, TextEquation
    <3> QED BY <3>1, <3>2
  <2> QED BY <2>1
<1>4. 0 \in N
  BY <1>1
<1> HIDE DEF N
<1>5. Nat \subseteq N
  BY <1>3, <1>4, NumbersInduction
<1>6. \A n \in Nat : n \in 0..n
  OBVIOUS
<1> QED BY <1>5, <1>6 DEF N

\* Zeros are nothing.
LEMMA NumberOfZeros ==
    \A s \in Seq(Digit) : (\A i \in 1..Len(s) : s[i] = 0) => Number(s) = 0
<1> DEFINE N == {s \in Seq(Digit) : (\A i \in 1..Len(s) : s[i] = 0) => Number(s) = 0}
<1>1. <<>> \in N
  BY NumberOfNone
<1>2. ASSUME NEW s \in Seq(Digit), NEW c \in Digit, s \in N PROVE Append(s, c) \in N
  <2>1. Append(s, c) \in Seq(Digit) /\ Len(s) \in Nat
    OBVIOUS
  <2>2. ASSUME \A i \in 1..Len(Append(s, c)) : Append(s, c)[i] = 0
        PROVE  Number(Append(s, c)) = 0
    <3>1. c = 0 /\ \A i \in 1..Len(s) : s[i] = 0
      BY <2>2
    <3>2. Number(s) = 0
      BY <1>2, <3>1
    <3>3. Number(Append(s, c)) = 10 * Number(s) + c
      BY NumberAppend
    <3> QED BY <3>1, <3>2, <3>3
  <2> QED BY <2>1, <2>2
<1> HIDE DEF N
<1>3. Seq(Digit) \subseteq N
  BY <1>1, <1>2, AppendInduction
<1> QED BY <1>3 DEF N

-----------------------------------------------------------------------------
(* The amount field. *)

\* A text over some characters is one over more.
LEMMA MoreCharacters == \A S, T : S \subseteq T => \A s \in Seq(S) : s \in Seq(T)
  BY SeqMonotonic

IsDotOf(text, d) ==
    /\ d \in 1..(Len(text) + 1)
    /\ d \in DOMAIN text => text[d] = Dot
    /\ \A i \in 1..(d - 1) : text[i] # Dot

\* Every text has one first dot, past its end if it has none.
LEMMA DotFound ==
    ASSUME NEW text \in Seq(Nat)
    PROVE  IsDotOf(text, DotOf(text)) /\ \A d : IsDotOf(text, d) => DotOf(text) = d
<1> DEFINE n == Len(text)
           S == {i \in 1..n : text[i] = Dot}
<1>1. n \in Nat /\ DOMAIN text = 1..n
  OBVIOUS
<1>2. \E d : IsDotOf(text, d)
  <2>1. CASE S = {}
    <3>1. IsDotOf(text, n + 1)
      BY <1>1, <2>1 DEF IsDotOf
    <3> QED BY <3>1
  <2>2. CASE S # {}
    <3>1. S \in SUBSET Nat
      BY <1>1
    <3> HIDE DEF S
    <3>2. PICK d \in S : \A i \in S : d <= i
      BY <2>2, <3>1, LeastNumber
    <3>3. d \in 1..n /\ text[d] = Dot
      BY DEF S
    <3>4. ASSUME NEW i \in 1..(d - 1) PROVE text[i] # Dot
      <4>1. i \in 1..n /\ ~(d <= i)
        BY <1>1, <3>3
      <4> QED BY <3>2, <4>1 DEF S
    <3>5. IsDotOf(text, d)
      BY <1>1, <3>3, <3>4 DEF IsDotOf
    <3> QED BY <3>5
  <2> QED BY <2>1, <2>2
<1>3. DotOf(text) = CHOOSE d \in 1..(Len(text) + 1) :
          (d \in DOMAIN text => text[d] = Dot) /\ \A i \in 1..(d - 1) : text[i] # Dot
  BY DEF DotOf
<1>4. IsDotOf(text, DotOf(text))
  BY <1>2, <1>3 DEF IsDotOf
<1>5. ASSUME NEW d, IsDotOf(text, d), NEW e, IsDotOf(text, e) PROVE ~(d < e)
  <2> SUFFICES ASSUME d < e PROVE FALSE
    OBVIOUS
  <2>1. d \in 1..(n + 1) /\ e \in 1..(n + 1)
    BY <1>5 DEF IsDotOf
  <2>2. d \in 1..n /\ d \in 1..(e - 1)
    BY <1>1, <2>1
  <2> QED BY <1>1, <1>5, <2>2 DEF IsDotOf
<1>6. ASSUME NEW d, IsDotOf(text, d) PROVE DotOf(text) = d
  <2>1. d \in 1..(n + 1) /\ DotOf(text) \in 1..(n + 1)
    BY <1>4, <1>6 DEF IsDotOf
  <2>2. ~(d < DotOf(text)) /\ ~(DotOf(text) < d)
    BY <1>4, <1>5, <1>6
  <2> QED BY <1>1, <2>1, <2>2
<1> QED BY <1>4, <1>6

\* Digits alone are all whole.
LEMMA PartsOfDigits ==
    ASSUME NEW w \in Seq(Digit)
    PROVE  DotOf(w) = Len(w) + 1 /\ Whole(w) = w /\ Fraction(w) = <<>>
<1>1. w \in Seq(Nat) /\ Len(w) \in Nat /\ DOMAIN w = 1..Len(w)
  <2>1. Digit \subseteq Nat
    BY DEF Digit
  <2>2. w \in Seq(Nat)
    BY <2>1, MoreCharacters
  <2> QED BY <2>2
<1>2. DotOf(w) = Len(w) + 1
  <2>1. \A i \in 1..Len(w) : w[i] # Dot
    BY DEF Digit, Dot
  <2>2. IsDotOf(w, Len(w) + 1)
    BY <1>1, <2>1 DEF IsDotOf
  <2> QED BY <1>1, <2>2, DotFound
<1>3. Whole(w) = w
  <2>1. (Len(w) + 1) - 1 = Len(w) /\ SubSeq(w, 1, Len(w)) = w
    BY <1>1
  <2> QED BY <1>2, <2>1, DigitsAre DEF Whole
<1>4. Fraction(w) = <<>>
  <2>1. SubSeq(w, (Len(w) + 1) + 1, Len(w)) = <<>>
    BY <1>1, SubSeqEmpty
  <2>2. <<>> \in Seq(Digit)
    OBVIOUS
  <2>3. DigitsOf(<<>>) = <<>>
    BY <2>2, DigitsAre
  <2> QED BY <1>2, <2>1, <2>3 DEF Fraction
<1> QED BY <1>2, <1>3, <1>4

\* Digits, a dot and digits are their whole and their fraction.
LEMMA PartsOfDecimal ==
    ASSUME NEW w \in Seq(Digit), NEW f \in Seq(Digit), NEW x, x = w \o (<<Dot>> \o f)
    PROVE  /\ DotOf(x) = Len(w) + 1 /\ Len(x) = Len(w) + 1 + Len(f)
           /\ Whole(x) = w /\ Fraction(x) = f
           /\ x \in Seq(Digit \cup {Dot})
<1> DEFINE C == Digit \cup {Dot}
<1>1. w \in Seq(C) /\ f \in Seq(C) /\ <<Dot>> \in Seq(C)
  BY SeqMonotonic
<1>2. Len(w) \in Nat /\ Len(f) \in Nat
  OBVIOUS
<1> HIDE DEF C
<1> DEFINE y == <<Dot>> \o f
<1>3. y \in Seq(C) /\ Len(y) = 1 + Len(f) /\ y[1] = Dot /\ \A i \in 1..Len(f) : y[i + 1] = f[i]
  <2>1. y \in Seq(C) /\ Len(y) = 1 + Len(f)
    BY <1>1, ConcatProperties
  <2>2. y[1] = Dot
    BY <1>1, <1>2, ConcatProperties
  <2>3. ASSUME NEW i \in 1..Len(f) PROVE y[i + 1] = f[i]
    <3>1. i + 1 \in 1..(1 + Len(f)) /\ (i + 1) - 1 = i /\ ~(i + 1 <= 1)
      BY <1>2
    <3> QED BY <1>1, <3>1, ConcatProperties
  <2> QED BY <2>1, <2>2, <2>3
<1> HIDE DEF y
<1>4. /\ x \in Seq(C) /\ Len(x) = Len(w) + 1 + Len(f)
      /\ \A i \in 1..Len(w) : x[i] = w[i]
      /\ x[Len(w) + 1] = Dot
      /\ \A i \in 1..Len(f) : x[Len(w) + 1 + i] = f[i]
  <2>0. x = w \o y
    BY DEF y
  <2>1. x \in Seq(C) /\ Len(x) = Len(w) + Len(y)
    BY <1>1, <1>3, <2>0, ConcatProperties
  <2>2. \A i \in 1..(Len(w) + Len(y)) : x[i] = IF i <= Len(w) THEN w[i] ELSE y[i - Len(w)]
    BY <1>1, <1>3, <2>0, ConcatProperties
  <2>3. \A i \in 1..Len(w) : x[i] = w[i]
    BY <1>2, <1>3, <2>2
  <2>4. x[Len(w) + 1] = Dot
    <3>1. /\ Len(w) + 1 \in 1..(Len(w) + Len(y)) /\ ~(Len(w) + 1 <= Len(w))
          /\ (Len(w) + 1) - Len(w) = 1
      BY <1>2, <1>3
    <3> QED BY <1>3, <2>2, <3>1
  <2>5. ASSUME NEW i \in 1..Len(f) PROVE x[Len(w) + 1 + i] = f[i]
    <3>1. /\ Len(w) + 1 + i \in 1..(Len(w) + Len(y)) /\ ~(Len(w) + 1 + i <= Len(w))
          /\ (Len(w) + 1 + i) - Len(w) = i + 1
      BY <1>2, <1>3
    <3> QED BY <1>3, <2>2, <3>1
  <2> QED BY <1>2, <1>3, <2>1, <2>3, <2>4, <2>5
<1>5. x \in Seq(Nat) /\ DOMAIN x = 1..Len(x)
  <2>1. C \subseteq Nat
    BY DEF C, Digit, Dot
  <2>2. x \in Seq(Nat)
    BY <1>4, <2>1, MoreCharacters
  <2> QED BY <2>2
<1>6. DotOf(x) = Len(w) + 1
  <2>1. ASSUME NEW i \in 1..((Len(w) + 1) - 1) PROVE x[i] # Dot
    <3>1. i \in 1..Len(w) /\ w[i] \in Digit
      BY <1>2
    <3> QED BY <1>4, <3>1 DEF Digit, Dot
  <2>2. Len(w) + 1 \in 1..(Len(x) + 1)
    BY <1>2, <1>4
  <2>3. IsDotOf(x, Len(w) + 1)
    BY <1>4, <2>1, <2>2 DEF IsDotOf
  <2> QED BY <1>5, <2>3, DotFound
<1>7. SubSeq(x, 1, Len(w)) = w
  <2> DEFINE s == SubSeq(x, 1, Len(w))
  <2>1. \A i \in 1..Len(w) : x[i] \in Digit
    BY <1>4
  <2>2. s \in Seq(Digit) /\ Len(s) = Len(w) /\ \A i \in 1..Len(w) : s[i] = x[i]
    BY <1>2, <2>1, SubSeqProperties
  <2> HIDE DEF s
  <2>3. \A i \in 1..Len(s) : s[i] = w[i]
    BY <1>4, <2>2
  <2>4. s = w
    BY <2>2, <2>3, SeqEqual
  <2> QED BY <2>4 DEF s
<1>8. SubSeq(x, Len(w) + 2, Len(x)) = f
  <2> DEFINE m == Len(w) + 2
             s == SubSeq(x, m, Len(x))
  <2>1. m \in Int /\ Len(x) \in Int /\ (m <= Len(x) => Len(x) - m + 1 = Len(f))
        /\ (~(m <= Len(x)) => Len(f) = 0) /\ Len(x) - m + 1 = Len(f)
    BY <1>2, <1>4
  <2>2. ASSUME NEW i \in m..Len(x) PROVE x[i] \in Digit
    <3>1. i - (Len(w) + 1) \in 1..Len(f) /\ Len(w) + 1 + (i - (Len(w) + 1)) = i
      BY <1>2, <1>4
    <3>2. x[i] = f[i - (Len(w) + 1)]
      BY <1>4, <3>1
    <3> QED BY <3>1, <3>2
  <2>3. ASSUME NEW i \in 1..Len(f) PROVE x[m + i - 1] = f[i]
    <3>1. m + i - 1 = Len(w) + 1 + i
      BY <1>2
    <3> QED BY <1>4, <3>1
  <2> HIDE DEF m
  <2>4. s \in Seq(Digit) /\ Len(s) = Len(f) /\ \A i \in 1..Len(f) : s[i] = x[m + i - 1]
    BY <2>1, <2>2, SubSeqProperties
  <2> HIDE DEF s
  <2>5. \A i \in 1..Len(s) : s[i] = f[i]
    BY <2>3, <2>4
  <2>6. s = f
    BY <2>4, <2>5, SeqEqual
  <2> QED BY <2>6 DEF s, m
<1>9. (Len(w) + 1) - 1 = Len(w) /\ (Len(w) + 1) + 1 = Len(w) + 2
  BY <1>2
<1>10. Whole(x) = w
  BY <1>6, <1>7, <1>9, DigitsAre DEF Whole
<1>11. Fraction(x) = f
  BY <1>6, <1>8, <1>9, DigitsAre DEF Fraction
<1> QED BY <1>4, <1>6, <1>10, <1>11 DEF C

\* The texts Sanitize makes: a whole number up to the cap, or one below it with a
\* fraction of at most so many digits.
Fractions == {f \in Seq(Digit) : Len(f) <= Decimals}
IsAmount(a) ==
    \/ \E n \in 0..Cap : a = Text[n]
    \/ \E n \in 0..(Cap - 1), f \in Fractions : a = Text[n] \o (<<Dot>> \o f)

\* Products of numbers grow with their factors.
LEMMA Monotonic ==
    \A m, n, u \in Nat : /\ m <= n => m * u <= n * u
                        /\ m * u \in Nat /\ (m + 1) * u = m * u + u
<1> SUFFICES ASSUME NEW m \in Nat, NEW n \in Nat, NEW u \in Nat
             PROVE  /\ m <= n => m * u <= n * u
                    /\ m * u \in Nat /\ (m + 1) * u = m * u + u
  OBVIOUS
<1>1. m * u \in Nat /\ (m + 1) * u = m * u + u
  OBVIOUS
<1>2. ASSUME m <= n PROVE m * u <= n * u
  <2>1. PICK d \in Nat : n = m + d
    <3>1. n - m \in Nat /\ n = m + (n - m)
      BY <1>2
    <3> QED BY <3>1
  <2>2. d * u \in Nat /\ n * u = m * u + d * u
    BY <2>1
  <2> QED BY <1>1, <2>2
<1> QED BY <1>1, <1>2

\* One wXRP is at least one base unit.
LEMMA UnitIsPositive == Unit \in Nat \ {0}
  BY FormAssumption, TensEquation DEF Unit

\* Whatever the text, its parts are digits.
LEMMA PartsAreDigits ==
    ASSUME NEW text \in Seq(Nat)
    PROVE  Whole(text) \in Seq(Digit) /\ Fraction(text) \in Seq(Digit)
<1> DEFINE n == Len(text)
           d == DotOf(text)
<1>1. n \in Nat /\ d \in 1..(n + 1)
  BY DotFound DEF IsDotOf
<1> HIDE DEF d
<1>2. Len(SubSeq(text, 1, d - 1)) \in Nat
  <2>1. d - 1 \in Int /\ 1 \in Int /\ \A i \in 1..(d - 1) : text[i] \in Nat
    <3>1. \A i \in 1..(d - 1) : i \in 1..n
      BY <1>1
    <3> QED BY <1>1, <3>1
  <2>2. SubSeq(text, 1, d - 1) \in Seq(Nat)
    BY <2>1, SubSeqProperties
  <2> QED BY <2>2
<1>3. Len(SubSeq(text, d + 1, n)) \in Nat
  <2>1. d + 1 \in Int /\ n \in Int /\ \A i \in (d + 1)..n : text[i] \in Nat
    <3>1. \A i \in (d + 1)..n : i \in 1..n
      BY <1>1
    <3> QED BY <1>1, <3>1
  <2>2. SubSeq(text, d + 1, n) \in Seq(Nat)
    BY <2>1, SubSeqProperties
  <2> QED BY <2>2
<1> QED BY <1>2, <1>3, DigitsAre DEF Whole, Fraction, d

\* The first n digits, or all if there are no more.
LEMMA Shortening ==
    ASSUME NEW s \in Seq(Digit), NEW n \in Nat
    PROVE  /\ Shortened(s, n) \in Seq(Digit)
           /\ Len(Shortened(s, n)) = IF Len(s) < n THEN Len(s) ELSE n
           /\ \A i \in 1..Len(Shortened(s, n)) : Shortened(s, n)[i] = s[i]
           /\ Len(s) <= n => Shortened(s, n) = s
<1> DEFINE m == IF Len(s) < n THEN Len(s) ELSE n
<1>1. Len(s) \in Nat /\ m \in 0..Len(s) /\ (Len(s) <= n => m = Len(s))
  OBVIOUS
<1>2. Shortened(s, n) = SubSeq(s, 1, m)
  BY DEF Shortened
<1>3. m = IF Len(s) < n THEN Len(s) ELSE n
  OBVIOUS
<1> HIDE DEF m
<1>4. m \in Int /\ 1 \in Int /\ \A i \in 1..m : s[i] \in Digit
  BY <1>1
<1>5. /\ SubSeq(s, 1, m) \in Seq(Digit) /\ Len(SubSeq(s, 1, m)) = m
      /\ \A i \in 1..m : SubSeq(s, 1, m)[i] = s[i]
  BY <1>1, <1>4, SubSeqProperties
<1>6. SubSeq(s, 1, Len(s)) = s
  OBVIOUS
<1> QED BY <1>1, <1>2, <1>3, <1>5, <1>6

\* Whatever the text, sanitizeAmountInput makes of it nothing or an amount.
LEMMA SanitizeMakesAmounts ==
    \A text \in Seq(Nat) : Sanitize(text) = <<>> \/ IsAmount(Sanitize(text))
<1> SUFFICES ASSUME NEW text \in Seq(Nat), ~(Number(Whole(text)) >= Infinite)
             PROVE  IsAmount(Sanitize(text))
  BY DEF Sanitize, Capped
<1> DEFINE n == Number(Whole(text))
           f == Shortened(Fraction(text), Decimals)
<1>1. n \in Nat
  BY PartsAreDigits, NumberType
<1>2. f \in Fractions
  <2>1. Fraction(text) \in Seq(Digit) /\ Decimals \in Nat
    BY PartsAreDigits, FormAssumption
  <2>2. f \in Seq(Digit) /\ Len(f) = IF Len(Fraction(text)) < Decimals THEN Len(Fraction(text)) ELSE Decimals
    BY <2>1, Shortening
  <2>3. Len(Fraction(text)) \in Nat
    BY <2>1
  <2> QED BY <2>1, <2>2, <2>3 DEF Fractions
<1>3. /\ n >= Cap => Sanitize(text) = Text[Cap]
      /\ ~(n >= Cap) /\ DotOf(text) > Len(text) => Sanitize(text) = Text[n] \o <<>>
      /\ ~(n >= Cap) /\ ~(DotOf(text) > Len(text)) => Sanitize(text) = Text[n] \o (<<Dot>> \o f)
  BY DEF Sanitize, Capped
<1> HIDE DEF n, f
<1>4. Cap \in Nat /\ Cap \in 0..Cap
  BY FormAssumption
<1>5. Text[n] \o <<>> = Text[n]
  BY <1>1, TextEquation, ConcatEmptySeq
<1>6. ~(n >= Cap) => n \in 0..Cap /\ n \in 0..(Cap - 1)
  BY <1>1, <1>4
<1>7. CASE n >= Cap
  BY <1>3, <1>4, <1>7 DEF IsAmount
<1>8. CASE ~(n >= Cap) /\ DotOf(text) > Len(text)
  BY <1>3, <1>5, <1>6, <1>8 DEF IsAmount
<1>9. CASE ~(n >= Cap) /\ ~(DotOf(text) > Len(text))
  BY <1>2, <1>3, <1>6, <1>9 DEF IsAmount
<1> QED BY <1>7, <1>8, <1>9

\* A fraction with zeros for the decimals it does not have.
Padded(f) == Shortened(f \o [i \in 1..Decimals |-> 0], Decimals)

\* A fraction filled up with zeros has all decimals, and is less than one wXRP.
LEMMA Padding ==
    ASSUME NEW f \in Fractions
    PROVE  /\ Padded(f) \in Seq(Digit) /\ Len(Padded(f)) = Decimals
           /\ \A i \in 1..Decimals : Padded(f)[i] = IF i <= Len(f) THEN f[i] ELSE 0
           /\ Number(Padded(f)) \in Nat /\ Number(Padded(f)) < Unit
<1> DEFINE z == [i \in 1..Decimals |-> 0]
<1>1. Decimals \in Nat /\ f \in Seq(Digit) /\ Len(f) \in Nat /\ Len(f) <= Decimals
  BY FormAssumption DEF Fractions
<1>2. z \in Seq(Digit) /\ Len(z) = Decimals /\ \A i \in 1..Decimals : z[i] = 0
  <2>1. \A i \in 1..Decimals : 0 \in Digit
    BY DEF Digit
  <2> QED BY <1>1, <2>1
<1> HIDE DEF z
<1>3. /\ f \o z \in Seq(Digit) /\ Len(f \o z) = Len(f) + Decimals
      /\ \A i \in 1..(Len(f) + Decimals) : (f \o z)[i] = IF i <= Len(f) THEN f[i] ELSE z[i - Len(f)]
  BY <1>1, <1>2, ConcatProperties
<1>4. Padded(f) = Shortened(f \o z, Decimals)
  BY DEF Padded, z
<1>5. /\ Padded(f) \in Seq(Digit) /\ Len(Padded(f)) = Decimals
      /\ \A i \in 1..Decimals : Padded(f)[i] = (f \o z)[i]
  <2>1. PICK x : x = f \o z
    OBVIOUS
  <2>2. x \in Seq(Digit) /\ Len(x) \in Nat /\ Len(x) >= Decimals
    BY <1>1, <1>3, <2>1
  <2>3. /\ Shortened(x, Decimals) \in Seq(Digit) /\ Len(Shortened(x, Decimals)) = Decimals
        /\ \A i \in 1..Decimals : Shortened(x, Decimals)[i] = x[i]
    BY <1>1, <2>2, Shortening
  <2> QED BY <1>4, <2>1, <2>3
<1>6. ASSUME NEW i \in 1..Decimals PROVE Padded(f)[i] = IF i <= Len(f) THEN f[i] ELSE 0
  <2>1. i \in 1..(Len(f) + Decimals) /\ (~(i <= Len(f)) => i - Len(f) \in 1..Decimals)
    BY <1>1
  <2> QED BY <1>2, <1>3, <1>5, <2>1
<1>7. Number(Padded(f)) \in Nat /\ Number(Padded(f)) < Unit
  BY <1>5, NumberType DEF Unit
<1> QED BY <1>5, <1>6, <1>7

\* What the amounts are read as.
LEMMA AmountsParse ==
    /\ \A n \in Nat : Parse(Text[n]) = n * Unit
    /\ \A n \in Nat, f \in Fractions :
          Parse(Text[n] \o (<<Dot>> \o f)) = n * Unit + Number(Padded(f))
<1>1. ASSUME NEW n \in Nat PROVE Parse(Text[n]) = n * Unit
  <2>1. Text[n] \in Seq(Digit) /\ Text[n] # <<>> /\ Number(Text[n]) = n
    BY TextEquation, TextNumber
  <2>2. Whole(Text[n]) = Text[n] /\ Fraction(Text[n]) = <<>>
    BY <2>1, PartsOfDigits
  <2>3. PICK e \in Fractions : e = <<>>
    <3>1. PICK e : e = <<>>
      OBVIOUS
    <3>2. e \in Seq(Digit) /\ Len(e) = 0 /\ 0 <= Decimals
      BY <3>1, FormAssumption
    <3>3. e \in Fractions
      BY <3>2 DEF Fractions
    <3> QED BY <3>1, <3>3
  <2>4. Number(Padded(e)) = 0
    <3>1. Len(e) = 0
      BY <2>3
    <3>2. \A i \in 1..Decimals : ~(i <= 0)
      BY FormAssumption
    <3>3. /\ Padded(e) \in Seq(Digit) /\ Len(Padded(e)) = Decimals
          /\ \A i \in 1..Decimals : Padded(e)[i] = IF i <= Len(e) THEN e[i] ELSE 0
      BY Padding
    <3> QED BY <3>1, <3>2, <3>3, NumberOfZeros
  <2>5. Parse(Text[n]) = n * Unit + Number(Padded(e))
    BY <2>1, <2>2, <2>3 DEF Parse, Padded
  <2>6. n * Unit \in Nat
    BY UnitIsPositive
  <2> QED BY <2>4, <2>5, <2>6
<1>2. ASSUME NEW n \in Nat, NEW f \in Fractions
      PROVE  Parse(Text[n] \o (<<Dot>> \o f)) = n * Unit + Number(Padded(f))
  <2>1. PICK x : x = Text[n] \o (<<Dot>> \o f)
    OBVIOUS
  <2>2. Text[n] \in Seq(Digit) /\ Text[n] # <<>> /\ Number(Text[n]) = n /\ f \in Seq(Digit)
    BY TextEquation, TextNumber DEF Fractions
  <2>3. Whole(x) = Text[n] /\ Fraction(x) = f
    BY <2>1, <2>2, PartsOfDecimal
  <2>4. Parse(x) = n * Unit + Number(Padded(f))
    BY <2>2, <2>3 DEF Parse, Padded
  <2> QED BY <2>1, <2>4
<1> QED BY <1>1, <1>2

\* An amount stays what it is, and is read as one up to the cap.
LEMMA AmountsAreFine ==
    ASSUME NEW a, IsAmount(a)
    PROVE  /\ a \in Seq(Digit \cup {Dot})
           /\ Parse(a) \in 0..(Cap * Unit)
           /\ Len(Fraction(a)) <= Decimals
           /\ Sanitize(a) = a
<1>1. Cap \in Nat /\ Decimals \in Nat /\ Unit \in Nat
  BY FormAssumption, UnitIsPositive
<1>2. ASSUME NEW n \in 0..Cap, a = Text[n] PROVE
         /\ a \in Seq(Digit \cup {Dot})
         /\ Parse(a) \in 0..(Cap * Unit)
         /\ Len(Fraction(a)) <= Decimals
         /\ Sanitize(a) = a
  <2>1. n \in Nat /\ a \in Seq(Digit) /\ Number(a) = n
    BY <1>1, <1>2, TextEquation, TextNumber
  <2>2. DotOf(a) = Len(a) + 1 /\ Whole(a) = a /\ Fraction(a) = <<>> /\ Len(a) \in Nat
    BY <2>1, PartsOfDigits
  <2>3. a \in Seq(Digit \cup {Dot})
    <3>1. Digit \subseteq Digit \cup {Dot}
      OBVIOUS
    <3> QED BY <2>1, <3>1, MoreCharacters
  <2>4. Parse(a) \in 0..(Cap * Unit)
    <3>1. Parse(a) = n * Unit
      BY <1>2, <2>1, AmountsParse
    <3>2. n * Unit \in Nat /\ n * Unit <= Cap * Unit /\ Cap * Unit \in Nat
      BY <1>1, <2>1, Monotonic
    <3> QED BY <3>1, <3>2
  <2>5. Len(Fraction(a)) <= Decimals
    <3>1. Len(<<>>) = 0
      OBVIOUS
    <3> QED BY <1>1, <2>2, <3>1
  <2>6. Sanitize(a) = a
    <3>1. a \o <<>> = a
      BY <2>1, ConcatEmptySeq
    <3>2. (n >= Cap => n = Cap) /\ ~(n >= Infinite)
      BY <1>1, FormAssumption
    <3>3. DotOf(a) > Len(a)
      BY <2>2
    <3> QED BY <1>2, <2>1, <2>2, <3>1, <3>2, <3>3 DEF Sanitize, Capped
  <2> QED BY <2>3, <2>4, <2>5, <2>6
<1>3. ASSUME NEW n \in 0..(Cap - 1), NEW f \in Fractions, a = Text[n] \o (<<Dot>> \o f) PROVE
         /\ a \in Seq(Digit \cup {Dot})
         /\ Parse(a) \in 0..(Cap * Unit)
         /\ Len(Fraction(a)) <= Decimals
         /\ Sanitize(a) = a
  <2>1. /\ n \in Nat /\ Text[n] \in Seq(Digit) /\ Number(Text[n]) = n
        /\ f \in Seq(Digit) /\ Len(f) \in Nat /\ Len(f) <= Decimals /\ Len(Text[n]) \in Nat
    BY <1>1, TextEquation, TextNumber DEF Fractions
  <2>2. /\ DotOf(a) = Len(Text[n]) + 1 /\ Len(a) = Len(Text[n]) + 1 + Len(f)
        /\ Whole(a) = Text[n] /\ Fraction(a) = f /\ a \in Seq(Digit \cup {Dot})
    <3> DEFINE w == Text[n]
    <3>1. w \in Seq(Digit) /\ f \in Seq(Digit) /\ a = w \o (<<Dot>> \o f)
      BY <1>3, <2>1
    <3> HIDE DEF w
    <3>2. /\ DotOf(a) = Len(w) + 1 /\ Len(a) = Len(w) + 1 + Len(f)
          /\ Whole(a) = w /\ Fraction(a) = f /\ a \in Seq(Digit \cup {Dot})
      BY <3>1, PartsOfDecimal
    <3> QED BY <3>2 DEF w
  <2>4. Parse(a) \in 0..(Cap * Unit)
    <3>1. Parse(a) = n * Unit + Number(Padded(f))
      BY <1>3, <2>1, AmountsParse
    <3>2. Number(Padded(f)) \in Nat /\ Number(Padded(f)) < Unit
      BY Padding
    <3>3. n + 1 \in Nat /\ n + 1 <= Cap
      BY <1>1
    <3>4. (n + 1) * Unit <= Cap * Unit /\ n * Unit \in Nat /\ (n + 1) * Unit = n * Unit + Unit
          /\ Cap * Unit \in Nat
      BY <1>1, <2>1, <3>3, Monotonic
    <3> QED BY <1>1, <3>1, <3>2, <3>4
  <2>6. Sanitize(a) = a
    <3>1. Shortened(f, Decimals) = f
      BY <1>1, <2>1, Shortening
    <3>2. ~(n >= Cap) /\ ~(DotOf(a) > Len(a)) /\ ~(n >= Infinite)
      BY <1>1, <2>1, <2>2, FormAssumption
    <3> QED BY <1>3, <2>1, <2>2, <3>1, <3>2 DEF Sanitize, Capped
  <2> QED BY <2>1, <2>2, <2>4, <2>6
<1> QED BY <1>2, <1>3 DEF IsAmount

\* The quotient of a number that is written as one.
LEMMA DivisionIs ==
    \A m \in Nat \ {0} : \A a \in Nat, s \in 0..(m - 1), u \in Nat : u = m * a + s => u \div m = a
<1> SUFFICES ASSUME NEW m \in Nat \ {0}, NEW a \in Nat, NEW s \in 0..(m - 1), NEW u \in Nat,
                    u = m * a + s
             PROVE  u \div m = a
  OBVIOUS
<1> DEFINE q == u \div m
           r == u % m
<1>1. q \in Nat /\ r \in 0..(m - 1) /\ u = m * q + r
  BY SMT
<1> HIDE DEF q, r
<1>2. CASE q < a
  <2>1. PICK d \in Nat : a = q + 1 + d
    <3>1. a - q - 1 \in Nat /\ a = q + 1 + (a - q - 1)
      BY <1>1, <1>2
    <3> QED BY <3>1
  <2>2. m * a = m * q + m + m * d /\ m * d \in Nat /\ m * q \in Nat
    BY <1>1, <2>1
  <2> QED BY <1>1, <2>2
<1>3. CASE a < q
  <2>1. PICK d \in Nat : q = a + 1 + d
    <3>1. q - a - 1 \in Nat /\ q = a + 1 + (q - a - 1)
      BY <1>1, <1>3
    <3> QED BY <3>1
  <2>2. m * q = m * a + m + m * d /\ m * d \in Nat /\ m * a \in Nat
    BY <1>1, <2>1
  <2> QED BY <1>1, <2>2
<1>4. q = a
  BY <1>1, <1>2, <1>3
<1> QED BY <1>4 DEF q

-----------------------------------------------------------------------------
(* A number of base units, shown. *)

\* Division by ten times t, by t first: the next digit is what is between.
LEMMA NestedDivision ==
    \A u \in Nat, t \in Nat \ {0} :
        u \div t \in Nat /\ u \div t = 10 * (u \div (10 * t)) + ((u \div t) % 10)
<1> SUFFICES ASSUME NEW u \in Nat, NEW t \in Nat \ {0}
             PROVE  u \div t \in Nat /\ u \div t = 10 * (u \div (10 * t)) + ((u \div t) % 10)
  OBVIOUS
<1> DEFINE q == u \div t
           r == u % t
           a == q \div 10
           b == q % 10
<1>1. q \in Nat /\ r \in 0..(t - 1) /\ u = t * q + r
  BY SMT
<1>2. a \in Nat /\ b \in 0..9 /\ q = 10 * a + b
  <2> HIDE DEF q
  <2> QED BY <1>1, SMT
<1>3. t * b \in Nat /\ t * b + r < 10 * t /\ t * b + r >= 0
  <2> HIDE DEF a, b, q, r
  <2>1. \E k \in Nat : k = 9 - b
    BY <1>2
  <2>2. PICK k \in Nat : b + k = 9
    BY <1>2, <2>1
  <2>3. t * b \in Nat /\ t * k \in Nat /\ t * (b + k) = t * b + t * k
    BY <1>2
  <2>4. t * 9 = t * b + t * k
    BY <2>2, <2>3
  <2> QED BY <1>1, <2>3, <2>4
<1>4. u = (10 * t) * a + (t * b + r)
  <2> HIDE DEF a, b, q, r
  <2>1. t * q = t * (10 * a) + t * b
    BY <1>1, <1>2
  <2>2. t * (10 * a) = (10 * t) * a /\ t * q \in Nat /\ (10 * t) * a \in Nat
    BY <1>1, <1>2
  <2>3. PICK x \in Nat, y \in Nat, z \in Nat : x = t * q /\ y = (10 * t) * a /\ z = t * b
    BY <1>3, <2>2
  <2>4. x = y + z /\ u = x + r
    BY <1>1, <2>1, <2>2, <2>3
  <2>5. u = y + (z + r)
    BY <1>1, <2>4
  <2> QED BY <2>3, <2>5
<1>5. u \div (10 * t) = a
  <2> HIDE DEF a, b, q, r
  <2> DEFINE m == 10 * t
             s == t * b + r
  <2>1. m \in Nat \ {0} /\ s \in 0..(m - 1) /\ u = m * a + s
    BY <1>1, <1>3, <1>4
  <2> HIDE DEF m, s
  <2>2. u \div m = a
    BY <1>2, <2>1, DivisionIs
  <2> QED BY <2>2 DEF m
<1> QED BY <1>1, <1>2, <1>5

\* A set of numbers up to n has a greatest one.
LEMMA GreatestNumber ==
    ASSUME NEW n \in Nat, NEW S \in SUBSET (1..n), S # {}
    PROVE  \E x \in S : \A y \in S : y <= x
<1> DEFINE T == {n - x : x \in S}
<1>1. T \in SUBSET Nat /\ T # {}
  <2>1. \A x \in S : n - x \in Nat
    OBVIOUS
  <2>2. T \in SUBSET Nat
    BY <2>1
  <2> QED BY <2>2
<1>2. PICK t \in T : \A y \in T : t <= y
  <2> HIDE DEF T
  <2> QED BY <1>1, LeastNumber
<1>3. PICK x \in S : t = n - x
  OBVIOUS
<1>4. ASSUME NEW y \in S PROVE y <= x
  <2>1. n - x <= n - y
    BY <1>2, <1>3
  <2>2. x \in 1..n /\ y \in 1..n
    OBVIOUS
  <2> QED BY <2>1, <2>2
<1> QED BY <1>4

\* The prefixes of a text, each a character longer than the one before.
LEMMA Prefixes ==
    \A s \in Seq(Digit) :
        /\ SubSeq(s, 1, Len(s)) = s
        /\ \A i \in 0..(Len(s) - 1) :
              /\ SubSeq(s, 1, i) \in Seq(Digit)
              /\ SubSeq(s, 1, i + 1) = Append(SubSeq(s, 1, i), s[i + 1])
  OBVIOUS

\* The decimals are what the whole leaves of the base units.
LEMMA DecimalsNumber ==
    ASSUME NEW u \in Nat,
           NEW s, s = [i \in 1..Decimals |-> (u \div Tens[Decimals - i]) % 10]
    PROVE  /\ s \in Seq(Digit) /\ Len(s) = Decimals
           /\ u \div Unit \in Nat /\ Number(s) = u - (u \div Unit) * Unit
<1> DEFINE q == u \div Unit
           N == {i \in 0..Decimals :
                   Number(SubSeq(s, 1, i)) = (u \div Tens[Decimals - i]) - q * Tens[i]}
<1>1. Decimals \in Nat
  BY FormAssumption
<1>2. \A i \in 0..Decimals : Decimals - i \in Nat /\ Tens[Decimals - i] \in Nat \ {0}
  BY <1>1, TensEquation
<1>3. \A i \in 0..Decimals : u \div Tens[Decimals - i] \in Nat
  BY <1>2, NestedDivision
<1>4. \A i \in 1..Decimals : s[i] = (u \div Tens[Decimals - i]) % 10 /\ s[i] \in Digit
  <2>1. \A x \in Nat : x % 10 \in Digit
    BY SMT DEF Digit
  <2>2. \A i \in 1..Decimals : i \in 0..Decimals
    OBVIOUS
  <2> QED BY <1>3, <2>1, <2>2
<1>5. s \in Seq(Digit) /\ Len(s) = Decimals
  <2>1. s \in [1..Decimals -> Digit]
    BY <1>4
  <2> QED BY <1>1, <2>1
<1>6. q \in Nat /\ q = u \div Tens[Decimals]
  <2>1. 0 \in 0..Decimals /\ Decimals - 0 = Decimals
    BY <1>1
  <2> QED BY <1>3, <2>1 DEF Unit
<1> HIDE DEF q
<1>7. 0 \in N
  <2>1. SubSeq(s, 1, 0) = <<>>
    BY <1>5
  <2>2. 0 \in 0..Decimals /\ Decimals - 0 = Decimals
    BY <1>1
  <2>3. Number(SubSeq(s, 1, 0)) = 0
    BY <2>1, NumberOfNone
  <2>4. (u \div Tens[Decimals - 0]) - q * Tens[0] = 0
    BY <1>6, <2>2, TensEquation
  <2> QED BY <2>2, <2>3, <2>4
<1>8. ASSUME NEW i \in 0..(Decimals - 1), i \in N PROVE i + 1 \in N
  <2> DEFINE t == Tens[Decimals - (i + 1)]
             x == SubSeq(s, 1, i)
  <2>1. i + 1 \in 1..Decimals /\ i + 1 \in 0..Decimals /\ i \in Nat /\ i \in 0..Decimals
    BY <1>1
  <2>2. t \in Nat \ {0} /\ Tens[Decimals - i] = 10 * t
    <3>1. Decimals - (i + 1) \in Nat /\ Decimals - i = (Decimals - (i + 1)) + 1
      BY <1>1, <2>1
    <3> QED BY <3>1, TensEquation
  <2>3. u \div t = 10 * (u \div Tens[Decimals - i]) + ((u \div t) % 10) /\ u \div t \in Nat
    <3> HIDE DEF t
    <3> QED BY <2>2, NestedDivision
  <2>4. SubSeq(s, 1, i + 1) = Append(x, s[i + 1]) /\ x \in Seq(Digit)
    <3>1. i \in 0..(Len(s) - 1)
      BY <1>5
    <3> QED BY <1>5, <3>1, Prefixes
  <2>5. Number(SubSeq(s, 1, i + 1)) = 10 * Number(x) + s[i + 1]
    <3> HIDE DEF x
    <3> QED BY <1>4, <2>1, <2>4, NumberAppend
  <2>6. Number(x) = (u \div Tens[Decimals - i]) - q * Tens[i]
    BY <1>8
  <2>7. q * Tens[i] \in Nat /\ q * Tens[i + 1] = 10 * (q * Tens[i])
    <3>1. Tens[i] \in Nat /\ Tens[i + 1] = 10 * Tens[i]
      BY <2>1, TensEquation
    <3>2. PICK z \in Nat : z = Tens[i]
      BY <3>1
    <3>3. q * z \in Nat /\ q * (10 * z) = 10 * (q * z)
      BY <1>6
    <3> QED BY <3>1, <3>2, <3>3
  <2>8. s[i + 1] = (u \div t) % 10 /\ s[i + 1] \in Nat
    BY <1>4, <2>1 DEF Digit
  <2>9. Number(SubSeq(s, 1, i + 1)) = (u \div t) - q * Tens[i + 1]
    <3>1. u \div Tens[Decimals - i] \in Nat
      BY <1>3, <2>1
    <3>2. PICK a \in Nat, b \in Nat, c \in Nat, d \in Nat :
             /\ a = u \div Tens[Decimals - i] /\ b = q * Tens[i]
             /\ c = s[i + 1] /\ d = u \div t
      BY <2>3, <2>7, <2>8, <3>1
    <3>3. d = 10 * a + c
      BY <2>3, <2>8, <3>2
    <3>4. Number(SubSeq(s, 1, i + 1)) = 10 * (a - b) + c
      BY <2>5, <2>6, <3>2
    <3>5. 10 * (a - b) + c = d - 10 * b
      BY <3>3
    <3> QED BY <2>7, <3>2, <3>4, <3>5
  <2> QED BY <2>1, <2>9
<1>9. Decimals \in N
  <2>1. Decimals \in 0..Decimals
    BY <1>1
  <2> HIDE DEF N
  <2> QED BY <1>1, <1>7, <1>8, <2>1, UpToInduction
<1>10. Number(s) = u - q * Unit
  <2>1. SubSeq(s, 1, Decimals) = s
    BY <1>5, Prefixes
  <2>2. Decimals - Decimals = 0 /\ u \div 1 = u
    BY <1>1, SMT
  <2>3. u \div Tens[Decimals - Decimals] = u
    BY <2>2, TensEquation
  <2> QED BY <1>9, <2>1, <2>3 DEF Unit
<1> QED BY <1>5, <1>6, <1>10 DEF q

\* What is shown of base units: the whole, and the fraction without its last zeros.
LEMMA ShownParts ==
    ASSUME NEW u \in Nat
    PROVE  /\ u \div Unit \in Nat
           /\ \E f \in Fractions :
                 /\ Number(Padded(f)) = u - (u \div Unit) * Unit
                 /\ \/ Shown(u) = Text[u \div Unit] \o (<<Dot>> \o f)
                    \/ Shown(u) = Text[u \div Unit] /\ u = (u \div Unit) * Unit
<1> DEFINE s == [i \in 1..Decimals |-> (u \div Tens[Decimals - i]) % 10]
           used == {i \in 1..Decimals : s[i] # 0}
           last == IF used = {} THEN 0 ELSE CHOOSE i \in used : \A j \in used : j <= i
           q == u \div Unit
           f == SubSeq(s, 1, last)
<1>1. Shown(u) = Text[q] \o (IF used = {} THEN <<>> ELSE <<Dot>> \o f)
  BY DEF Shown
<1>2. /\ s \in Seq(Digit) /\ Len(s) = Decimals
      /\ q \in Nat /\ Number(s) = u - q * Unit
  BY DecimalsNumber
<1>3. Decimals \in Nat /\ Unit \in Nat
  BY FormAssumption, UnitIsPositive
<1> HIDE DEF s, q
<1>4. last \in 0..Decimals /\ \A i \in 1..Decimals : ~(i <= last) => s[i] = 0
  <2>1. CASE used = {}
    BY <1>3, <2>1
  <2>2. CASE used # {}
    <3>1. \E i \in used : \A j \in used : j <= i
      <4>1. used \in SUBSET (1..Decimals)
        OBVIOUS
      <4> HIDE DEF used
      <4> QED BY <1>3, <2>2, <4>1, GreatestNumber
    <3>2. last \in used /\ \A j \in used : j <= last
      <4> HIDE DEF used
      <4> QED BY <2>2, <3>1
    <3> QED BY <1>3, <3>2
  <2> QED BY <2>1, <2>2
<1> HIDE DEF used, last
<1>5. f \in Seq(Digit) /\ Len(f) = last /\ \A i \in 1..last : f[i] = s[i]
  <2>1. \A i \in 1..last : s[i] \in Digit
    BY <1>2, <1>3, <1>4
  <2>2. 1 \in Int /\ last \in Int /\ last \in Nat
    BY <1>4
  <2> QED BY <2>1, <2>2, SubSeqProperties
<1> HIDE DEF f
<1>6. f \in Fractions
  BY <1>3, <1>4, <1>5 DEF Fractions
<1>7. Padded(f) = s
  <2>1. /\ Padded(f) \in Seq(Digit) /\ Len(Padded(f)) = Decimals
        /\ \A i \in 1..Decimals : Padded(f)[i] = IF i <= Len(f) THEN f[i] ELSE 0
    BY <1>6, Padding
  <2>2. ASSUME NEW i \in 1..Decimals PROVE Padded(f)[i] = s[i]
    <3>1. i <= last => i \in 1..last
      BY <1>4
    <3> QED BY <1>4, <1>5, <2>1, <3>1
  <2> QED BY <1>2, <2>1, <2>2, SeqEqual
<1>8. CASE used = {}
  <2>1. Text[q] \o <<>> = Text[q]
    BY <1>2, TextEquation, ConcatEmptySeq
  <2>2. \A i \in 1..Len(s) : s[i] = 0
    BY <1>2, <1>8 DEF used
  <2>3. Number(s) = 0
    BY <1>2, <2>2, NumberOfZeros
  <2>4. q * Unit \in Nat
    BY <1>2, <1>3
  <2>5. u = q * Unit
    BY <1>2, <2>3, <2>4
  <2> QED BY <1>1, <1>2, <1>6, <1>7, <1>8, <2>1, <2>5 DEF q
<1>9. CASE used # {}
  BY <1>1, <1>2, <1>6, <1>7, <1>9 DEF q
<1> QED BY <1>8, <1>9

\* MAX: what is shown of base units up to the cap is read as all of them.
LEMMA ShownIsRead ==
    \A u \in 0..(Cap * Unit) : IsAmount(Sanitize(Shown(u))) /\ Parse(Sanitize(Shown(u))) = u
<1> SUFFICES ASSUME NEW u \in 0..(Cap * Unit)
             PROVE  IsAmount(Sanitize(Shown(u))) /\ Parse(Sanitize(Shown(u))) = u
  OBVIOUS
<1> DEFINE q == u \div Unit
<1>1. Cap \in Nat \ {0} /\ Unit \in Nat \ {0} /\ u \in Nat
  BY FormAssumption, UnitIsPositive
<1>2. q \in Nat
  BY <1>1, ShownParts
<1>3. PICK f \in Fractions :
         /\ Number(Padded(f)) = u - q * Unit
         /\ \/ Shown(u) = Text[q] \o (<<Dot>> \o f)
            \/ Shown(u) = Text[q] /\ u = q * Unit
  BY <1>1, ShownParts
<1>4. CASE u = Cap * Unit
  <2>1. q = Cap
    <3>1. 0 \in 0..(Unit - 1) /\ u = Unit * Cap + 0
      BY <1>1, <1>4
    <3> QED BY <1>1, <3>1, DivisionIs
  <2>2. Whole(Shown(u)) = Text[q]
    <3>1. Text[q] \in Seq(Digit) /\ f \in Seq(Digit)
      BY <1>2, TextEquation DEF Fractions
    <3>2. PICK x : x = Shown(u)
      OBVIOUS
    <3> QED BY <1>3, <3>1, <3>2, PartsOfDigits, PartsOfDecimal
  <2>3. Sanitize(Shown(u)) = Text[Cap]
    BY <1>1, <1>2, <2>1, <2>2, TextNumber, FormAssumption DEF Sanitize, Capped
  <2>4. IsAmount(Text[Cap])
    <3>1. Cap \in 0..Cap
      BY <1>1
    <3> QED BY <3>1 DEF IsAmount
  <2> QED BY <1>1, <1>4, <2>3, <2>4, AmountsParse
<1>5. CASE u # Cap * Unit
  <2>1. q \in 0..(Cap - 1)
    <3>1. Number(Padded(f)) \in Nat
      BY Padding
    <3>2. q * Unit <= u /\ q * Unit \in Nat
      BY <1>1, <1>2, <1>3, <3>1
    <3>3. Cap <= q => Cap * Unit <= q * Unit
      BY <1>1, <1>2, Monotonic
    <3> QED BY <1>1, <1>2, <1>5, <3>2, <3>3
  <2>2. IsAmount(Shown(u))
    <3>1. q \in 0..Cap
      BY <1>1, <2>1
    <3> QED BY <1>3, <2>1, <3>1 DEF IsAmount
  <2>3. Sanitize(Shown(u)) = Shown(u)
    BY <2>2, AmountsAreFine
  <2>4. Parse(Shown(u)) = u
    <3>1. q * Unit \in Nat
      BY <1>1, <1>2
    <3>2. CASE Shown(u) = Text[q] \o (<<Dot>> \o f)
      <4>1. Parse(Shown(u)) = q * Unit + Number(Padded(f))
        BY <1>2, <3>2, AmountsParse
      <4> QED BY <1>1, <1>3, <3>1, <4>1
    <3>3. CASE Shown(u) = Text[q] /\ u = q * Unit
      BY <1>2, <3>3, AmountsParse
    <3> QED BY <1>3, <3>2, <3>3
  <2> QED BY <2>2, <2>3, <2>4
<1> QED BY <1>4, <1>5

-----------------------------------------------------------------------------
(* The deposit form. *)

\* The field holds nothing or an amount as Sanitize writes it.
FieldIsSanitized == amount = <<>> \/ IsAmount(amount)

\* From the review on, the amount and the cluster are the reviewed ones, and in the
\* review the profile is.
ReviewAgrees ==
    step \in 2..3 => /\ reviewed \in Reviews
                     /\ reviewed.amount = Parse(amount) /\ reviewed.cluster = cluster
                     /\ step = 2 => reviewed.profile = profile

AttemptAgrees ==
    stage = "working" => /\ step = 3 /\ sent \in Sendings
                         /\ sent.amount = reviewed.amount /\ sent.cluster = cluster
                         /\ sent.profile = reviewed.profile \/ sent.retry

\* The query in flight is sure to include all deposits, or it was joined: the one
\* asked before the last deposit has been replaced by that deposit's.
QueryIncludesAll ==
    query # Idle => /\ query.cluster \in Clusters
                    /\ query.joined \/ query.seen = deposits[query.cluster]

CacheIncludesAll ==
    query = Idle /\ ~missed =>
        \/ cache = Blank
        \/ cache.cluster \in Clusters /\ (cache.joined \/ cache.seen = deposits[cache.cluster])

FormInv ==
    /\ FormTypeOK /\ FieldIsSanitized
    /\ ReviewAgrees /\ AttemptAgrees
    /\ QueryIncludesAll /\ CacheIncludesAll

\* Nothing typed is no amount, and the field is always a text.
LEMMA FieldParses ==
    ASSUME FieldIsSanitized
    PROVE  /\ amount \in Seq(Digit \cup {Dot})
           /\ Parse(amount) > 0 => Parse(amount) \in 0..(Cap * Unit)
<1>1. CASE amount = <<>>
  <2>1. PICK e : e = <<>>
    OBVIOUS
  <2>2. e \in Seq(Digit)
    BY <2>1
  <2>3. Whole(e) = e
    BY <2>2, PartsOfDigits
  <2>4. Parse(e) = -1
    BY <2>1, <2>3 DEF Parse
  <2>5. amount \in Seq(Digit \cup {Dot})
    BY <1>1
  <2> QED BY <1>1, <2>1, <2>4, <2>5
<1>2. CASE IsAmount(amount)
  BY <1>2, AmountsAreFine
<1> QED BY <1>1, <1>2 DEF FieldIsSanitized

\* What the user makes of the field is a text.
LEMMA EditsAreTexts ==
    ASSUME NEW a \in Seq(Digit \cup {Dot})
    PROVE  /\ \A i \in 0..Len(a), c \in Typed :
                 SubSeq(a, 1, i) \o <<c>> \o SubSeq(a, i + 1, Len(a)) \in Seq(Nat)
           /\ \A i \in 1..Len(a) : SubSeq(a, 1, i - 1) \o SubSeq(a, i + 1, Len(a)) \in Seq(Nat)
<1>1. a \in Seq(Nat)
  <2>1. Digit \cup {Dot} \subseteq Nat
    BY DEF Digit, Dot
  <2> QED BY <2>1, MoreCharacters
<1>2. Len(a) \in Nat /\ \A i \in 1..Len(a) : a[i] \in Nat
  BY <1>1
<1>3. ASSUME NEW i \in 0..Len(a)
      PROVE  SubSeq(a, 1, i) \in Seq(Nat) /\ SubSeq(a, i + 1, Len(a)) \in Seq(Nat)
  <2>1. \A j \in 1..i : a[j] \in Nat
    BY <1>2
  <2>2. \A j \in (i + 1)..Len(a) : a[j] \in Nat
    BY <1>2
  <2>3. 1 \in Int /\ i \in Int /\ i + 1 \in Int /\ Len(a) \in Int
    BY <1>2
  <2> QED BY <2>1, <2>2, <2>3, SubSeqProperties
<1>4. ASSUME NEW i \in 0..Len(a), NEW c \in Typed
      PROVE  SubSeq(a, 1, i) \o <<c>> \o SubSeq(a, i + 1, Len(a)) \in Seq(Nat)
  <2>1. <<c>> \in Seq(Nat)
    BY FormAssumption
  <2>2. SubSeq(a, 1, i) \o <<c>> \in Seq(Nat)
    BY <1>3, <2>1, ConcatProperties
  <2> QED BY <1>3, <2>2, ConcatProperties
<1>5. ASSUME NEW i \in 1..Len(a)
      PROVE  SubSeq(a, 1, i - 1) \o SubSeq(a, i + 1, Len(a)) \in Seq(Nat)
  <2>1. SubSeq(a, 1, i - 1) \in Seq(Nat)
    <3>1. i - 1 \in 0..Len(a)
      BY <1>2
    <3> QED BY <1>3, <3>1
  <2>2. SubSeq(a, i + 1, Len(a)) \in Seq(Nat)
    <3>1. i \in 0..Len(a)
      BY <1>2
    <3> QED BY <1>3, <3>1
  <2> QED BY <2>1, <2>2, ConcatProperties
<1> QED BY <1>4, <1>5

\* The field after a text is put in it.
LEMMA SetsSanitizes ==
    ASSUME NEW text \in Seq(Nat), Sets(text)
    PROVE  FieldIsSanitized'
<1>1. Sanitize(text) = <<>> \/ IsAmount(Sanitize(text))
  BY SanitizeMakesAmounts
<1> QED BY <1>1 DEF Sets, FieldIsSanitized

\* The form as it is first opened.
LEMMA FormInitInv == FormInit => FormInv
<1> SUFFICES ASSUME FormInit PROVE FormInv
  OBVIOUS
<1>0. None \notin Clusters /\ Funds \in [Clusters -> Nat] /\ MaxDeposits \in Nat
  BY FormAssumption
<1>1. FormTypeOK
  <2>1. amount \in Seq(Digit \cup {Dot})
    BY DEF FormInit
  <2>2. cache.value = -1 /\ query.cluster = cluster
    BY DEF FormInit, Blank, Ask
  <2>3. wxrp \in [Clusters -> Nat] /\ deposits \in [Clusters -> 0..MaxDeposits]
    BY <1>0 DEF FormInit
  <2>4. /\ cluster \in Clusters /\ step \in 1..3 /\ stage \in {"idle", "working", "done", "error"}
        /\ profile \in Profiles /\ reviewed \in Reviews \cup {None} /\ sent \in Sendings \cup {None}
        /\ stale \in BOOLEAN /\ missed \in BOOLEAN
    <3>1. cluster \in Clusters /\ profile \in Profiles
      BY DEF FormInit
    <3>2. step \in 1..3 /\ stage \in {"idle", "working", "done", "error"}
      BY DEF FormInit
    <3>3. reviewed \in Reviews \cup {None} /\ sent \in Sendings \cup {None}
      BY DEF FormInit
    <3>4. stale \in BOOLEAN /\ missed \in BOOLEAN
      BY DEF FormInit
    <3> QED BY <3>1, <3>2, <3>3, <3>4
  <2> QED BY <2>1, <2>2, <2>3, <2>4 DEF FormTypeOK
<1>2. FieldIsSanitized /\ ReviewAgrees /\ AttemptAgrees
  BY DEF FormInit, FieldIsSanitized, ReviewAgrees, AttemptAgrees
<1>3. QueryIncludesAll
  <2>1. query = Ask(cluster) /\ cluster \in Clusters
    BY DEF FormInit
  <2>2. query.cluster = cluster /\ query.seen = deposits[cluster]
    BY <2>1 DEF Ask
  <2> QED BY <2>1, <2>2 DEF QueryIncludesAll
<1>4. CacheIncludesAll
  BY DEF FormInit, CacheIncludesAll
<1> QED BY <1>1, <1>2, <1>3, <1>4 DEF FormInv

\* An amount of base units is shown by characters the field knows.
LEMMA ShownIsText == \A u \in Nat : Shown(u) \in Seq(Nat)
<1> SUFFICES ASSUME NEW u \in Nat PROVE Shown(u) \in Seq(Nat)
  OBVIOUS
<1> DEFINE q == u \div Unit
<1>1. q \in Nat
  BY ShownParts
<1>2. PICK f \in Fractions : Shown(u) = Text[q] \o (<<Dot>> \o f) \/ Shown(u) = Text[q]
  BY ShownParts
<1>3. Text[q] \in Seq(Digit) /\ f \in Seq(Digit)
  BY <1>1, TextEquation DEF Fractions
<1>4. Digit \subseteq Nat /\ Digit \cup {Dot} \subseteq Nat
  BY DEF Digit, Dot
<1>5. Text[q] \in Seq(Nat)
  BY <1>3, <1>4, MoreCharacters
<1>6. PICK x : x = Text[q] \o (<<Dot>> \o f)
  OBVIOUS
<1>7. x \in Seq(Digit \cup {Dot})
  BY <1>3, <1>6, PartsOfDecimal
<1>8. x \in Seq(Nat)
  BY <1>4, <1>7, MoreCharacters
<1> QED BY <1>2, <1>5, <1>6, <1>8

\* What a step that leaves the form, or the balance, alone keeps.
LEMMA FormKept ==
    ASSUME FormInv, UNCHANGED <<cluster, form>>
    PROVE  FieldIsSanitized' /\ ReviewAgrees' /\ AttemptAgrees'
<1> USE DEF FormInv, form
<1>1. FieldIsSanitized'
  BY DEF FieldIsSanitized
<1>2. ReviewAgrees'
  BY DEF ReviewAgrees, Parse
<1>3. AttemptAgrees'
  BY DEF AttemptAgrees
<1> QED BY <1>1, <1>2, <1>3

\* Steps that leave the deposits and the balance's query alone.
LEMMA BalanceKept ==
    ASSUME FormInv, UNCHANGED <<deposits, cache, query, missed>>
    PROVE  QueryIncludesAll' /\ CacheIncludesAll'
<1> USE DEF FormInv
<1>1. QueryIncludesAll'
  BY DEF QueryIncludesAll, Ask, Idle
<1>2. CacheIncludesAll'
  BY DEF CacheIncludesAll, Idle, Blank
<1> QED BY <1>1, <1>2

\* A query for what is there now includes all of it, and is not nothing.
LEMMA AskedAnew ==
    ASSUME NEW c \in Clusters, query' = [cluster |-> c, seen |-> deposits'[c], joined |-> FALSE]
    PROVE  QueryIncludesAll' /\ CacheIncludesAll'
<1>1. query'.cluster = c /\ Idle.cluster = None /\ c # None
  BY FormAssumption DEF Idle
<1>2. query' # Idle
  BY <1>1
<1>3. query'.seen = deposits'[c]
  OBVIOUS
<1>4. QueryIncludesAll'
  BY <1>1, <1>3 DEF QueryIncludesAll
<1>5. CacheIncludesAll'
  BY <1>2 DEF CacheIncludesAll, Idle
<1> QED BY <1>4, <1>5

\* A form mounted anew has nothing reviewed and attempts nothing, and asks for the
\* balance only when nobody does.
LEMMA MountInv ==
    ASSUME FormInv, NEW c \in Clusters, MountForm(c), cluster' = c,
           UNCHANGED <<chain, cache, stale, missed>>
    PROVE  FormInv'
<1> USE DEF FormInv
<1>1. FieldIsSanitized' /\ ReviewAgrees' /\ AttemptAgrees'
  BY DEF MountForm, FieldIsSanitized, ReviewAgrees, AttemptAgrees
<1>2. CASE query' = query
  <2>1. QueryIncludesAll' /\ CacheIncludesAll'
    BY <1>2, BalanceKept DEF chain
  <2>2. query'.cluster \in Clusters \cup {None}
    BY <1>2 DEF FormTypeOK
  <2> QED BY <1>1, <2>1, <2>2 DEF FormTypeOK, MountForm, SetInSettings, chain
<1>3. CASE query' = Ask(c)
  <2>1. query' = [cluster |-> c, seen |-> deposits'[c], joined |-> FALSE]
    BY <1>3 DEF Ask, chain
  <2>2. QueryIncludesAll' /\ CacheIncludesAll'
    BY <2>1, AskedAnew
  <2>3. query'.cluster \in Clusters \cup {None}
    BY <2>1
  <2> QED BY <1>1, <2>2, <2>3 DEF FormTypeOK, MountForm, SetInSettings, chain
<1>4. query' = query \/ query' = Ask(c)
  BY DEF MountForm
<1> QED BY <1>2, <1>3, <1>4

\* No step breaks the invariant.
LEMMA FormStepInv == FormInv /\ [FormNext]_formVars => FormInv'
<1> SUFFICES ASSUME FormInv, [FormNext]_formVars PROVE FormInv'
  OBVIOUS
<1>0. FormTypeOK /\ FieldIsSanitized /\ ReviewAgrees /\ AttemptAgrees
      /\ QueryIncludesAll /\ CacheIncludesAll
  BY DEF FormInv
<1>1. ASSUME NEW text \in Seq(Nat), Sets(text) PROVE FormInv'
  <2>1. FieldIsSanitized'
    BY <1>1, SetsSanitizes
  <2>2. FormTypeOK'
    <3>1. amount' \in Seq(Digit \cup {Dot})
      <4>1. amount' = <<>> \/ IsAmount(amount')
        BY <1>1, SanitizeMakesAmounts DEF Sets
      <4>2. CASE amount' = <<>>
        BY <4>2
      <4>3. CASE IsAmount(amount')
        BY <4>3, AmountsAreFine
      <4> QED BY <4>1, <4>2, <4>3
    <3> QED BY <1>0, <1>1, <3>1 DEF FormTypeOK, Sets, chain, balance
  <2>3. ReviewAgrees' /\ AttemptAgrees'
    BY <1>0, <1>1 DEF ReviewAgrees, AttemptAgrees, Sets
  <2>4. QueryIncludesAll' /\ CacheIncludesAll'
    BY <1>1, BalanceKept DEF Sets, chain, balance
  <2> QED BY <2>1, <2>2, <2>3, <2>4 DEF FormInv
<1>2. CASE Edit
  <2>1. amount \in Seq(Digit \cup {Dot})
    BY <1>0 DEF FormTypeOK
  <2>2. ASSUME NEW i \in 0..Len(amount), NEW c \in Typed,
               Sets(SubSeq(amount, 1, i) \o <<c>> \o SubSeq(amount, i + 1, Len(amount)))
        PROVE  FormInv'
    <3>1. SubSeq(amount, 1, i) \o <<c>> \o SubSeq(amount, i + 1, Len(amount)) \in Seq(Nat)
      BY <2>1, EditsAreTexts
    <3> QED BY <1>1, <2>2, <3>1
  <2>3. ASSUME NEW i \in 1..Len(amount),
               Sets(SubSeq(amount, 1, i - 1) \o SubSeq(amount, i + 1, Len(amount)))
        PROVE  FormInv'
    <3>1. SubSeq(amount, 1, i - 1) \o SubSeq(amount, i + 1, Len(amount)) \in Seq(Nat)
      BY <2>1, EditsAreTexts
    <3> QED BY <1>1, <2>3, <3>1
  <2>4. ASSUME NEW text \in Pasted, Sets(text) PROVE FormInv'
    <3>1. text \in Seq(Nat)
      BY FormAssumption
    <3> QED BY <1>1, <2>4, <3>1
  <2> QED BY <1>2, <2>2, <2>3, <2>4 DEF Edit
<1>3. CASE PressMax
  <2>1. PICK u \in Nat : Sets(Shown(u))
    <3>1. cache.value \in Nat /\ Cap * Unit \in Nat
      <4>1. cache.value \in Nat \cup {-1} /\ cache.value > 0
        BY <1>0, <1>3 DEF FormTypeOK, PressMax
      <4>2. Cap \in Nat /\ Unit \in Nat
        BY FormAssumption, UnitIsPositive
      <4> QED BY <4>1, <4>2
    <3> QED BY <1>3, <3>1 DEF PressMax
  <2>2. Shown(u) \in Seq(Nat)
    BY ShownIsText
  <2> QED BY <1>1, <2>1, <2>2
<1>4. CASE ChooseProfile
  <2>1. FieldIsSanitized' /\ ReviewAgrees' /\ AttemptAgrees'
    BY <1>0, <1>4 DEF ChooseProfile, FieldIsSanitized, ReviewAgrees, AttemptAgrees
  <2>2. QueryIncludesAll' /\ CacheIncludesAll'
    BY <1>4, BalanceKept DEF ChooseProfile, chain, balance
  <2>3. FormTypeOK'
    BY <1>0, <1>4 DEF ChooseProfile, FormTypeOK, chain, balance
  <2> QED BY <2>1, <2>2, <2>3 DEF FormInv
<1>5. CASE OtherTab
  <2>1. FieldIsSanitized' /\ step' = step /\ cluster' = cluster /\ stage' = stage /\ sent' = sent
        /\ amount' = amount /\ profile' \in Profiles
    BY <1>0, <1>5 DEF OtherTab, FieldIsSanitized
  <2>2. CASE step = 2
    <3>1. reviewed' = [reviewed EXCEPT !.profile = profile'] /\ reviewed \in Reviews
      BY <1>0, <1>5, <2>2 DEF OtherTab, ReviewAgrees
    <3>2. /\ reviewed' \in Reviews /\ reviewed'.amount = reviewed.amount
          /\ reviewed'.cluster = reviewed.cluster /\ reviewed'.profile = profile'
      BY <2>1, <3>1 DEF Reviews
    <3>3. ReviewAgrees'
      BY <1>0, <2>1, <2>2, <3>2 DEF ReviewAgrees, Parse
    <3>4. AttemptAgrees'
      BY <1>0, <2>1, <2>2 DEF AttemptAgrees
    <3> QED BY <3>2, <3>3, <3>4, <2>1, <1>0, <1>5, BalanceKept
        DEF OtherTab, FormTypeOK, FormInv, chain, balance
  <2>3. CASE step # 2
    <3>1. reviewed' = reviewed
      BY <1>5, <2>3 DEF OtherTab
    <3>2. ReviewAgrees' /\ AttemptAgrees'
      BY <1>0, <2>1, <2>3, <3>1 DEF ReviewAgrees, AttemptAgrees, Parse
    <3> QED BY <3>1, <3>2, <2>1, <1>0, <1>5, BalanceKept
        DEF OtherTab, FormTypeOK, FormInv, chain, balance
  <2> QED BY <2>2, <2>3
<1>6. CASE Review
  <2>1. Parse(amount) \in 0..(Cap * Unit)
    BY <1>0, <1>6, FieldParses DEF Review, Valid
  <2>2. /\ reviewed' \in Reviews /\ reviewed'.amount = Parse(amount)
        /\ reviewed'.cluster = cluster /\ reviewed'.profile = profile
    BY <1>0, <1>6, <2>1 DEF Review, Reviews, FormTypeOK
  <2>3. ReviewAgrees'
    BY <1>6, <2>2 DEF Review, ReviewAgrees, Parse
  <2>4. FieldIsSanitized' /\ AttemptAgrees'
    BY <1>0, <1>6 DEF Review, FieldIsSanitized, AttemptAgrees
  <2>5. QueryIncludesAll' /\ CacheIncludesAll'
    BY <1>6, BalanceKept DEF Review, chain, balance
  <2>6. FormTypeOK'
    BY <1>0, <1>6, <2>2 DEF Review, FormTypeOK, chain, balance
  <2> QED BY <2>3, <2>4, <2>5, <2>6 DEF FormInv
<1>7. CASE Back
  <2>1. FieldIsSanitized' /\ ReviewAgrees' /\ AttemptAgrees'
    BY <1>0, <1>7 DEF Back, FieldIsSanitized, ReviewAgrees, AttemptAgrees
  <2>2. QueryIncludesAll' /\ CacheIncludesAll'
    BY <1>7, BalanceKept DEF Back, chain, balance
  <2>3. FormTypeOK'
    BY <1>0, <1>7 DEF Back, FormTypeOK, chain, balance
  <2> QED BY <2>1, <2>2, <2>3 DEF FormInv
<1>8. CASE Confirm
  <2>1. step \in 2..3
    BY <1>8 DEF Confirm, Buttons
  <2>2. /\ reviewed \in Reviews /\ reviewed.amount = Parse(amount) /\ reviewed.cluster = cluster
        /\ step = 2 => reviewed.profile = profile
    BY <1>0, <2>1 DEF ReviewAgrees
  <2>3. reviewed.amount \in 0..(Cap * Unit)
    BY <2>2 DEF Reviews
  <2>4. PICK again \in BOOLEAN : again <=> step = 3
    OBVIOUS
  <2>5. sent' = [amount |-> Parse(amount), cluster |-> cluster, profile |-> profile, retry |-> step = 3]
    BY <1>8 DEF Confirm
  <2>6. /\ sent'.amount = Parse(amount) /\ sent'.cluster = cluster
        /\ sent'.profile = profile /\ (sent'.retry <=> step = 3)
    BY <2>5
  <2>7. sent' \in Sendings
    BY <1>0, <2>2, <2>3, <2>5 DEF Sendings, FormTypeOK
  <2>8. step' = 3 /\ stage' = "working" /\ UNCHANGED <<cluster, amount, profile, reviewed>>
    BY <1>8 DEF Confirm
  <2>9. ReviewAgrees'
    BY <2>2, <2>8 DEF ReviewAgrees, Parse
  <2>10. sent'.profile = reviewed.profile \/ sent'.retry
    BY <2>1, <2>2, <2>6
  <2>11. AttemptAgrees'
    BY <2>2, <2>6, <2>7, <2>8, <2>10 DEF AttemptAgrees
  <2>12. FieldIsSanitized' /\ QueryIncludesAll' /\ CacheIncludesAll'
    BY <1>0, <1>8, BalanceKept DEF Confirm, chain, balance, FieldIsSanitized
  <2>13. FormTypeOK'
    BY <1>0, <1>8, <2>7, <2>8 DEF Confirm, FormTypeOK, chain, balance
  <2> QED BY <2>9, <2>11, <2>12, <2>13 DEF FormInv
<1>9. CASE Reset
  <2>0. /\ amount' = <<>> /\ step' = 1 /\ stage' = "idle" /\ reviewed' = None
        /\ UNCHANGED <<cluster, profile, sent, wxrp, deposits, cache, query, stale, missed>>
    BY <1>9 DEF Reset, chain, balance
  <2>1. FieldIsSanitized' /\ ReviewAgrees' /\ AttemptAgrees'
    BY <2>0 DEF FieldIsSanitized, ReviewAgrees, AttemptAgrees
  <2>2. QueryIncludesAll' /\ CacheIncludesAll'
    BY <1>9, BalanceKept DEF Reset, chain, balance
  <2>3. FormTypeOK'
    <3>1. amount' \in Seq(Digit \cup {Dot})
      BY <2>0
    <3> QED BY <1>0, <2>0, <3>1 DEF FormTypeOK
  <2> QED BY <2>1, <2>2, <2>3 DEF FormInv
<1>10. CASE ReopenForm
  BY <1>0, <1>10, MountInv DEF ReopenForm, FormTypeOK
<1>11. CASE SwitchCluster
  <2>1. PICK c \in Clusters : SetNetwork(c) /\ MountForm(c)
    BY <1>11 DEF SwitchCluster
  <2> QED BY <1>11, <2>1, MountInv DEF SwitchCluster, SetNetwork
<1>12. CASE Succeed
  <2>1. Lands(sent) /\ sent \in Sendings
    BY <1>0, <1>12 DEF Succeed, AttemptAgrees
  <2>2. sent.cluster \in Clusters /\ sent.amount \in Nat
    <3>1. sent.amount \in 0..(Cap * Unit) /\ sent.cluster \in Clusters
      BY <2>1 DEF Sendings
    <3> QED BY <3>1
  <2>3. wxrp' \in [Clusters -> Nat] /\ deposits' \in [Clusters -> 0..MaxDeposits]
    <3>1. wxrp \in [Clusters -> Nat] /\ deposits \in [Clusters -> 0..MaxDeposits]
      BY <1>0 DEF FormTypeOK
    <3>2. wxrp[sent.cluster] - sent.amount \in Nat
      BY <2>1, <2>2, <3>1 DEF Lands
    <3>3. deposits[sent.cluster] + 1 \in 0..MaxDeposits
      BY <2>1, <2>2, <3>1, FormAssumption DEF Lands
    <3> QED BY <2>1, <3>1, <3>2, <3>3 DEF Lands
  <2>4. cluster \in Clusters
    BY <1>0 DEF FormTypeOK
  <2>5. QueryIncludesAll' /\ CacheIncludesAll' /\ query'.cluster \in Clusters
    <3>1. CASE query # Idle /\ cache = Blank
      <4>1. /\ query.cluster \in Clusters /\ query'.cluster = query.cluster
            /\ query'.seen = query.seen
            /\ query'.joined = (query.joined \/ query.cluster = cluster)
            /\ query.joined \/ query.seen = deposits[query.cluster]
        BY <1>0, <1>12, <3>1 DEF Succeed, Joined, QueryIncludesAll
      <4>2. query'.cluster # None /\ Idle.cluster = None
        BY <4>1, FormAssumption DEF Idle
      <4>3. query' # Idle
        BY <4>2
      <4>6. sent.cluster = cluster /\ deposits' = [deposits EXCEPT ![sent.cluster] = @ + 1]
        BY <1>0, <1>12, <2>1 DEF Succeed, AttemptAgrees, Lands
      <4>7. query.cluster # cluster => deposits'[query.cluster] = deposits[query.cluster]
        BY <1>0, <4>1, <4>6 DEF FormTypeOK
      <4>4. QueryIncludesAll'
        BY <4>1, <4>7 DEF QueryIncludesAll
      <4>5. CacheIncludesAll'
        BY <4>3 DEF CacheIncludesAll, Idle
      <4> QED BY <4>1, <4>4, <4>5
    <3>2. CASE ~(query # Idle /\ cache = Blank)
      <4>1. query' = [cluster |-> cluster, seen |-> deposits'[cluster], joined |-> FALSE]
        BY <1>12, <3>2 DEF Succeed
      <4>2. query'.cluster \in Clusters
        BY <2>4, <4>1
      <4> QED BY <2>4, <4>1, <4>2, AskedAnew
    <3> QED BY <3>1, <3>2
  <2>6. FieldIsSanitized' /\ ReviewAgrees' /\ AttemptAgrees'
    BY <1>0, <1>12 DEF Succeed, FieldIsSanitized, ReviewAgrees, AttemptAgrees, Parse
  <2>8. FormTypeOK'
    BY <1>0, <1>12, <2>3, <2>5 DEF Succeed, FormTypeOK
  <2> QED BY <2>5, <2>6, <2>8 DEF FormInv
<1>13. CASE Fail
  <2>1. FieldIsSanitized' /\ ReviewAgrees' /\ AttemptAgrees'
    BY <1>0, <1>13 DEF Fail, FieldIsSanitized, ReviewAgrees, AttemptAgrees, Parse
  <2>2. QueryIncludesAll' /\ CacheIncludesAll'
    BY <1>13, BalanceKept DEF Fail, chain, balance
  <2>3. FormTypeOK'
    BY <1>0, <1>13 DEF Fail, FormTypeOK, chain, balance
  <2> QED BY <2>1, <2>2, <2>3 DEF FormInv
<1>14. CASE Answer
  <2>1. FieldIsSanitized' /\ ReviewAgrees' /\ AttemptAgrees'
    BY <1>14, FormKept DEF Answer
  <2>2. /\ query.cluster \in Clusters
        /\ query.joined \/ query.seen = deposits[query.cluster]
    BY <1>0, <1>14 DEF Answer, QueryIncludesAll
  <2>3. /\ cache'.value = wxrp[query.cluster] /\ cache'.cluster = query.cluster
        /\ cache'.seen = query.seen /\ cache'.joined = query.joined
    BY <1>14 DEF Answer
  <2>4. QueryIncludesAll' /\ CacheIncludesAll'
    BY <1>14, <2>2, <2>3 DEF Answer, QueryIncludesAll, CacheIncludesAll, Idle, chain
  <2>5. cache'.value \in Nat \cup {-1}
    BY <1>0, <2>2, <2>3 DEF FormTypeOK
  <2>6. query'.cluster \in Clusters \cup {None}
    BY <1>14 DEF Answer, Idle
  <2>7. FormTypeOK'
    BY <1>0, <1>14, <2>5, <2>6 DEF Answer, FormTypeOK, form, chain
  <2> QED BY <2>1, <2>4, <2>7 DEF FormInv
<1>15. CASE Unanswered
  <2>1. FieldIsSanitized' /\ ReviewAgrees' /\ AttemptAgrees'
    BY <1>15, FormKept DEF Unanswered
  <2>2. QueryIncludesAll' /\ CacheIncludesAll'
    BY <1>15 DEF Unanswered, QueryIncludesAll, CacheIncludesAll, Idle
  <2>3. query'.cluster \in Clusters \cup {None}
    BY <1>15 DEF Unanswered, Idle
  <2>4. FormTypeOK'
    BY <1>0, <1>15, <2>3 DEF Unanswered, FormTypeOK, form, chain
  <2> QED BY <2>1, <2>2, <2>4 DEF FormInv
<1>16. CASE GrowStale
  <2>1. FieldIsSanitized' /\ ReviewAgrees' /\ AttemptAgrees'
    BY <1>16, FormKept DEF GrowStale
  <2>2. QueryIncludesAll' /\ CacheIncludesAll'
    BY <1>16, BalanceKept DEF GrowStale, chain
  <2>3. FormTypeOK'
    BY <1>0, <1>16 DEF GrowStale, FormTypeOK, form, chain
  <2> QED BY <2>1, <2>2, <2>3 DEF FormInv
<1>17. CASE Focus
  <2>1. FieldIsSanitized' /\ ReviewAgrees' /\ AttemptAgrees'
    BY <1>17, FormKept DEF Focus
  <2>2. query' = [cluster |-> cluster, seen |-> deposits'[cluster], joined |-> FALSE] /\ cluster \in Clusters
    BY <1>0, <1>17 DEF Focus, Ask, FormTypeOK, chain
  <2>3. QueryIncludesAll' /\ CacheIncludesAll'
    BY <2>2, AskedAnew
  <2>4. query'.cluster \in Clusters
    BY <2>2
  <2>5. FormTypeOK'
    BY <1>0, <1>17, <2>4 DEF Focus, FormTypeOK, form, chain
  <2> QED BY <2>1, <2>3, <2>5 DEF FormInv
<1>18. CASE Spend
  <2>1. FieldIsSanitized' /\ ReviewAgrees' /\ AttemptAgrees'
    BY <1>18, FormKept DEF Spend
  <2>2. QueryIncludesAll' /\ CacheIncludesAll'
    BY <1>18, BalanceKept DEF Spend, balance
  <2>3. FormTypeOK'
    BY <1>0, <1>18 DEF Spend, FormTypeOK, form, balance
  <2> QED BY <2>1, <2>2, <2>3 DEF FormInv
<1>19. CASE UNCHANGED formVars
  <2>1. UNCHANGED <<cluster, amount, step, stage, profile, reviewed, sent, wxrp, deposits, cache,
                    query, stale, missed>>
    BY <1>19 DEF formVars, form, chain, balance
  <2>2. UNCHANGED <<cluster, form>>
    BY <2>1 DEF form
  <2>3. FieldIsSanitized' /\ ReviewAgrees' /\ AttemptAgrees'
    BY <2>2, FormKept
  <2>4. QueryIncludesAll' /\ CacheIncludesAll'
    BY <2>1, BalanceKept
  <2>5. FormTypeOK'
    BY <1>0, <2>1 DEF FormTypeOK
  <2> QED BY <2>3, <2>4, <2>5 DEF FormInv
<1> QED BY <1>2, <1>3, <1>4, <1>5, <1>6, <1>7, <1>8, <1>9, <1>10, <1>11, <1>12, <1>13,
           <1>14, <1>15, <1>16, <1>17, <1>18, <1>19 DEF FormNext

\* The invariant holds in every behaviour of the form.
THEOREM FormInvariance == FormSpec => []FormInv
<1>1. FormInit => FormInv
  BY FormInitInv
<1>2. FormInv /\ [FormNext]_formVars => FormInv'
  BY FormStepInv
<1> QED BY <1>1, <1>2, PTL DEF FormSpec

\* Whatever is typed, deleted and pasted (DepositView's sanitizeAmount on every
\* change), the field holds nothing or an amount of at most so many decimals that
\* does not exceed the cap, for every cap and every number of decimals.
THEOREM FieldIsAnAmount == FormSpec => []FormInvariant
<1>1. FormInv => FormInvariant
  BY AmountsAreFine DEF FormInv, FormInvariant, FieldHoldsAnAmount, FieldIsSanitized
<1> QED BY <1>1, FormInvariance, PTL

\* What an attempt deposits is what the review showed, on the cluster it was shown
\* for, through retries, edits, switches of the cluster and other tabs.
THEOREM DepositsAreReviewed == FormSpec => []SentIsReviewed
<1>1. FormInv => SentIsReviewed
  <2> SUFFICES ASSUME FormInv, stage = "working"
               PROVE  /\ sent.amount = reviewed.amount
                      /\ sent.cluster = reviewed.cluster /\ sent.cluster = cluster
                      /\ sent.profile = reviewed.profile \/ sent.retry
    BY DEF SentIsReviewed
  <2>1. step = 3 /\ sent.amount = reviewed.amount /\ sent.cluster = cluster
        /\ (sent.profile = reviewed.profile \/ sent.retry)
    BY DEF FormInv, AttemptAgrees
  <2>2. reviewed.cluster = cluster
    BY <2>1 DEF FormInv, ReviewAgrees
  <2> QED BY <2>1, <2>2
<1> QED BY <1>1, FormInvariance, PTL

\* Once no query is in flight and none has failed, the balance in the cache includes
\* every deposit made on its cluster, unless it is what the first query found while a
\* deposit was made: each later query in flight is replaced by a deposit's.
THEOREM DepositsAreSeen == FormSpec => []DepositIsSeen
<1>1. FormInv => DepositIsSeen
  BY DEF FormInv, CacheIncludesAll, DepositIsSeen
<1> QED BY <1>1, FormInvariance, PTL

\* MAX puts in the whole balance shown or the cap, to the last base unit: what the
\* field shows of it is read as all of it again.
THEOREM MaxPutsInAll == FormSpec => MaxIsAll
<1>1. ASSUME FormInv, PressMax
      PROVE  \/ Parse(amount') = cache.value /\ cache.value <= Cap * Unit
             \/ Parse(amount') = Cap * Unit /\ cache.value > Cap * Unit
  <2>1. cache.value \in Nat
    BY <1>1 DEF FormInv, FormTypeOK, PressMax
  <2>2. Cap * Unit \in Nat
    BY FormAssumption, UnitIsPositive
  <2>3. amount' = Sanitize(Shown(IF cache.value < Cap * Unit THEN cache.value ELSE Cap * Unit))
    BY <1>1 DEF PressMax, Sets
  <2>4. CASE cache.value < Cap * Unit
    <3>1. cache.value \in 0..(Cap * Unit)
      BY <2>1, <2>2, <2>4
    <3>2. Parse(amount') = cache.value
      BY <2>3, <2>4, <3>1, ShownIsRead
    <3> QED BY <2>1, <2>2, <2>4, <3>2
  <2>5. CASE ~(cache.value < Cap * Unit)
    <3>1. Cap * Unit \in 0..(Cap * Unit)
      BY <2>2
    <3>2. Parse(amount') = Cap * Unit
      BY <2>3, <2>5, <3>1, ShownIsRead
    <3>3. cache.value = Cap * Unit \/ cache.value > Cap * Unit
      BY <2>1, <2>2, <2>5
    <3> QED BY <2>2, <3>2, <3>3
  <2> QED BY <2>4, <2>5
<1>2. FormInv => [PressMax => \/ Parse(amount') = cache.value /\ cache.value <= Cap * Unit
                              \/ Parse(amount') = Cap * Unit /\ cache.value > Cap * Unit]_formVars
  BY <1>1
<1> QED BY <1>2, FormInvariance, PTL DEF MaxIsAll

-----------------------------------------------------------------------------
(* The tabs. *)

\* A list of the notifications made so far, as it is stored and shown.
Orderly(list, n) ==
    /\ list \in Seq(Notes) /\ Len(list) <= MAX /\ NewestFirst(list)
    /\ \A i \in 1..Len(list) : list[i].id <= n

\* What no tab shows, of a tab that is closed.
ClosedTabs ==
    \A t \in TabIds \ loaded : dirty[t] = {} /\ timers[t] = 0 /\ dialog[t] = Unset

\* What a tab has written last is what it shows, but for what it has yet to write.
WrittenIsShown ==
    \A t \in loaded, k \in Keys :
        k \notin dirty[t] /\ writer[k] = t => stored[k] = shown[t][k]

StoreIsOrderly ==
    /\ stored["notifications"] # Unset => Orderly(stored["notifications"], made)
    /\ stored["network"] \in Networks \cup {Unset}

TabsAreOrderly ==
    \A t \in loaded : /\ Orderly(Items(t), made)
                      /\ shown[t]["network"] \in Networks
                      /\ dialog[t] # shown[t]["network"]

TabsTypes ==
    /\ loaded \subseteq TabIds /\ writer \in [Keys -> TabIds \cup {Unset}]
    /\ DOMAIN shown = TabIds /\ \A t \in TabIds : DOMAIN shown[t] = Keys
    /\ dirty \in [TabIds -> SUBSET Keys] /\ bell \in [TabIds -> BOOLEAN]
    /\ timers \in [TabIds -> 0..MaxTimers]
    /\ dialog \in [TabIds -> Networks \cup {Unset}]
    /\ made \in 0..MaxNotes

TabsInv ==
    /\ TabsTypes /\ ClosedTabs
    /\ StoreIsOrderly /\ TabsAreOrderly /\ WrittenIsShown

\* The lists the tabs make of an orderly list are orderly.
LEMMA OrderlyGrows ==
    \A list : \A m, n \in Nat : m <= n /\ Orderly(list, m) => Orderly(list, n)
<1> SUFFICES ASSUME NEW list, NEW m \in Nat, NEW n \in Nat, m <= n, Orderly(list, m)
             PROVE  Orderly(list, n)
  OBVIOUS
<1>1. \A i \in 1..Len(list) : list[i].id \in Nat
  <2>1. \A i \in 1..Len(list) : list[i] \in Notes
    BY DEF Orderly
  <2>2. \A c \in Notes : c.id \in Nat
    BY TabsAssumption DEF Notes
  <2> QED BY <2>1, <2>2
<1>2. \A i \in 1..Len(list) : list[i].id <= n
  BY <1>1 DEF Orderly
<1> QED BY <1>2 DEF Orderly

\* An empty list is orderly.
LEMMA OrderlyNone == \A n \in Nat : Orderly(<<>>, n)
<1>1. PICK e : e = <<>>
  OBVIOUS
<1>2. e \in Seq(Notes) /\ Len(e) = 0 /\ DOMAIN e = {}
  BY <1>1
<1>3. \A n \in Nat : Orderly(e, n)
  BY <1>2, TabsAssumption DEF Orderly, NewestFirst
<1> QED BY <1>1, <1>3

\* So is an orderly one all of whose notes are marked read.
LEMMA OrderlyAllRead ==
    \A list : \A n \in Nat : Orderly(list, n) => Orderly(AllRead(list), n)
<1> SUFFICES ASSUME NEW list, NEW n \in Nat, Orderly(list, n) PROVE Orderly(AllRead(list), n)
  OBVIOUS
<1> DEFINE r == AllRead(list)
<1>1. list \in Seq(Notes) /\ DOMAIN list = 1..Len(list) /\ Len(list) \in Nat
  BY DEF Orderly
<1>2. ASSUME NEW i \in 1..Len(list) PROVE r[i] \in Notes /\ r[i].id = list[i].id
  <2>1. r[i] = [list[i] EXCEPT !.read = TRUE] /\ list[i] \in Notes
    BY <1>1 DEF AllRead
  <2> QED BY <2>1 DEF Notes
<1>3. r \in Seq(Notes) /\ Len(r) = Len(list) /\ DOMAIN r = 1..Len(list)
  <2>1. r = [i \in 1..Len(list) |-> r[i]] /\ DOMAIN r = 1..Len(list)
    BY <1>1 DEF AllRead
  <2>2. r \in [1..Len(list) -> Notes]
    <3> HIDE DEF r
    <3> QED BY <1>2, <2>1
  <2> HIDE DEF r
  <2> QED BY <1>1, <2>1, <2>2
<1> HIDE DEF r
<1>4. NewestFirst(r)
  BY <1>1, <1>2, <1>3 DEF NewestFirst, Orderly
<1>5. \A i \in 1..Len(r) : r[i].id <= n
  BY <1>2, <1>3 DEF Orderly
<1>6. Len(r) <= MAX
  BY <1>3 DEF Orderly
<1> QED BY <1>3, <1>4, <1>5, <1>6 DEF Orderly, r

\* What is left of a list from which one element is removed.
LEMMA RemoveAtIs ==
    \A list \in Seq(Notes) : \A i \in 1..Len(list) :
        /\ SX!RemoveAt(list, i) \in Seq(Notes)
        /\ Len(SX!RemoveAt(list, i)) = Len(list) - 1
        /\ \A j \in 1..(Len(list) - 1) :
              SX!RemoveAt(list, i)[j] = IF j < i THEN list[j] ELSE list[j + 1]
<1> SUFFICES ASSUME NEW list \in Seq(Notes), NEW i \in 1..Len(list)
             PROVE  /\ SX!RemoveAt(list, i) \in Seq(Notes)
                    /\ Len(SX!RemoveAt(list, i)) = Len(list) - 1
                    /\ \A j \in 1..(Len(list) - 1) :
                          SX!RemoveAt(list, i)[j] = IF j < i THEN list[j] ELSE list[j + 1]
  OBVIOUS
<1> DEFINE l == Len(list)
           a == SubSeq(list, 1, i - 1)
           b == SubSeq(list, i + 1, l)
           r == a \o b
<1>1. l \in Nat /\ i \in Nat /\ DOMAIN list = 1..l
  OBVIOUS
<1>2. a \in Seq(Notes) /\ Len(a) = i - 1 /\ \A j \in 1..(i - 1) : a[j] = list[j]
  <2>1. \A j \in 1..(i - 1) : list[j] \in Notes
    BY <1>1
  <2>2. 1 \in Int /\ i - 1 \in Int /\ i >= 1
    OBVIOUS
  <2> QED BY <2>1, <2>2, SubSeqProperties
<1>3. b \in Seq(Notes) /\ Len(b) = l - i /\ \A j \in 1..(l - i) : b[j] = list[i + j]
  <2>1. \A j \in (i + 1)..l : list[j] \in Notes
    BY <1>1
  <2>2. i + 1 \in Int /\ l \in Int /\ i <= l /\ l - (i + 1) + 1 = l - i
    BY <1>1
  <2>3. /\ b \in Seq(Notes) /\ Len(b) = IF i + 1 <= l THEN l - (i + 1) + 1 ELSE 0
        /\ \A j \in 1..(l - (i + 1) + 1) : b[j] = list[(i + 1) + j - 1]
    BY <2>1, <2>2, SubSeqProperties
  <2>4. Len(b) = l - i
    <3>1. CASE i + 1 <= l
      BY <2>2, <2>3, <3>1
    <3>2. CASE ~(i + 1 <= l)
      <4> HIDE DEF l
      <4>1. l - i = 0
        BY <1>1, <2>2, <3>2
      <4> QED BY <2>3, <3>2, <4>1
    <3> QED BY <3>1, <3>2
  <2>5. \A j \in 1..(l - i) : (i + 1) + j - 1 = i + j
    BY <1>1
  <2> QED BY <2>2, <2>3, <2>4, <2>5
<1> HIDE DEF a, b
<1>4. /\ r \in Seq(Notes) /\ Len(r) = l - 1
      /\ \A j \in 1..(l - 1) : r[j] = IF j < i THEN list[j] ELSE list[j + 1]
  <2>1. /\ r \in Seq(Notes) /\ Len(r) = Len(a) + Len(b)
        /\ \A j \in 1..(Len(a) + Len(b)) : r[j] = IF j <= Len(a) THEN a[j] ELSE b[j - Len(a)]
    BY <1>2, <1>3, ConcatProperties
  <2>2. Len(a) + Len(b) = l - 1
    BY <1>1, <1>2, <1>3
  <2>3. ASSUME NEW j \in 1..(l - 1) PROVE r[j] = IF j < i THEN list[j] ELSE list[j + 1]
    <3>1. CASE j < i
      <4>1. j <= Len(a) /\ j \in 1..(i - 1)
        BY <1>1, <1>2, <3>1
      <4> QED BY <1>2, <2>1, <2>2, <3>1, <4>1
    <3>2. CASE ~(j < i)
      <4>1. ~(j <= Len(a)) /\ j - Len(a) \in 1..(l - i) /\ i + (j - Len(a)) = j + 1
        BY <1>1, <1>2, <3>2
      <4> QED BY <1>3, <2>1, <2>2, <3>2, <4>1
    <3> QED BY <3>1, <3>2
  <2> QED BY <2>1, <2>2, <2>3
<1>5. SX!RemoveAt(list, i) = r
  BY DEF SX!RemoveAt, a, b
<1> HIDE DEF r
<1> QED BY <1>4, <1>5

\* And one from which a note is removed.
LEMMA OrderlyRemove ==
    \A list : \A n \in Nat, i \in 1..Len(list) : Orderly(list, n) => Orderly(SX!RemoveAt(list, i), n)
<1> SUFFICES ASSUME NEW list, NEW n \in Nat, NEW i \in 1..Len(list), Orderly(list, n)
             PROVE  Orderly(SX!RemoveAt(list, i), n)
  OBVIOUS
<1> DEFINE l == Len(list)
           r == SX!RemoveAt(list, i)
<1>1. list \in Seq(Notes) /\ l \in Nat /\ i \in Nat /\ l <= MAX /\ DOMAIN list = 1..l
  BY DEF Orderly
<1>4. /\ r \in Seq(Notes) /\ Len(r) = l - 1
      /\ \A j \in 1..(l - 1) : r[j] = IF j < i THEN list[j] ELSE list[j + 1]
  BY <1>1, RemoveAtIs
<1> HIDE DEF r
<1>5. \A j \in 1..(l - 1) : j \in 1..l /\ j + 1 \in 1..l
  BY <1>1
<1>6. NewestFirst(r)
  <2>1. ASSUME NEW j \in 1..(l - 1), NEW k \in 1..(l - 1), j < k PROVE r[j].id > r[k].id
    <3>1. PICK x \in 1..l, y \in 1..l : x < y /\ r[j] = list[x] /\ r[k] = list[y]
      <4>1. CASE k < i
        <5>1. j < i
          BY <1>1, <2>1, <4>1
        <5> QED BY <1>4, <1>5, <2>1, <4>1, <5>1
      <4>2. CASE j < i /\ ~(k < i)
        <5>1. j < k + 1
          BY <2>1
        <5> QED BY <1>1, <1>4, <1>5, <4>2, <5>1
      <4>3. CASE ~(j < i)
        <5>1. ~(k < i) /\ j + 1 < k + 1
          BY <1>1, <2>1, <4>3
        <5> QED BY <1>1, <1>4, <1>5, <4>3, <5>1
      <4> QED BY <4>1, <4>2, <4>3
    <3> QED BY <1>1, <3>1 DEF Orderly, NewestFirst
  <2>2. DOMAIN r = 1..(l - 1)
    BY <1>1, <1>4
  <2> QED BY <2>1, <2>2 DEF NewestFirst
<1>7. \A j \in 1..Len(r) : r[j].id <= n
  BY <1>4, <1>5 DEF Orderly
<1>8. Len(r) <= MAX
  BY <1>1, <1>4, TabsAssumption
<1>9. Orderly(r, n)
  BY <1>4, <1>6, <1>7, <1>8 DEF Orderly
<1> QED BY <1>9 DEF r

\* A notification made last comes first, and the oldest goes.
LEMMA OrderlyPush ==
    ASSUME NEW list, NEW n \in Nat, Orderly(list, n), NEW new \in Notes, new.id = n + 1
    PROVE  Orderly(Push(list, new), n + 1)
<1> DEFINE l == Len(list)
           one == <<new>>
           a == one \o list
           m == IF l < MAX THEN l + 1 ELSE MAX
           r == SubSeq(a, 1, m)
<1>1. list \in Seq(Notes) /\ l \in Nat /\ MAX \in Nat /\ MAX > 0 /\ DOMAIN list = 1..l
  BY TabsAssumption DEF Orderly
<1>2. one \in Seq(Notes) /\ Len(one) = 1 /\ one[1] = new
  OBVIOUS
<1> HIDE DEF one
<1>3. /\ a \in Seq(Notes) /\ Len(a) = 1 + l
      /\ \A j \in 1..(1 + l) : a[j] = IF j <= 1 THEN one[j] ELSE list[j - 1]
  <2>1. /\ a \in Seq(Notes) /\ Len(a) = Len(one) + Len(list)
        /\ \A j \in 1..(Len(one) + Len(list)) :
              a[j] = IF j <= Len(one) THEN one[j] ELSE list[j - Len(one)]
    BY <1>1, <1>2, ConcatProperties
  <2> HIDE DEF a
  <2> QED BY <1>2, <2>1
<1> HIDE DEF a
<1>4. m \in 1..(1 + l) /\ m <= MAX
  BY <1>1 DEF Orderly
<1> HIDE DEF m
<1>5. r \in Seq(Notes) /\ Len(r) = m /\ DOMAIN r = 1..m /\ \A j \in 1..m : r[j] = a[j]
  <2>1. \A j \in 1..m : a[j] \in Notes
    BY <1>1, <1>3, <1>4
  <2>2. 1 \in Int /\ m \in Int /\ 1 <= m /\ m - 1 + 1 = m
    BY <1>1, <1>4
  <2>3. /\ r \in Seq(Notes) /\ Len(r) = IF 1 <= m THEN m - 1 + 1 ELSE 0
        /\ \A j \in 1..(m - 1 + 1) : r[j] = a[1 + j - 1]
    BY <2>1, <2>2, SubSeqProperties
  <2>4. \A j \in 1..m : 1 + j - 1 = j
    BY <2>2
  <2>5. Len(r) = m
    BY <2>2, <2>3
  <2>6. \A j \in 1..m : r[j] = a[j]
    BY <2>2, <2>3, <2>4
  <2> HIDE DEF r
  <2>7. DOMAIN r = 1..m
    BY <2>3, <2>5
  <2> QED BY <2>3, <2>5, <2>6, <2>7
<1> HIDE DEF r
<1>6. r[1] = new /\ \A j \in 2..m : r[j] = list[j - 1] /\ j - 1 \in 1..l
  <2>1. 1 \in 1..m /\ 1 \in 1..(1 + l)
    BY <1>1, <1>4
  <2>2. \A j \in 2..m : j \in 1..m /\ j \in 1..(1 + l) /\ ~(j <= 1) /\ j - 1 \in 1..l
    BY <1>1, <1>4
  <2> QED BY <1>2, <1>3, <1>5, <2>1, <2>2
<1>7. \A j \in 2..m : r[j].id <= n /\ r[j].id \in Nat
  <2>1. \A j \in 1..l : list[j].id <= n /\ list[j].id \in Nat
    <3>1. \A j \in 1..l : list[j] \in Notes
      BY <1>1
    <3> QED BY <3>1 DEF Orderly, Notes
  <2> QED BY <1>6, <2>1
<1>8. \A j \in 1..m : r[j].id <= n + 1
  <2>1. \A j \in 1..m : j = 1 \/ j \in 2..m
    BY <1>1, <1>4
  <2> QED BY <1>6, <1>7, <2>1
<1>9. NewestFirst(r)
  <2>1. ASSUME NEW j \in 1..m, NEW k \in 1..m, j < k PROVE r[j].id > r[k].id
    <3>1. k \in 2..m
      BY <1>1, <1>4, <2>1
    <3>2. CASE j = 1
      BY <1>6, <1>7, <3>1, <3>2
    <3>3. CASE j # 1
      <4>1. j \in 2..m /\ j - 1 < k - 1
        BY <1>1, <1>4, <2>1, <3>3
      <4>2. r[j] = list[j - 1] /\ r[k] = list[k - 1] /\ j - 1 \in 1..l /\ k - 1 \in 1..l
        BY <1>6, <3>1, <4>1
      <4> QED BY <1>1, <4>1, <4>2 DEF Orderly, NewestFirst
    <3> QED BY <3>2, <3>3
  <2> QED BY <1>5, <2>1 DEF NewestFirst
<1>10. Orderly(r, n + 1)
  BY <1>4, <1>5, <1>8, <1>9 DEF Orderly
<1> QED BY <1>10 DEF Push, r, m, a, one, l

\* And the list with the welcome note alone.
LEMMA OrderlyWelcome ==
    ASSUME NEW n \in Nat, NEW new \in Notes, new.id = n + 1
    PROVE  Orderly(<<new>>, n + 1)
<1>1. PICK one : one = <<new>>
  OBVIOUS
<1>2. one \in Seq(Notes) /\ Len(one) = 1 /\ DOMAIN one = 1..1 /\ one[1] = new
  BY <1>1
<1>3. NewestFirst(one)
  BY <1>2 DEF NewestFirst
<1>4. Orderly(one, n + 1)
  BY <1>2, <1>3, TabsAssumption DEF Orderly
<1> QED BY <1>1, <1>4

\* The effects of t write what it shows of orderly tabs, and nothing over what a
\* tab wrote of the other keys.
LEMMA StoreWrites ==
    ASSUME TabsInv, NEW t \in loaded, NEW keys \in SUBSET Keys, Store(t, keys),
           loaded' = loaded,
           \A u \in loaded, k \in Keys \ keys :
              shown'[u][k] = shown[u][k] /\ (k \in dirty[u] => k \in dirty'[u]),
           TabsAreOrderly', made' \in Nat, made <= made'
    PROVE  StoreIsOrderly' /\ WrittenIsShown' /\ writer' \in [Keys -> TabIds \cup {Unset}]
<1>1. \A k \in Keys : /\ stored'[k] = IF k \in keys THEN shown'[t][k] ELSE stored[k]
                      /\ writer'[k] = IF k \in keys THEN t ELSE writer[k]
  BY DEF Store
<1>2. "notifications" \in Keys /\ "network" \in Keys
  BY DEF Keys
<1>3. made \in Nat
  BY TabsAssumption DEF TabsInv, TabsTypes
<1>4. StoreIsOrderly'
  <2>1. stored'["notifications"] # Unset => Orderly(stored'["notifications"], made')
    <3>1. CASE "notifications" \in keys
      BY <1>1, <1>2, <3>1 DEF TabsAreOrderly, Items
    <3>2. CASE "notifications" \notin keys
      BY <1>1, <1>2, <1>3, <3>2, OrderlyGrows DEF TabsInv, StoreIsOrderly
    <3> QED BY <3>1, <3>2
  <2>2. stored'["network"] \in Networks \cup {Unset}
    <3>1. CASE "network" \in keys
      BY <1>1, <1>2, <3>1 DEF TabsAreOrderly
    <3>2. CASE "network" \notin keys
      BY <1>1, <1>2, <3>2 DEF TabsInv, StoreIsOrderly
    <3> QED BY <3>1, <3>2
  <2>3. Orderly(stored["notifications"], made)' <=> Orderly(stored'["notifications"], made')
    BY DEF Orderly, NewestFirst
  <2> QED BY <2>1, <2>2, <2>3 DEF StoreIsOrderly
<1>5. WrittenIsShown'
  <2>1. ASSUME NEW u \in loaded, NEW k \in Keys, k \notin dirty'[u], writer'[k] = u
        PROVE  stored'[k] = shown'[u][k]
    <3>1. CASE k \in keys
      BY <1>1, <2>1, <3>1
    <3>2. CASE k \notin keys
      BY <1>1, <2>1, <3>2 DEF TabsInv, WrittenIsShown
    <3> QED BY <3>1, <3>2
  <2> QED BY <2>1 DEF WrittenIsShown
<1>6. writer' \in [Keys -> TabIds \cup {Unset}]
  <2>1. \A k \in Keys : writer'[k] \in TabIds \cup {Unset}
    BY <1>1 DEF TabsInv, TabsTypes
  <2> QED BY <2>1 DEF Store
<1> QED BY <1>4, <1>5, <1>6

\* A click that sets the list to an orderly one.
LEMMA ListSet ==
    ASSUME TabsInv, NEW t \in TabIds, Clicked(t), NEW v, Orderly(v, made),
           SetsKey(t, "notifications", v), UNCHANGED <<ui, made>>
    PROVE  TabsInv'
<1>1. /\ t \in loaded /\ loaded' = loaded /\ dirty' = dirty /\ made' = made
      /\ bell' = bell /\ timers' = timers /\ dialog' = dialog
  BY DEF Clicked, ui
<1>2. TabsTypes /\ ClosedTabs /\ StoreIsOrderly /\ TabsAreOrderly /\ WrittenIsShown
  BY DEF TabsInv
<1>3. /\ DOMAIN shown' = TabIds /\ \A u \in TabIds : DOMAIN shown'[u] = Keys
      /\ \A u \in TabIds : u # t => shown'[u] = shown[u]
      /\ shown'[t]["notifications"] = v /\ shown'[t]["network"] = shown[t]["network"]
  BY <1>2 DEF SetsKey, TabsTypes, Keys
<1>4. TabsAreOrderly'
  <2>1. ASSUME NEW u \in loaded
        PROVE  /\ Orderly(shown'[u]["notifications"], made)
               /\ shown'[u]["network"] \in Networks
               /\ dialog[u] # shown'[u]["network"]
    <3>1. u \in TabIds
      BY <1>2 DEF TabsTypes
    <3>2. CASE u = t
      BY <1>2, <1>3, <3>2 DEF TabsAreOrderly
    <3>3. CASE u # t
      BY <1>2, <1>3, <3>1, <3>3 DEF TabsAreOrderly, Items
    <3> QED BY <3>2, <3>3
  <2> QED BY <1>1, <2>1 DEF TabsAreOrderly, Items, Orderly, NewestFirst
<1>5. StoreIsOrderly' /\ WrittenIsShown' /\ writer' \in [Keys -> TabIds \cup {Unset}]
  <2>1. Store(t, {"notifications"}) /\ {"notifications"} \in SUBSET Keys
    BY DEF SetsKey, Keys
  <2>2. made' \in Nat /\ made <= made'
    BY <1>1, <1>2, TabsAssumption DEF TabsTypes
  <2>3. \A u \in loaded, k \in Keys \ {"notifications"} :
              shown'[u][k] = shown[u][k] /\ (k \in dirty[u] => k \in dirty'[u])
    BY <1>1, <1>2, <1>3 DEF TabsTypes, Keys
  <2> QED BY <1>1, <1>4, <2>1, <2>2, <2>3, StoreWrites
<1>6. TabsTypes' /\ ClosedTabs'
  BY <1>1, <1>2, <1>3, <1>5 DEF TabsTypes, ClosedTabs
<1> QED BY <1>4, <1>5, <1>6 DEF TabsInv

\* A step that touches neither the lists nor the networks, nor what is stored.
LEMMA ViewChanges ==
    ASSUME TabsInv, UNCHANGED <<storage, shown, loaded, dirty, made>>,
           bell' \in [TabIds -> BOOLEAN], timers' \in [TabIds -> 0..MaxTimers],
           dialog' \in [TabIds -> Networks \cup {Unset}],
           \A u \in TabIds \ loaded : timers'[u] = timers[u] /\ dialog'[u] = dialog[u],
           \A u \in loaded : dialog'[u] # shown[u]["network"]
    PROVE  TabsInv'
<1>1. TabsTypes /\ ClosedTabs /\ StoreIsOrderly /\ TabsAreOrderly /\ WrittenIsShown
  BY DEF TabsInv
<1>2. TabsTypes' /\ ClosedTabs'
  BY <1>1 DEF TabsTypes, ClosedTabs, storage
<1>3. StoreIsOrderly'
  BY <1>1 DEF StoreIsOrderly, storage, Orderly, NewestFirst
<1>4. TabsAreOrderly'
  BY <1>1 DEF TabsAreOrderly, Items, Orderly, NewestFirst
<1>5. WrittenIsShown'
  BY <1>1 DEF WrittenIsShown, storage
<1> QED BY <1>2, <1>3, <1>4, <1>5 DEF TabsInv

\* No tab is open, nothing is stored.
LEMMA TabsInitInv == TabsInit => TabsInv
<1> SUFFICES ASSUME TabsInit PROVE TabsInv
  OBVIOUS
<1>1. MaxTimers \in Nat /\ MaxNotes \in Nat
  BY TabsAssumption
<1>2. TabsTypes
  BY <1>1 DEF TabsInit, TabsTypes
<1>3. ClosedTabs
  BY DEF TabsInit, ClosedTabs
<1>4. StoreIsOrderly /\ TabsAreOrderly /\ WrittenIsShown
  BY DEF TabsInit, StoreIsOrderly, TabsAreOrderly, WrittenIsShown, Keys
<1> QED BY <1>2, <1>3, <1>4 DEF TabsInv

\* A tab that is loaded shows what is stored, or its welcome, and has all to write.
LEMMA LoadInv ==
    ASSUME TabsInv, NEW t \in TabIds, Load(t)
    PROVE  TabsInv'
<1>1. TabsTypes /\ ClosedTabs /\ StoreIsOrderly /\ TabsAreOrderly /\ WrittenIsShown
  BY DEF TabsInv
<1>2. /\ t \notin loaded /\ loaded' = loaded \cup {t}
      /\ stored' = stored /\ writer' = writer
      /\ bell' = bell /\ timers' = timers /\ dialog' = dialog
      /\ dirty' = [dirty EXCEPT ![t] = Keys] /\ shown' = [shown EXCEPT ![t] = Read(stored)]
  BY DEF Load, storage, ui
<1>3. /\ DOMAIN shown' = TabIds /\ \A u \in TabIds : DOMAIN shown'[u] = Keys
      /\ \A u \in TabIds : u # t => shown'[u] = shown[u] /\ dirty'[u] = dirty[u]
      /\ dirty'[t] = Keys /\ dirty' \in [TabIds -> SUBSET Keys]
      /\ shown'[t] = Read(stored)
  BY <1>1, <1>2 DEF TabsTypes, Read
<1>4. /\ made' \in 0..MaxNotes /\ made <= made' /\ made \in Nat /\ made' \in Nat
      /\ stored["notifications"] = Unset => made < MaxNotes /\ made' = made + 1
  BY <1>1, TabsAssumption DEF Load, TabsTypes
<1>5. /\ Read(stored)["notifications"] = InitialItems(stored["notifications"])
      /\ Read(stored)["network"] = IF stored["network"] = "devnet" THEN "devnet" ELSE "mainnet"
  BY DEF Read, Keys
<1>6. Orderly(shown'[t]["notifications"], made')
  <2>1. CASE stored["notifications"] = Unset
    <3>1. New \in Notes /\ New.id = made + 1
      <4>1. made + 1 \in 1..MaxNotes
        BY <1>1, <1>4, <2>1, TabsAssumption DEF TabsTypes
      <4> QED BY <4>1 DEF New, Notes
    <3>2. Orderly(<<New>>, made + 1)
      BY <1>4, <3>1, OrderlyWelcome
    <3>3. shown'[t]["notifications"] = <<New>>
      BY <1>3, <1>5, <2>1 DEF InitialItems
    <3> QED BY <1>4, <2>1, <3>2, <3>3
  <2>2. CASE stored["notifications"] # Unset
    <3>1. shown'[t]["notifications"] = stored["notifications"]
      BY <1>3, <1>5, <2>2 DEF InitialItems
    <3> QED BY <1>1, <1>4, <2>2, <3>1, OrderlyGrows DEF StoreIsOrderly
  <2> QED BY <2>1, <2>2
<1>7. TabsAreOrderly'
  <2>1. ASSUME NEW u \in loaded'
        PROVE  /\ Orderly(shown'[u]["notifications"], made')
               /\ shown'[u]["network"] \in Networks
               /\ dialog[u] # shown'[u]["network"]
    <3>1. CASE u = t
      <4>1. dialog[t] = Unset
        BY <1>1, <1>2 DEF ClosedTabs
      <4>2. shown'[t]["network"] \in Networks
        BY <1>3, <1>5 DEF Networks
      <4> QED BY <1>6, <3>1, <4>1, <4>2, TabsAssumption
    <3>2. CASE u # t
      <4>1. u \in loaded /\ u \in TabIds /\ shown'[u] = shown[u]
        BY <1>1, <1>2, <1>3, <3>2 DEF TabsTypes
      <4> QED BY <1>1, <1>4, <4>1, OrderlyGrows DEF TabsAreOrderly, Items
    <3> QED BY <3>1, <3>2
  <2> QED BY <1>2, <2>1 DEF TabsAreOrderly, Items, Orderly, NewestFirst
<1>8. StoreIsOrderly'
  <2>1. stored["notifications"] # Unset => Orderly(stored["notifications"], made')
    BY <1>1, <1>4, OrderlyGrows DEF StoreIsOrderly
  <2> QED BY <1>1, <1>2, <2>1 DEF StoreIsOrderly, Orderly, NewestFirst
<1>9. WrittenIsShown'
  <2>1. ASSUME NEW u \in loaded', NEW k \in Keys, k \notin dirty'[u], writer[k] = u
        PROVE  stored[k] = shown'[u][k]
    <3>1. u # t
      BY <1>3, <2>1
    <3>2. u \in loaded /\ u \in TabIds
      BY <1>1, <1>2, <3>1 DEF TabsTypes
    <3> QED BY <1>1, <1>3, <2>1, <3>1, <3>2 DEF WrittenIsShown
  <2> QED BY <1>2, <2>1 DEF WrittenIsShown
<1>10. TabsTypes' /\ ClosedTabs'
  BY <1>1, <1>2, <1>3, <1>4 DEF TabsTypes, ClosedTabs
<1> QED BY <1>7, <1>8, <1>9, <1>10 DEF TabsInv

\* A tab is closed, its effects and timers with it.
LEMMA CloseInv ==
    ASSUME TabsInv, NEW t \in TabIds, Close(t)
    PROVE  TabsInv'
<1>1. TabsTypes /\ ClosedTabs /\ StoreIsOrderly /\ TabsAreOrderly /\ WrittenIsShown
  BY DEF TabsInv
<1>2. /\ loaded' = loaded \ {t} /\ stored' = stored /\ writer' = writer /\ made' = made
      /\ shown' = [shown EXCEPT ![t] = [k \in Keys |-> Unset]]
      /\ dirty' = [dirty EXCEPT ![t] = {}] /\ bell' = [bell EXCEPT ![t] = FALSE]
      /\ timers' = [timers EXCEPT ![t] = 0] /\ dialog' = [dialog EXCEPT ![t] = Unset]
  BY DEF Close, storage
<1>3. /\ DOMAIN shown' = TabIds /\ \A u \in TabIds : DOMAIN shown'[u] = Keys
      /\ \A u \in TabIds : u # t => /\ shown'[u] = shown[u] /\ dirty'[u] = dirty[u]
                                    /\ timers'[u] = timers[u] /\ dialog'[u] = dialog[u]
      /\ dirty'[t] = {} /\ timers'[t] = 0 /\ dialog'[t] = Unset
  BY <1>1, <1>2 DEF TabsTypes
<1>4. \A u \in loaded' : u \in loaded /\ u # t /\ u \in TabIds
  BY <1>1, <1>2 DEF TabsTypes
<1>5. TabsAreOrderly'
  BY <1>1, <1>2, <1>3, <1>4 DEF TabsAreOrderly, Items, Orderly, NewestFirst
<1>6. StoreIsOrderly'
  BY <1>1, <1>2 DEF StoreIsOrderly, Orderly, NewestFirst
<1>7. WrittenIsShown'
  BY <1>1, <1>2, <1>3, <1>4 DEF WrittenIsShown
<1>8. ClosedTabs'
  <2>1. \A u \in TabIds \ loaded' : u = t \/ u \in TabIds \ loaded
    BY <1>2
  <2> QED BY <1>1, <1>3, <2>1 DEF ClosedTabs
<1>9. TabsTypes'
  BY <1>1, <1>2, <1>3, TabsAssumption DEF TabsTypes
<1> QED BY <1>5, <1>6, <1>7, <1>8, <1>9 DEF TabsInv

\* A tab's effects write what is dirty to localStorage.
LEMMA EffectsInv ==
    ASSUME TabsInv, NEW t \in TabIds, Effects(t)
    PROVE  TabsInv'
<1>1. TabsTypes /\ ClosedTabs /\ StoreIsOrderly /\ TabsAreOrderly /\ WrittenIsShown
  BY DEF TabsInv
<1>2. /\ dirty[t] # {} /\ dirty' = [dirty EXCEPT ![t] = {}] /\ shown' = shown
      /\ Store(t, dirty[t]) /\ loaded' = loaded /\ made' = made
      /\ bell' = bell /\ timers' = timers /\ dialog' = dialog
  BY DEF Effects, ui
<1>3. t \in loaded /\ dirty[t] \in SUBSET Keys
  BY <1>1, <1>2 DEF ClosedTabs, TabsTypes
<1>4. TabsAreOrderly'
  BY <1>1, <1>2 DEF TabsAreOrderly, Items, Orderly, NewestFirst
<1>5. made' \in Nat /\ made <= made'
  BY <1>1, <1>2, TabsAssumption DEF TabsTypes
<1>6. \A u \in loaded, k \in Keys \ dirty[t] :
         shown'[u][k] = shown[u][k] /\ (k \in dirty[u] => k \in dirty'[u])
  BY <1>1, <1>2 DEF TabsTypes
<1>7. StoreIsOrderly' /\ WrittenIsShown' /\ writer' \in [Keys -> TabIds \cup {Unset}]
  BY <1>2, <1>3, <1>4, <1>5, <1>6, StoreWrites
<1>8. dirty' \in [TabIds -> SUBSET Keys] /\ \A u \in TabIds : dirty[u] = {} => dirty'[u] = {}
  BY <1>1, <1>2 DEF TabsTypes
<1>9. TabsTypes' /\ ClosedTabs'
  BY <1>1, <1>2, <1>7, <1>8 DEF TabsTypes, ClosedTabs
<1> QED BY <1>4, <1>7, <1>9 DEF TabsInv

\* A timer of the bell fires and marks all read.
LEMMA TimerInv ==
    ASSUME TabsInv, NEW t \in TabIds, TimerFires(t)
    PROVE  TabsInv'
<1>1. TabsTypes /\ ClosedTabs /\ StoreIsOrderly /\ TabsAreOrderly /\ WrittenIsShown
  BY DEF TabsInv
<1>2. /\ timers[t] > 0 /\ timers' = [timers EXCEPT ![t] = @ - 1]
      /\ shown' = [shown EXCEPT ![t]["notifications"] = AllRead(@)]
      /\ dirty' = [dirty EXCEPT ![t] = @ \cup {"notifications"}]
      /\ stored' = stored /\ writer' = writer /\ loaded' = loaded /\ made' = made
      /\ bell' = bell /\ dialog' = dialog
  BY DEF TimerFires, storage
<1>3. t \in loaded
  BY <1>1, <1>2 DEF ClosedTabs, TabsTypes
<1>4. /\ DOMAIN shown' = TabIds /\ \A u \in TabIds : DOMAIN shown'[u] = Keys
      /\ \A u \in TabIds : u # t => shown'[u] = shown[u] /\ dirty'[u] = dirty[u]
      /\ shown'[t]["notifications"] = AllRead(Items(t))
      /\ shown'[t]["network"] = shown[t]["network"]
      /\ dirty'[t] = dirty[t] \cup {"notifications"}
  BY <1>1, <1>2 DEF TabsTypes, Keys, Items
<1>5. TabsAreOrderly'
  <2>1. ASSUME NEW u \in loaded
        PROVE  /\ Orderly(shown'[u]["notifications"], made)
               /\ shown'[u]["network"] \in Networks
               /\ dialog[u] # shown'[u]["network"]
    <3>1. u \in TabIds /\ made \in Nat
      BY <1>1, TabsAssumption DEF TabsTypes
    <3>2. CASE u = t
      BY <1>1, <1>3, <1>4, <3>1, <3>2, OrderlyAllRead DEF TabsAreOrderly
    <3>3. CASE u # t
      BY <1>1, <1>4, <3>1, <3>3 DEF TabsAreOrderly, Items
    <3> QED BY <3>2, <3>3
  <2> QED BY <1>2, <2>1 DEF TabsAreOrderly, Items, Orderly, NewestFirst
<1>6. StoreIsOrderly'
  BY <1>1, <1>2 DEF StoreIsOrderly, Orderly, NewestFirst
<1>7. WrittenIsShown'
  <2>1. ASSUME NEW u \in loaded, NEW k \in Keys, k \notin dirty'[u], writer[k] = u
        PROVE  stored[k] = shown'[u][k]
    <3>1. u \in TabIds
      BY <1>1 DEF TabsTypes
    <3>2. CASE u = t
      <4>1. k = "network" /\ k \notin dirty[t]
        BY <1>4, <2>1, <3>2 DEF Keys
      <4> QED BY <1>1, <1>4, <2>1, <3>2, <4>1 DEF WrittenIsShown
    <3>3. CASE u # t
      BY <1>1, <1>4, <2>1, <3>1, <3>3 DEF WrittenIsShown
    <3> QED BY <3>2, <3>3
  <2> QED BY <1>2, <2>1 DEF WrittenIsShown
<1>8. timers' \in [TabIds -> 0..MaxTimers] /\ dirty' \in [TabIds -> SUBSET Keys]
  <2>1. timers[t] - 1 \in 0..MaxTimers
    BY <1>1, <1>2, TabsAssumption DEF TabsTypes
  <2>2. dirty[t] \cup {"notifications"} \in SUBSET Keys
    BY <1>1 DEF TabsTypes, Keys
  <2> QED BY <1>1, <1>2, <2>1, <2>2 DEF TabsTypes
<1>9. TabsTypes'
  BY <1>1, <1>2, <1>4, <1>8 DEF TabsTypes
<1>10. ClosedTabs'
  BY <1>1, <1>2, <1>3, <1>4 DEF ClosedTabs, TabsTypes
<1> QED BY <1>5, <1>6, <1>7, <1>9, <1>10 DEF TabsInv

\* The switch to the other network is confirmed, which pushes a note.
LEMMA ConfirmInv ==
    ASSUME TabsInv, NEW t \in TabIds, ConfirmSwitch(t)
    PROVE  TabsInv'
<1>1. TabsTypes /\ ClosedTabs /\ StoreIsOrderly /\ TabsAreOrderly /\ WrittenIsShown
  BY DEF TabsInv
<1>2. /\ t \in loaded /\ loaded' = loaded /\ dirty' = dirty /\ bell' = bell /\ timers' = timers
      /\ dialog[t] # Unset /\ made < MaxNotes /\ made' = made + 1
      /\ dialog' = [dialog EXCEPT ![t] = Unset]
      /\ Store(t, {"network", "notifications"})
  BY DEF ConfirmSwitch, Clicked
<1>3. /\ DOMAIN shown' = TabIds /\ \A u \in TabIds : DOMAIN shown'[u] = Keys
      /\ \A u \in TabIds : u # t => shown'[u] = shown[u] /\ dialog'[u] = dialog[u]
      /\ shown'[t]["notifications"] = Push(Items(t), New)
      /\ shown'[t]["network"] = dialog[t] /\ dialog'[t] = Unset
  BY <1>1, <1>2 DEF ConfirmSwitch, TabsTypes, Keys, Items
<1>4. made \in Nat /\ made' \in 0..MaxNotes /\ made' \in Nat /\ made <= made'
  BY <1>1, <1>2, TabsAssumption DEF TabsTypes
<1>5. New \in Notes /\ New.id = made + 1
  <2>1. made + 1 \in 1..MaxNotes
    BY <1>2, <1>4, TabsAssumption
  <2> QED BY <2>1 DEF New, Notes
<1>6. TabsAreOrderly'
  <2>1. ASSUME NEW u \in loaded
        PROVE  /\ Orderly(shown'[u]["notifications"], made')
               /\ shown'[u]["network"] \in Networks
               /\ dialog'[u] # shown'[u]["network"]
    <3>1. u \in TabIds
      BY <1>1 DEF TabsTypes
    <3>2. CASE u = t
      <4>1. Orderly(Items(t), made)
        BY <1>1, <1>2 DEF TabsAreOrderly
      <4>2. Orderly(Push(Items(t), New), made + 1)
        BY <1>4, <1>5, <4>1, OrderlyPush
      <4>3. dialog[t] \in Networks
        BY <1>1, <1>2 DEF TabsTypes
      <4> QED BY <1>2, <1>3, <3>2, <4>2, <4>3, TabsAssumption
    <3>3. CASE u # t
      BY <1>1, <1>3, <1>4, <3>1, <3>3, OrderlyGrows DEF TabsAreOrderly, Items
    <3> QED BY <3>2, <3>3
  <2> QED BY <1>2, <2>1 DEF TabsAreOrderly, Items, Orderly, NewestFirst
<1>7. StoreIsOrderly' /\ WrittenIsShown' /\ writer' \in [Keys -> TabIds \cup {Unset}]
  <2>1. {"network", "notifications"} \in SUBSET Keys /\ Keys \ {"network", "notifications"} = {}
    BY DEF Keys
  <2> QED BY <1>2, <1>4, <1>6, <2>1, StoreWrites
<1>8. dialog' \in [TabIds -> Networks \cup {Unset}]
  BY <1>1, <1>2 DEF TabsTypes
<1>9. TabsTypes' /\ ClosedTabs'
  BY <1>1, <1>2, <1>3, <1>4, <1>7, <1>8 DEF TabsTypes, ClosedTabs
<1> QED BY <1>6, <1>7, <1>9 DEF TabsInv

\* Every step of every tab keeps the invariant.
LEMMA TabsStepInv == TabsInv /\ [TabsNext]_tabsVars => TabsInv'
<1> SUFFICES ASSUME TabsInv, [TabsNext]_tabsVars PROVE TabsInv'
  OBVIOUS
<1>0. TabsTypes /\ ClosedTabs /\ TabsAreOrderly /\ made \in Nat
  BY TabsAssumption DEF TabsInv, TabsTypes
<1>1. ASSUME NEW t \in TabIds, OpenBell(t) PROVE TabsInv'
  <2>1. bell' \in [TabIds -> BOOLEAN] /\ t \in loaded /\ dialog' = dialog
    BY <1>0, <1>1 DEF OpenBell, TabsTypes, Clicked
  <2>2. timers' \in [TabIds -> 0..MaxTimers] /\ \A u \in TabIds \ loaded : timers'[u] = timers[u]
    <3>1. CASE timers' = timers
      BY <1>0, <3>1 DEF TabsTypes
    <3>2. CASE timers[t] < MaxTimers /\ timers' = [timers EXCEPT ![t] = @ + 1]
      <4>1. timers[t] + 1 \in 0..MaxTimers
        BY <1>0, <3>2, TabsAssumption DEF TabsTypes
      <4> QED BY <1>0, <2>1, <3>2, <4>1 DEF TabsTypes
    <3> QED BY <1>1, <3>1, <3>2 DEF OpenBell
  <2>3. dialog' \in [TabIds -> Networks \cup {Unset}] /\ \A u \in loaded : dialog'[u] # shown[u]["network"]
    BY <1>0, <2>1 DEF TabsTypes, TabsAreOrderly
  <2>4. UNCHANGED <<storage, shown, loaded, dirty, made>>
    BY <1>1 DEF OpenBell, Clicked
  <2> QED BY <2>1, <2>2, <2>3, <2>4, ViewChanges
<1>2. ASSUME NEW t \in TabIds, CloseBell(t) PROVE TabsInv'
  <2>1. bell' \in [TabIds -> BOOLEAN] /\ dialog' = dialog /\ timers' = timers
    BY <1>0, <1>2 DEF CloseBell, TabsTypes
  <2>2. UNCHANGED <<storage, shown, loaded, dirty, made>>
    BY <1>2 DEF CloseBell, Clicked
  <2> QED BY <1>0, <2>1, <2>2, ViewChanges DEF TabsTypes, TabsAreOrderly
<1>3. ASSUME NEW t \in TabIds, MarkAllRead(t) PROVE TabsInv'
  <2>1. Clicked(t) /\ SetsKey(t, "notifications", AllRead(Items(t))) /\ UNCHANGED <<ui, made>>
    BY <1>3 DEF MarkAllRead
  <2>2. Orderly(AllRead(Items(t)), made)
    BY <1>0, <2>1, OrderlyAllRead DEF TabsAreOrderly, Clicked
  <2> QED BY <2>1, <2>2, ListSet
<1>4. ASSUME NEW t \in TabIds, Clear(t) PROVE TabsInv'
  <2>1. PICK e : e = <<>>
    OBVIOUS
  <2>2. Clicked(t) /\ SetsKey(t, "notifications", e) /\ UNCHANGED <<ui, made>>
    BY <1>4, <2>1 DEF Clear
  <2>3. Orderly(e, made)
    BY <1>0, <2>1, OrderlyNone
  <2> QED BY <2>2, <2>3, ListSet
<1>5. ASSUME NEW t \in TabIds, Remove(t) PROVE TabsInv'
  <2>1. Clicked(t) /\ UNCHANGED <<ui, made>>
    BY <1>5 DEF Remove
  <2>2. Orderly(Items(t), made)
    BY <1>0, <2>1 DEF TabsAreOrderly, Clicked
  <2>3. PICK i \in 1..Len(Items(t)) : SetsKey(t, "notifications", SX!RemoveAt(Items(t), i))
    <3>1. DOMAIN Items(t) = 1..Len(Items(t))
      BY <2>2 DEF Orderly
    <3> QED BY <1>5, <3>1 DEF Remove
  <2>4. Orderly(SX!RemoveAt(Items(t), i), made)
    BY <1>0, <2>2, OrderlyRemove
  <2> QED BY <2>1, <2>3, <2>4, ListSet
<1>6. ASSUME NEW t \in TabIds, ChooseNetwork(t) PROVE TabsInv'
  <2>1. PICK c \in Networks \ {shown[t]["network"]} : dialog' = [dialog EXCEPT ![t] = c]
    BY <1>6 DEF ChooseNetwork
  <2>2. bell' \in [TabIds -> BOOLEAN] /\ timers' = timers /\ t \in loaded
    BY <1>0, <1>6 DEF ChooseNetwork, TabsTypes, Clicked
  <2>3. /\ dialog' \in [TabIds -> Networks \cup {Unset}]
        /\ \A u \in TabIds : u # t => dialog'[u] = dialog[u]
        /\ dialog'[t] = c
    BY <1>0, <2>1 DEF TabsTypes
  <2>4. \A u \in loaded : dialog'[u] # shown[u]["network"]
    BY <1>0, <2>1, <2>3 DEF TabsTypes, TabsAreOrderly
  <2>5. UNCHANGED <<storage, shown, loaded, dirty, made>>
    BY <1>6 DEF ChooseNetwork, Clicked
  <2> QED BY <1>0, <2>2, <2>3, <2>4, <2>5, ViewChanges DEF TabsTypes
<1>7. ASSUME NEW t \in TabIds, CancelSwitch(t) PROVE TabsInv'
  <2>1. dialog' = [dialog EXCEPT ![t] = Unset] /\ bell' = bell /\ timers' = timers /\ t \in loaded
    BY <1>7 DEF CancelSwitch, Clicked
  <2>2. /\ dialog' \in [TabIds -> Networks \cup {Unset}]
        /\ \A u \in TabIds : u # t => dialog'[u] = dialog[u]
        /\ dialog'[t] = Unset
    BY <1>0, <2>1 DEF TabsTypes
  <2>3. \A u \in loaded : dialog'[u] # shown[u]["network"]
    BY <1>0, <2>2, TabsAssumption DEF TabsTypes, TabsAreOrderly
  <2>4. UNCHANGED <<storage, shown, loaded, dirty, made>>
    BY <1>7 DEF CancelSwitch, Clicked
  <2> QED BY <1>0, <2>1, <2>2, <2>3, <2>4, ViewChanges DEF TabsTypes
<1>8. CASE UNCHANGED tabsVars
  <2>1. /\ UNCHANGED <<storage, shown, loaded, dirty, made>>
        /\ bell' = bell /\ timers' = timers /\ dialog' = dialog
    BY <1>8 DEF tabsVars, ui, storage
  <2> QED BY <1>0, <2>1, ViewChanges DEF TabsTypes, TabsAreOrderly
<1> QED BY <1>1, <1>2, <1>3, <1>4, <1>5, <1>6, <1>7, <1>8, LoadInv, CloseInv, EffectsInv, TimerInv,
           ConfirmInv DEF TabsNext

\* What holds of the tabs, however they write over each other: the lists are in order,
\* and a reload shows what the tab showed unless another tab has written since
\* (NotificationsProvider and NetworkProvider, their readInitial and their effects).
THEOREM TabsAreConsistent == TabsSpec => []TabsInvariant
<1>1. TabsInit => TabsInv
  BY TabsInitInv
<1>2. TabsInv /\ [TabsNext]_tabsVars => TabsInv'
  BY TabsStepInv
<1>3. TabsInv => TabsInvariant
  <2> SUFFICES ASSUME TabsInv PROVE TabsInvariant
    OBVIOUS
  <2>1. TabsTypes /\ ClosedTabs /\ StoreIsOrderly /\ TabsAreOrderly /\ WrittenIsShown
    BY DEF TabsInv
  <2>2. TabsTypeOK
    <3>1. \A k \in Keys : stored[k] = Unset \/ IsValue(k, stored[k])
      BY <2>1 DEF StoreIsOrderly, Orderly, IsValue, Keys
    <3>2. \A t \in loaded, k \in Keys : IsValue(k, shown[t][k])
      BY <2>1 DEF TabsAreOrderly, Items, Orderly, IsValue, Keys
    <3> QED BY <2>1, <3>1, <3>2 DEF TabsTypeOK, TabsTypes
  <2>3. NotesInOrder
    BY <2>1 DEF StoreIsOrderly, TabsAreOrderly, Orderly, NotesInOrder
  <2>4. ReloadKeeps
    <3>1. ASSUME NEW t \in loaded, NEW k \in Keys, dirty[t] = {}, writer[k] = t
          PROVE  Read(stored)[k] = shown[t][k]
      <4>1. stored[k] = shown[t][k]
        BY <2>1, <3>1 DEF WrittenIsShown
      <4>2. CASE k = "notifications"
        <5>1. shown[t][k] # Unset
          BY <2>1, <4>2, TabsAssumption DEF TabsAreOrderly, Items, Orderly
        <5> QED BY <4>1, <4>2, <5>1 DEF Read, InitialItems, Keys
      <4>3. CASE k = "network"
        <5>1. shown[t][k] \in {"mainnet", "devnet"}
          BY <2>1, <4>3 DEF TabsAreOrderly, Networks
        <5> QED BY <4>1, <4>3, <5>1 DEF Read, Keys
      <4> QED BY <4>2, <4>3 DEF Keys
    <3> QED BY <3>1 DEF ReloadKeeps
  <2> QED BY <2>2, <2>3, <2>4 DEF TabsInvariant
<1> QED BY <1>1, <1>2, <1>3, PTL DEF TabsSpec
-----------------------------------------------------------------------------
(* The bell's badge clears. *)

\* An open popover is that of a tab with no dialog, in which nothing is unread or a
\* timer runs.
BellInv ==
    \A t \in TabIds : bell[t] =>
        t \in loaded /\ dialog[t] = Unset /\ (Unread(t) = {} \/ timers[t] > 0)

\* What is marked read is.
LEMMA AllReadIsRead ==
    \A list \in Seq(Notes) :
        DOMAIN AllRead(list) = DOMAIN list /\ \A i \in DOMAIN list : AllRead(list)[i].read
<1> SUFFICES ASSUME NEW list \in Seq(Notes), NEW i \in DOMAIN list PROVE AllRead(list)[i].read
  BY DEF AllRead
<1>1. list[i] \in Notes
  OBVIOUS
<1>2. AllRead(list)[i] = [list[i] EXCEPT !.read = TRUE]
  BY DEF AllRead
<1> QED BY <1>1, <1>2 DEF Notes

\* And nothing becomes unread when a note is removed.
LEMMA RemoveAtIsRead ==
    \A list \in Seq(Notes) : \A i \in DOMAIN list :
        (\A j \in DOMAIN list : list[j].read)
          => \A j \in DOMAIN SX!RemoveAt(list, i) : SX!RemoveAt(list, i)[j].read
<1> SUFFICES ASSUME NEW list \in Seq(Notes), NEW i \in DOMAIN list,
                    \A j \in DOMAIN list : list[j].read,
                    NEW j \in DOMAIN SX!RemoveAt(list, i)
             PROVE  SX!RemoveAt(list, i)[j].read
  OBVIOUS
<1> DEFINE r == SX!RemoveAt(list, i)
<1>1. DOMAIN list = 1..Len(list) /\ Len(list) \in Nat
  OBVIOUS
<1>2. /\ r \in Seq(Notes) /\ Len(r) = Len(list) - 1
      /\ \A k \in 1..(Len(list) - 1) : r[k] = IF k < i THEN list[k] ELSE list[k + 1]
  BY <1>1, RemoveAtIs
<1> HIDE DEF r
<1>3. j \in DOMAIN r
  BY DEF r
<1>4. j \in 1..(Len(list) - 1)
  BY <1>2, <1>3
<1>5. j \in DOMAIN list /\ j + 1 \in DOMAIN list
  BY <1>1, <1>4
<1>6. r[j].read
  BY <1>2, <1>4, <1>5
<1> QED BY <1>6 DEF r

\* A tab that is not touched stays as it is, for the bell.
LEMMA BellKept ==
    ASSUME BellInv, NEW u \in TabIds,
           u \in loaded => u \in loaded', shown'[u] = shown[u], dialog'[u] = dialog[u],
           timers'[u] = timers[u], bell'[u] => bell[u]
    PROVE  bell'[u] => u \in loaded' /\ dialog'[u] = Unset /\ (Unread(u)' = {} \/ timers'[u] > 0)
BY DEF BellInv, Unread, Items

\* Nothing but the tab's own steps touches it.
LEMMA OtherTabs ==
    ASSUME TabsInv, NEW t \in TabIds, NEW u \in TabIds, u # t,
           \/ Load(t) \/ Close(t) \/ Effects(t) \/ TimerFires(t)
           \/ OpenBell(t) \/ CloseBell(t) \/ MarkAllRead(t) \/ Clear(t) \/ Remove(t)
           \/ ChooseNetwork(t) \/ CancelSwitch(t) \/ ConfirmSwitch(t)
    PROVE  /\ u \in loaded <=> u \in loaded'
           /\ shown'[u] = shown[u] /\ dialog'[u] = dialog[u]
           /\ timers'[u] = timers[u] /\ bell'[u] = bell[u]
<1> USE DEF TabsInv, TabsTypes
<1>1. ASSUME Load(t) \/ Close(t) \/ Effects(t) \/ TimerFires(t)
      PROVE  /\ u \in loaded <=> u \in loaded'
             /\ shown'[u] = shown[u] /\ dialog'[u] = dialog[u]
             /\ timers'[u] = timers[u] /\ bell'[u] = bell[u]
  BY <1>1 DEF Load, Close, Effects, TimerFires, ui
<1>2. ASSUME OpenBell(t) \/ CloseBell(t) \/ ChooseNetwork(t) \/ CancelSwitch(t)
      PROVE  /\ u \in loaded <=> u \in loaded'
             /\ shown'[u] = shown[u] /\ dialog'[u] = dialog[u]
             /\ timers'[u] = timers[u] /\ bell'[u] = bell[u]
  BY <1>2 DEF OpenBell, CloseBell, ChooseNetwork, CancelSwitch, Clicked
<1>3. ASSUME MarkAllRead(t) \/ Clear(t) \/ Remove(t) \/ ConfirmSwitch(t)
      PROVE  /\ u \in loaded <=> u \in loaded'
             /\ shown'[u] = shown[u] /\ dialog'[u] = dialog[u]
             /\ timers'[u] = timers[u] /\ bell'[u] = bell[u]
  BY <1>3 DEF MarkAllRead, Clear, Remove, ConfirmSwitch, SetsKey, Clicked, ui
<1> QED BY <1>1, <1>2, <1>3

\* The steps of a tab keep the bell's invariant.
LEMMA BellStepInv == TabsInv /\ TabsInv' /\ BellInv /\ [TabsNext]_tabsVars => BellInv'
<1> SUFFICES ASSUME TabsInv, TabsInv', BellInv, [TabsNext]_tabsVars PROVE BellInv'
  OBVIOUS
<1> DEFINE Good(u) ==
      bell[u] => u \in loaded /\ dialog[u] = Unset /\ (Unread(u) = {} \/ timers[u] > 0)
<1>0. TabsTypes /\ TabsAreOrderly
  BY DEF TabsInv
<1>1. CASE UNCHANGED tabsVars
  BY <1>1 DEF BellInv, tabsVars, ui, Unread, Items
<1>2. ASSUME NEW t \in TabIds,
             \/ Load(t) \/ Close(t) \/ Effects(t) \/ TimerFires(t)
             \/ OpenBell(t) \/ CloseBell(t) \/ MarkAllRead(t) \/ Clear(t) \/ Remove(t)
             \/ ChooseNetwork(t) \/ CancelSwitch(t) \/ ConfirmSwitch(t)
      PROVE  BellInv'
  <2>1. Good(t)
    BY DEF BellInv
  <2>2. t \in loaded => Items(t) \in Seq(Notes)
    BY <1>0 DEF TabsAreOrderly, Orderly
  <2>3. Good(t)'
    <3>1. CASE Load(t)
      BY <2>1, <3>1 DEF Load, ui
    <3>2. CASE Close(t)
      <4>1. ~bell'[t]
        BY <1>0, <3>2 DEF Close, TabsTypes
      <4> QED BY <4>1
    <3>3. CASE Effects(t)
      BY <2>1, <3>3 DEF Effects, ui, Unread, Items
    <3>4. CASE TimerFires(t)
      <4>1. timers[t] > 0 /\ loaded' = loaded /\ bell' = bell /\ dialog' = dialog
        BY <3>4 DEF TimerFires
      <4>2. Items(t)' = AllRead(Items(t))
        BY <1>0, <3>4 DEF TimerFires, TabsTypes, Items, Keys
      <4>3. t \in loaded => Unread(t)' = {}
        BY <2>2, <4>2, AllReadIsRead DEF Unread
      <4> QED BY <2>1, <4>1, <4>3
    <3>5. CASE OpenBell(t)
      <4>1. /\ t \in loaded /\ loaded' = loaded /\ dialog' = dialog /\ dialog[t] = Unset
            /\ Unread(t)' = Unread(t)
        BY <3>5 DEF OpenBell, Clicked, Unread, Items
      <4>2. Unread(t) # {} => timers'[t] > 0
        <5> SUFFICES ASSUME Unread(t) # {} PROVE timers'[t] > 0
          OBVIOUS
        <5>1. timers' = [timers EXCEPT ![t] = timers[t] + 1]
          BY <3>5 DEF OpenBell
        <5>2. timers[t] \in Nat /\ timers'[t] = timers[t] + 1
          BY <1>0, <5>1, TabsAssumption DEF TabsTypes
        <5> QED BY <5>2
      <4> QED BY <4>1, <4>2
    <3>6. CASE CloseBell(t) \/ ChooseNetwork(t)
      <4>1. ~bell'[t]
        BY <1>0, <3>6 DEF CloseBell, ChooseNetwork, TabsTypes
      <4> QED BY <4>1
    <3>7. CASE MarkAllRead(t)
      <4>1. t \in loaded /\ loaded' = loaded /\ bell' = bell /\ dialog' = dialog
        BY <3>7 DEF MarkAllRead, Clicked, ui
      <4>2. Items(t)' = AllRead(Items(t))
        BY <1>0, <3>7 DEF MarkAllRead, SetsKey, TabsTypes, Items, Keys
      <4>3. Unread(t)' = {}
        BY <2>2, <4>1, <4>2, AllReadIsRead DEF Unread
      <4> QED BY <2>1, <4>1, <4>3
    <3>8. CASE Clear(t)
      <4>1. loaded' = loaded /\ bell' = bell /\ dialog' = dialog
        BY <3>8 DEF Clear, Clicked, ui
      <4>2. PICK e : e = <<>>
        OBVIOUS
      <4>3. Items(t)' = e
        BY <1>0, <3>8, <4>2 DEF Clear, SetsKey, TabsTypes, Items, Keys
      <4>4. DOMAIN e = {}
        BY <4>2
      <4>5. Unread(t)' = {}
        BY <4>3, <4>4 DEF Unread
      <4> QED BY <2>1, <4>1, <4>5
    <3>9. CASE Remove(t)
      <4>1. /\ t \in loaded /\ loaded' = loaded /\ bell' = bell /\ dialog' = dialog
            /\ timers' = timers
        BY <3>9 DEF Remove, Clicked, ui
      <4>2. PICK i \in DOMAIN Items(t) : SetsKey(t, "notifications", SX!RemoveAt(Items(t), i))
        BY <3>9 DEF Remove
      <4>3. Items(t)' = SX!RemoveAt(Items(t), i)
        BY <1>0, <4>2 DEF SetsKey, TabsTypes, Items, Keys
      <4>4. Unread(t) = {} => Unread(t)' = {}
        BY <2>2, <4>1, <4>3, RemoveAtIsRead DEF Unread
      <4> QED BY <2>1, <4>1, <4>4
    <3>10. CASE CancelSwitch(t) \/ ConfirmSwitch(t)
      <4>1. dialog[t] # Unset /\ bell' = bell
        BY <3>10 DEF CancelSwitch, ConfirmSwitch
      <4> QED BY <2>1, <4>1
    <3> QED BY <1>2, <3>1, <3>2, <3>3, <3>4, <3>5, <3>6, <3>7, <3>8, <3>9, <3>10
  <2>4. ASSUME NEW u \in TabIds, u # t PROVE Good(u)'
    <3>1. /\ u \in loaded <=> u \in loaded'
          /\ shown'[u] = shown[u] /\ dialog'[u] = dialog[u]
          /\ timers'[u] = timers[u] /\ bell'[u] = bell[u]
      BY <1>2, <2>4, OtherTabs
    <3> QED BY <3>1, BellKept
  <2> QED BY <2>3, <2>4 DEF BellInv
<1> QED BY <1>1, <1>2 DEF TabsNext

\* A timer that runs does so until it fires, or the tab is closed.
LEMMA TimerRuns ==
    ASSUME TabsInv, NEW t \in TabIds, timers[t] > 0, [TabsNext]_tabsVars
    PROVE  timers'[t] > 0 \/ t \notin loaded' \/ Unread(t)' = {}
<1>0. TabsTypes /\ TabsAreOrderly /\ t \in loaded
  BY DEF TabsInv, ClosedTabs
<1>1. CASE UNCHANGED tabsVars
  BY <1>1 DEF tabsVars, ui
<1>2. ASSUME NEW u \in TabIds,
             \/ Load(u) \/ Close(u) \/ Effects(u) \/ TimerFires(u)
             \/ OpenBell(u) \/ CloseBell(u) \/ MarkAllRead(u) \/ Clear(u) \/ Remove(u)
             \/ ChooseNetwork(u) \/ CancelSwitch(u) \/ ConfirmSwitch(u)
      PROVE  timers'[t] > 0 \/ t \notin loaded' \/ Unread(t)' = {}
  <2>1. CASE u # t
    BY <1>2, <2>1, OtherTabs
  <2>2. CASE u = t /\ TimerFires(u)
    <3>1. Items(t)' = AllRead(Items(t))
      BY <1>0, <2>2 DEF TimerFires, TabsTypes, Items, Keys
    <3>2. Items(t) \in Seq(Notes)
      BY <1>0 DEF TabsAreOrderly, Orderly
    <3> QED BY <3>1, <3>2, AllReadIsRead DEF Unread
  <2>3. CASE u = t /\ Close(u)
    BY <2>3 DEF Close
  <2>4. CASE u = t /\ OpenBell(u)
    <3>1. CASE timers' = timers
      BY <3>1
    <3>2. CASE timers' = [timers EXCEPT ![t] = timers[t] + 1]
      BY <1>0, <3>2, TabsAssumption DEF TabsTypes
    <3> QED BY <2>4, <3>1, <3>2 DEF OpenBell
  <2>5. CASE u = t /\ ~TimerFires(u) /\ ~Close(u) /\ ~OpenBell(u)
    <3>1. timers' = timers
      BY <1>2, <2>5
         DEF Load, Effects, CloseBell, MarkAllRead, Clear, Remove, ChooseNetwork, CancelSwitch,
             ConfirmSwitch, ui
    <3> QED BY <3>1
  <2> QED BY <2>1, <2>2, <2>3, <2>4, <2>5
<1> QED BY <1>1, <1>2 DEF TabsNext

\* Where a timer that runs can fire, the badge of a bell that was opened clears, in
\* every tab, whatever the user does next (the Bell's effect and its timer).
THEOREM BadgeClearsHolds == TabsSpec /\ []TimersRun => BadgeClears
<1>1. TabsSpec /\ []TimersRun =>
        \A t \in TabIds : t \in loaded /\ bell[t] ~> t \notin loaded \/ Unread(t) = {}
  <2> SUFFICES ASSUME NEW t \in TabIds
               PROVE  TabsSpec /\ []TimersRun =>
                        (t \in loaded /\ bell[t] ~> t \notin loaded \/ Unread(t) = {})
    OBVIOUS
  <2> DEFINE Runs == timers[t] > 0
             Goal == t \notin loaded \/ Unread(t) = {}
  <2>1. TabsInit => BellInv
    BY DEF TabsInit, BellInv
  <2>2. TabsInit => TabsInv
    BY TabsInitInv
  <2>3. TabsInv /\ [TabsNext]_tabsVars => TabsInv'
    BY TabsStepInv
  <2>4. TabsInv /\ TabsInv' /\ BellInv /\ [TabsNext]_tabsVars => BellInv'
    BY BellStepInv
  <2>5. BellInv /\ t \in loaded /\ bell[t] => Runs \/ Goal
    BY DEF BellInv
  <2>6. TabsInv /\ Runs /\ [TabsNext]_tabsVars => Runs' \/ Goal'
    BY TimerRuns
  <2>7. TabsInv /\ Runs /\ <<TimerFires(t)>>_tabsVars => Goal'
    <3> SUFFICES ASSUME TabsInv, Runs, TimerFires(t) PROVE Unread(t)' = {}
      OBVIOUS
    <3>1. TabsTypes /\ TabsAreOrderly /\ t \in loaded
      BY DEF TabsInv, ClosedTabs
    <3>2. Items(t)' = AllRead(Items(t))
      BY <3>1 DEF TimerFires, TabsTypes, Items, Keys
    <3>3. Items(t) \in Seq(Notes)
      BY <3>1 DEF TabsAreOrderly, Orderly
    <3> QED BY <3>2, <3>3, AllReadIsRead DEF Unread
  <2>8. TimersRun => (Runs => ENABLED <<TimerFires(t)>>_tabsVars)
    BY DEF TimersRun
  <2>9. TabsSpec => TimerFair(t)
    BY DEF TabsSpec, TabsFairness
  <2> QED BY <2>1, <2>2, <2>3, <2>4, <2>5, <2>6, <2>7, <2>8, <2>9, PTL DEF TabsSpec, TimerFair
<1> QED BY <1>1, PTL DEF BadgeClears
==============================================================================
