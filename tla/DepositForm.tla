---------------------------- MODULE DepositForm ----------------------------
(***************************************************************************)
(* The deposit form: what the amount field makes of what the user types,   *)
(* the steps from the amount to the attempt (whose inside is DepositFlow), *)
(* and the balance the form checks against.  The balance comes from a      *)
(* query cache that outlives the form and the switch to another cluster:   *)
(* its key names the wallet and the mint, not the cluster.  The risk       *)
(* profile is kept in localStorage, and follows what other tabs write.     *)
(***************************************************************************)
EXTENDS Integers, Sequences, Functions

CONSTANTS
    Clusters,     \* mainnet and devnet
    None,         \* no cluster, no attempt
    Profiles,     \* risk profiles
    Typed,        \* characters the user may type
    Pasted,       \* texts the user may paste
    Cap,          \* MAX_DEPOSIT_WXRP
    Infinite,     \* the least whole number that JavaScript's Number makes Infinity
    Decimals,     \* decimals of wXRP
    Funds,        \* what the wallet holds at first on each cluster, in base units
    MaxDeposits   \* bound on the deposits made on a cluster

ASSUME FormAssumption ==
    /\ None \notin Clusters /\ Funds \in [Clusters -> Nat]
    /\ Cap \in Nat \ {0} /\ Infinite \in Nat /\ Infinite > Cap
    /\ Decimals \in Nat \ {0} /\ MaxDeposits \in Nat
    /\ Pasted \subseteq Seq(Nat) /\ Typed \subseteq Nat

VARIABLES
    cluster,   \* the cluster selected
    amount,    \* the text of the amount field
    step,      \* 1 amount, 2 review, 3 attempt
    stage,     \* of the attempt: "idle", "working", "done" or "error"
    profile,   \* the risk profile the form shows
    reviewed,  \* what the review showed: an amount, a cluster, a profile
    sent,      \* what the attempt under way deposits, where, by which profile; is it a retry?
    wxrp,      \* the wallet's wXRP on each cluster
    deposits,  \* deposits made on each cluster
    cache,     \* the balance in the cache: value, cluster, deposits it includes
    query,     \* the query in flight: its cluster, deposits it is sure to include, and
               \* whether a refetch after a deposit joined it
    stale,     \* is there no balance in the cache, or one older than staleTime?
    missed     \* ghost: did a query fail?

form == <<amount, step, stage, profile, reviewed, sent>>
chain == <<wxrp, deposits>>
balance == <<cache, query, stale>>
formVars == <<cluster, form, chain, balance, missed>>

-----------------------------------------------------------------------------
(* The amount field.  A character is a number: a digit what it stands for, then *)
(* the dot, and any number after it another character.                         *)

Digit == 0..9
Dot == 10

Tens[n \in Nat] == IF n = 0 THEN 1 ELSE 10 * Tens[n - 1]
Unit == Tens[Decimals]

Number(digits) == SumFunction([i \in DOMAIN digits |-> digits[i] * Tens[Len(digits) - i]])
Text[n \in Nat] == IF n < 10 THEN <<n>> ELSE Append(Text[n \div 10], n % 10)

\* The digits of a text.
DigitsOf(text) ==
    LET kept[i \in 0..Len(text)] ==
            IF i = 0 THEN <<>>
            ELSE IF text[i] \in Digit THEN Append(kept[i - 1], text[i]) ELSE kept[i - 1]
    IN  kept[Len(text)]

\* The place of the first dot of a text, one past its end if it has none.
DotOf(text) ==
    CHOOSE d \in 1..(Len(text) + 1) :
        /\ d \in DOMAIN text => text[d] = Dot
        /\ \A i \in 1..(d - 1) : text[i] # Dot
Whole(text) == DigitsOf(SubSeq(text, 1, DotOf(text) - 1))
Fraction(text) == DigitsOf(SubSeq(text, DotOf(text) + 1, Len(text)))
Shortened(digits, n) == SubSeq(digits, 1, IF Len(digits) < n THEN Len(digits) ELSE n)

\* No leading zeros stay, an amount from the cap on is the cap, and a whole number
\* that overflows to Infinity is none.
Capped(text, fraction) ==
    LET whole == Number(Whole(text))
    IN  IF whole >= Infinite THEN <<>>
        ELSE IF whole >= Cap THEN Text[Cap]
        ELSE Text[whole] \o (IF DotOf(text) > Len(text) THEN <<>> ELSE <<Dot>> \o fraction)

\* Digits and the first dot stay, and the fraction is cut.
\* Mutants: the fraction is not cut, or cut a digit too early.
SanitizeUncut(text) == Capped(text, Fraction(text))
SanitizeShort(text) == Capped(text, Shortened(Fraction(text), Decimals - 1))
Sanitize(text) == Capped(text, Shortened(Fraction(text), Decimals))

\* parseAmount: base units, or -1 for a text that is no amount.
Parse(text) ==
    IF Whole(text) = <<>> THEN -1
    ELSE Number(Whole(text)) * Unit
         + Number(Shortened(Fraction(text) \o [i \in 1..Decimals |-> 0], Decimals))

\* String(n) for a number of base units: no fraction if there is none, and no
\* zeros at its end.
Shown(units) ==
    LET fraction == [i \in 1..Decimals |-> (units \div Tens[Decimals - i]) % 10]
        used == {i \in 1..Decimals : fraction[i] # 0}
        last == IF used = {} THEN 0 ELSE CHOOSE i \in used : \A j \in used : j <= i
    IN  Text[units \div Unit] \o
        (IF used = {} THEN <<>> ELSE <<Dot>> \o SubSeq(fraction, 1, last))

-----------------------------------------------------------------------------
(* State. *)

Reviews == [amount : 0..(Cap * Unit), cluster : Clusters, profile : Profiles]
Sendings == [amount : 0..(Cap * Unit), cluster : Clusters, profile : Profiles, retry : BOOLEAN]

FormTypeOK ==
    /\ cluster \in Clusters
    /\ amount \in Seq(Digit \cup {Dot})
    /\ step \in 1..3 /\ stage \in {"idle", "working", "done", "error"}
    /\ profile \in Profiles
    /\ reviewed \in Reviews \cup {None}
    /\ sent \in Sendings \cup {None}
    /\ wxrp \in [Clusters -> Nat]
    /\ deposits \in [Clusters -> 0..MaxDeposits]
    /\ cache.value \in Nat \cup {-1}
    /\ query.cluster \in Clusters \cup {None}
    /\ stale \in BOOLEAN /\ missed \in BOOLEAN

Blank == [value |-> -1, cluster |-> None, seen |-> 0, joined |-> FALSE]
Idle == [cluster |-> None, seen |-> 0, joined |-> FALSE]
Ask(c) == [cluster |-> c, seen |-> deposits[c], joined |-> FALSE]

FormInit ==
    /\ cluster \in Clusters
    /\ amount = <<>> /\ step = 1 /\ stage = "idle" /\ reviewed = None
    /\ sent = None /\ profile \in Profiles
    /\ wxrp = Funds /\ deposits = [c \in Clusters |-> 0]
    /\ cache = Blank /\ query = Ask(cluster) /\ stale = TRUE
    /\ missed = FALSE

\* parseAmount's result has to be positive and, when it is known, within the balance.
Valid == Parse(amount) > 0 /\ (cache.value >= 0 => Parse(amount) <= cache.value)

-----------------------------------------------------------------------------
(* The form. *)

Sets(text) ==
    /\ step = 1 /\ amount' = Sanitize(text)
    /\ UNCHANGED <<cluster, step, stage, profile, reviewed, sent, chain, balance, missed>>

\* A character is typed or deleted at any place, or a text is pasted.
Edit ==
    \/ \E i \in 0..Len(amount), c \in Typed :
          Sets(SubSeq(amount, 1, i) \o <<c>> \o SubSeq(amount, i + 1, Len(amount)))
    \/ \E i \in 1..Len(amount) : Sets(SubSeq(amount, 1, i - 1) \o SubSeq(amount, i + 1, Len(amount)))
    \/ \E text \in Pasted : Sets(text)

PressMax ==
    /\ cache.value > 0
    /\ Sets(Shown(IF cache.value < Cap * Unit THEN cache.value ELSE Cap * Unit))

ChooseProfile ==
    /\ step = 1 /\ profile' \in Profiles
    /\ UNCHANGED <<cluster, amount, step, stage, reviewed, sent, chain, balance, missed>>

\* Another tab wrote a profile: the form takes it, also in the review, which
\* shows it from then on.
OtherTab ==
    /\ profile' \in Profiles
    /\ reviewed' = IF step = 2 THEN [reviewed EXCEPT !.profile = profile'] ELSE reviewed
    /\ UNCHANGED <<cluster, amount, step, stage, sent, chain, balance, missed>>

Review ==
    /\ step = 1 /\ Valid
    /\ step' = 2
    /\ reviewed' = [amount |-> Parse(amount), cluster |-> cluster, profile |-> profile]
    /\ UNCHANGED <<cluster, amount, stage, profile, sent, chain, balance, missed>>

Back ==
    /\ step = 2 /\ step' = 1 /\ reviewed' = None
    /\ UNCHANGED <<cluster, amount, stage, profile, sent, chain, balance, missed>>

\* The buttons of an attempt: none while it is under way.
Buttons ==
    IF step = 3 /\ stage = "done" THEN {"New deposit"}
    ELSE IF step = 3 /\ stage = "error" THEN {"Start over", "Retry"} ELSE {}

\* "Confirm deposit", and "Retry" after a failure.  Neither does anything when the
\* balance has dropped below the amount since.
Confirm ==
    /\ step = 2 \/ "Retry" \in Buttons
    /\ Valid
    /\ step' = 3 /\ stage' = "working"
    /\ sent' = [amount |-> Parse(amount), cluster |-> cluster, profile |-> profile,
                retry |-> step = 3]
    /\ UNCHANGED <<cluster, amount, profile, reviewed, chain, balance, missed>>

\* "New deposit" and "Start over".
Reset ==
    /\ Buttons \cap {"New deposit", "Start over"} # {}
    /\ amount' = <<>> /\ step' = 1 /\ stage' = "idle" /\ reviewed' = None
    /\ UNCHANGED <<cluster, profile, sent, chain, balance, missed>>

\* The settings, which are another view, store the profile chosen there.
SetInSettings == profile' \in Profiles

\* A form mounted anew: it asks for the balance unless it is fresh or asked for,
\* and reads the profile, which the settings or another tab may have changed.
\* An attempt of the form before goes on without it (DepositFlow follows it): for
\* the new form it spends like anybody else, see Spend.
MountForm(c) ==
    /\ amount' = <<>> /\ step' = 1 /\ stage' = "idle" /\ reviewed' = None /\ sent' = None
    /\ SetInSettings
    /\ query' = IF stale /\ query = Idle THEN Ask(c) ELSE query

ReopenForm ==
    /\ MountForm(cluster)
    /\ UNCHANGED <<cluster, chain, cache, stale, missed>>

\* Only the other cluster can be switched to, after a dialog.
SetNetwork(c) == c # cluster /\ cluster' = c

\* Everything below the network provider is mounted anew, by its key.
\* Mutant: without the key, the form stays.
SwitchKeepsForm ==
    /\ \E c \in Clusters : SetNetwork(c)
    /\ UNCHANGED <<form, chain, balance, missed>>

SwitchCluster ==
    /\ \E c \in Clusters : SetNetwork(c) /\ MountForm(c)
    /\ UNCHANGED <<chain, cache, stale, missed>>

-----------------------------------------------------------------------------
(* The attempt ends. *)

Lands(s) ==
    /\ s.amount <= wxrp[s.cluster] /\ deposits[s.cluster] < MaxDeposits
    /\ wxrp' = [wxrp EXCEPT ![s.cluster] = @ - s.amount]
    /\ deposits' = [deposits EXCEPT ![s.cluster] = @ + 1]

\* The form refetches the balance.  That replaces the query in flight, except the
\* first one: as long as nothing is cached the refetch joins it, older as it is.
\* Mutant: it joins a query in flight whatever is cached.
Joined ==
    [cluster |-> query.cluster, seen |-> query.seen,
     joined |-> query.joined \/ (cache = Blank /\ query.cluster = cluster)]

SucceedJoining ==
    /\ stage = "working" /\ Lands(sent)
    /\ stage' = "done" /\ sent' = None
    /\ query' = IF query # Idle THEN Joined
                ELSE [cluster |-> cluster, seen |-> deposits'[cluster], joined |-> FALSE]
    /\ UNCHANGED <<cluster, amount, step, profile, reviewed, cache, stale, missed>>

Succeed ==
    /\ stage = "working" /\ Lands(sent)
    /\ stage' = "done" /\ sent' = None
    /\ query' = IF query # Idle /\ cache = Blank THEN Joined
                ELSE [cluster |-> cluster, seen |-> deposits'[cluster], joined |-> FALSE]
    /\ UNCHANGED <<cluster, amount, step, profile, reviewed, cache, stale, missed>>

Fail ==
    /\ stage = "working" /\ stage' = "error" /\ sent' = None
    /\ UNCHANGED <<cluster, amount, step, profile, reviewed, chain, balance, missed>>

-----------------------------------------------------------------------------
(* The query. *)

Answer ==
    /\ query # Idle /\ query' = Idle /\ stale' = FALSE
    /\ cache' = [value |-> wxrp[query.cluster], cluster |-> query.cluster, seen |-> query.seen,
                 joined |-> query.joined]
    /\ UNCHANGED <<cluster, form, chain, missed>>

\* The query fails, and so do its retries: the old balance stays.
Unanswered ==
    /\ query # Idle /\ query' = Idle /\ missed' = TRUE
    /\ UNCHANGED <<cluster, form, chain, cache, stale>>

GrowStale ==
    /\ ~stale /\ stale' = TRUE
    /\ UNCHANGED <<cluster, form, chain, cache, query, missed>>

\* The window gets the focus: a stale balance is asked for again.
Focus ==
    /\ stale /\ query = Idle /\ query' = Ask(cluster)
    /\ UNCHANGED <<cluster, form, chain, cache, stale, missed>>

\* The user spends all wXRP elsewhere, or in an attempt whose form was left.
Spend ==
    /\ \E c \in Clusters : wxrp[c] > 0 /\ wxrp' = [wxrp EXCEPT ![c] = 0]
    /\ UNCHANGED <<cluster, form, deposits, balance, missed>>

FormNext ==
    \/ Edit \/ PressMax \/ ChooseProfile \/ OtherTab \/ Review \/ Back \/ Confirm \/ Reset
    \/ ReopenForm \/ SwitchCluster
    \/ Succeed \/ Fail
    \/ Answer \/ Unanswered \/ GrowStale \/ Focus
    \/ Spend

FormSpec == FormInit /\ [][FormNext]_formVars

-----------------------------------------------------------------------------
(* Properties. *)

\* Whatever is typed, deleted and pasted, the field holds nothing or an amount
\* that parses, has at most six decimals, and does not exceed the cap.
FieldHoldsAnAmount ==
    amount = <<>> \/ /\ Parse(amount) \in 0..(Cap * Unit)
                     /\ Len(Fraction(amount)) <= Decimals
                     /\ Sanitize(amount) = amount

\* The whole of it as the run checks it: the state has its types, and the field
\* holds an amount.
FormInvariant == FormTypeOK /\ FieldHoldsAnAmount

\* MAX puts in the whole balance shown, or the cap: to the last digit.
MaxIsAll ==
    [][PressMax => \/ Parse(amount') = cache.value /\ cache.value <= Cap * Unit
                   \/ Parse(amount') = Cap * Unit /\ cache.value > Cap * Unit]_formVars

\* What is deposited is what the review showed, on the cluster it was shown for,
\* through retries, edits and switches of the cluster, and by the profile it
\* showed, unless it is a retry: another tab may have changed the profile since.
SentIsReviewed ==
    stage = "working" =>
        /\ sent.amount = reviewed.amount
        /\ sent.cluster = reviewed.cluster /\ sent.cluster = cluster
        /\ sent.profile = reviewed.profile \/ sent.retry

\* Once no query is in flight, the balance shown includes every deposit made on
\* its cluster, unless a query failed, or the balance is what the first query found
\* while a deposit was made without waiting for it.
DepositIsSeen ==
    query = Idle /\ cache # Blank /\ ~missed /\ ~cache.joined =>
        cache.seen = deposits[cache.cluster]
=============================================================================
