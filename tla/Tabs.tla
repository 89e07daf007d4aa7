-------------------------------- MODULE Tabs --------------------------------
(***************************************************************************)
(* The dashboard in several tabs of one browser: the notifications and the *)
(* bell that shows them, and the network with its switcher.  A tab reads   *)
(* localStorage when it is loaded and never again; its effects write what  *)
(* changes, over whatever another tab has written meanwhile.               *)
(*                                                                         *)
(* A click is followed at once by its effects.  Those of a load or of the  *)
(* bell's timer run a little later: `dirty` holds what they have to write. *)
(***************************************************************************)
EXTENDS Naturals, Sequences
SX == INSTANCE SequencesExt

CONSTANTS
    TabIds,    \* the tabs
    Unset,     \* nothing stored under a key; no dialog
    MAX,       \* notifications kept
    MaxNotes,  \* bound on the notifications made
    MaxTimers  \* bound on the timers one tab has running

Networks == {"mainnet", "devnet"}
Keys == {"notifications", "network"}
Notes == [id : 1..MaxNotes, read : BOOLEAN]

ASSUME TabsAssumption ==
    /\ {MAX, MaxNotes, MaxTimers} \subseteq Nat /\ MAX > 0
    /\ Unset \notin Networks /\ Unset \notin Seq(Notes)

VARIABLES
    stored,  \* localStorage: the value of each key
    shown,   \* the state of each tab's providers, a value per key
    loaded,  \* the tabs that are open
    dirty,   \* per tab, the keys whose effect has yet to run
    bell,    \* is the tab's popover open?
    timers,  \* how many of the tab's timers run
    dialog,  \* the cluster the switcher asks about
    made,    \* notifications made so far: the next one's id and time
    writer   \* ghost: the tab that wrote each key last

storage == <<stored, writer>>
ui == <<bell, timers, dialog>>
tabsVars == <<stored, shown, loaded, dirty, ui, made, writer>>

IsValue(key, v) ==
    CASE key = "notifications" -> v \in Seq(Notes) /\ Len(v) <= MAX
      [] key = "network" -> v \in Networks

TabsInit ==
    /\ stored = [k \in Keys |-> Unset] /\ writer = [k \in Keys |-> Unset]
    /\ shown = [t \in TabIds |-> [k \in Keys |-> Unset]]
    /\ loaded = {} /\ dirty = [t \in TabIds |-> {}]
    /\ bell = [t \in TabIds |-> FALSE] /\ timers = [t \in TabIds |-> 0]
    /\ dialog = [t \in TabIds |-> Unset]
    /\ made = 0

Items(t) == shown[t]["notifications"]
Unread(t) == {i \in DOMAIN Items(t) : ~Items(t)[i].read}

-----------------------------------------------------------------------------
(* Loading and storing. *)

New == [id |-> made + 1, read |-> FALSE]

\* The list a tab starts with: the stored one, or a welcome.
\* Mutant: an empty list is taken for a missing one.
InitialItemsOfNone(list) == IF list \in {Unset, <<>>} THEN <<New>> ELSE list
InitialItems(list) == IF list = Unset THEN <<New>> ELSE list

Read(store) ==
    [k \in Keys |->
        CASE k = "notifications" -> InitialItems(store[k])
          [] k = "network" -> IF store[k] = "devnet" THEN "devnet" ELSE "mainnet"]

Load(t) ==
    /\ t \notin loaded /\ (stored["notifications"] = Unset => made < MaxNotes)
    /\ loaded' = loaded \cup {t}
    /\ shown' = [shown EXCEPT ![t] = Read(stored)]
    /\ made' = IF stored["notifications"] = Unset THEN made + 1 ELSE made
    /\ dirty' = [dirty EXCEPT ![t] = Keys]
    /\ UNCHANGED <<storage, ui>>

\* The user closes the tab, or begins to reload it.
Close(t) ==
    /\ t \in loaded /\ loaded' = loaded \ {t}
    /\ shown' = [shown EXCEPT ![t] = [k \in Keys |-> Unset]]
    /\ dirty' = [dirty EXCEPT ![t] = {}]
    /\ bell' = [bell EXCEPT ![t] = FALSE] /\ timers' = [timers EXCEPT ![t] = 0]
    /\ dialog' = [dialog EXCEPT ![t] = Unset]
    /\ UNCHANGED <<storage, made>>

\* The effects that write these keys, at the end of a step of t.
Store(t, keys) ==
    /\ stored' = [k \in Keys |-> IF k \in keys THEN shown'[t][k] ELSE stored[k]]
    /\ writer' = [k \in Keys |-> IF k \in keys THEN t ELSE writer[k]]

Effects(t) ==
    /\ dirty[t] # {} /\ dirty' = [dirty EXCEPT ![t] = {}]
    /\ UNCHANGED shown /\ Store(t, dirty[t])
    /\ UNCHANGED <<loaded, ui, made>>

\* A click of the user in t, which sets this key and has its effect run.
Clicked(t) == t \in loaded /\ dirty[t] = {} /\ UNCHANGED <<loaded, dirty>>
SetsKey(t, key, v) == shown' = [shown EXCEPT ![t][key] = v] /\ Store(t, {key})

-----------------------------------------------------------------------------
(* The bell. *)

AllRead(list) == [i \in DOMAIN list |-> [list[i] EXCEPT !.read = TRUE]]

\* What is unread is marked 400 ms after the popover opens.
OpenBell(t) ==
    /\ Clicked(t) /\ ~bell[t] /\ dialog[t] = Unset
    /\ bell' = [bell EXCEPT ![t] = TRUE]
    /\ IF Unread(t) = {} THEN UNCHANGED timers
       ELSE timers[t] < MaxTimers /\ timers' = [timers EXCEPT ![t] = @ + 1]
    /\ UNCHANGED <<storage, shown, dialog, made>>

\* Mutant: a closed popover's timer is cleared.
CloseBellAndTimer(t) ==
    /\ Clicked(t) /\ bell[t]
    /\ bell' = [bell EXCEPT ![t] = FALSE] /\ timers' = [timers EXCEPT ![t] = 0]
    /\ UNCHANGED <<storage, shown, dialog, made>>

CloseBell(t) ==
    /\ Clicked(t) /\ bell[t]
    /\ bell' = [bell EXCEPT ![t] = FALSE]
    /\ UNCHANGED <<storage, shown, timers, dialog, made>>

TimerFires(t) ==
    /\ timers[t] > 0 /\ timers' = [timers EXCEPT ![t] = @ - 1]
    /\ shown' = [shown EXCEPT ![t]["notifications"] = AllRead(@)]
    /\ dirty' = [dirty EXCEPT ![t] = @ \cup {"notifications"}]
    /\ UNCHANGED <<storage, loaded, bell, dialog, made>>

\* The buttons of the popover.
MarkAllRead(t) ==
    /\ Clicked(t) /\ bell[t] /\ Unread(t) # {}
    /\ SetsKey(t, "notifications", AllRead(Items(t)))
    /\ UNCHANGED <<ui, made>>

Clear(t) ==
    /\ Clicked(t) /\ bell[t] /\ Items(t) # <<>>
    /\ SetsKey(t, "notifications", <<>>)
    /\ UNCHANGED <<ui, made>>

Remove(t) ==
    /\ Clicked(t) /\ bell[t]
    /\ \E i \in DOMAIN Items(t) : SetsKey(t, "notifications", SX!RemoveAt(Items(t), i))
    /\ UNCHANGED <<ui, made>>

-----------------------------------------------------------------------------
(* The network switcher. *)

\* The button of the other cluster opens the dialog.  A click outside of the
\* popover closes it.
ChooseNetwork(t) ==
    /\ Clicked(t) /\ dialog[t] = Unset
    /\ \E c \in Networks \ {shown[t]["network"]} : dialog' = [dialog EXCEPT ![t] = c]
    /\ bell' = [bell EXCEPT ![t] = FALSE]
    /\ UNCHANGED <<storage, shown, timers, made>>

CancelSwitch(t) ==
    /\ Clicked(t) /\ dialog[t] # Unset
    /\ dialog' = [dialog EXCEPT ![t] = Unset]
    /\ UNCHANGED <<storage, shown, bell, timers, made>>

Push(list, n) == SubSeq(<<n>> \o list, 1, IF Len(list) < MAX THEN Len(list) + 1 ELSE MAX)

\* The network is set, and a notification says so.
ConfirmSwitch(t) ==
    /\ Clicked(t) /\ dialog[t] # Unset /\ made < MaxNotes
    /\ shown' = [shown EXCEPT ![t]["network"] = dialog[t],
                              ![t]["notifications"] = Push(@, New)]
    /\ Store(t, {"network", "notifications"})
    /\ made' = made + 1
    /\ dialog' = [dialog EXCEPT ![t] = Unset]
    /\ UNCHANGED <<bell, timers>>

TabsNext ==
    \E t \in TabIds :
        \/ Load(t) \/ Close(t) \/ Effects(t) \/ TimerFires(t)
        \/ OpenBell(t) \/ CloseBell(t) \/ MarkAllRead(t) \/ Clear(t) \/ Remove(t)
        \/ ChooseNetwork(t) \/ CancelSwitch(t) \/ ConfirmSwitch(t)

\* The browser runs timers and React its effects; nobody has to click.
EffectsFair(t) == WF_tabsVars(Effects(t))
TimerFair(t) == WF_tabsVars(TimerFires(t))
TabsFairness == \A t \in TabIds : EffectsFair(t) /\ TimerFair(t)

TabsSpec == TabsInit /\ [][TabsNext]_tabsVars /\ TabsFairness

-----------------------------------------------------------------------------
(* Properties. *)

TabsTypeOK ==
    /\ \A k \in Keys : stored[k] = Unset \/ IsValue(k, stored[k])
    /\ loaded \subseteq TabIds /\ writer \in [Keys -> TabIds \cup {Unset}]
    /\ \A t \in loaded, k \in Keys : IsValue(k, shown[t][k])
    /\ dirty \in [TabIds -> SUBSET Keys] /\ bell \in [TabIds -> BOOLEAN]
    /\ timers \in [TabIds -> 0..MaxTimers]
    /\ dialog \in [TabIds -> Networks \cup {Unset}]
    /\ made \in 0..MaxNotes

NewestFirst(list) == \A i, j \in DOMAIN list : i < j => list[i].id > list[j].id

\* Every list, in a tab or stored, has its newest notification first and none
\* twice, whatever the tabs write over each other; and the switcher asks about
\* the cluster the tab is not on.
NotesInOrder ==
    /\ stored["notifications"] # Unset => NewestFirst(stored["notifications"])
    /\ \A t \in loaded : NewestFirst(Items(t)) /\ dialog[t] # shown[t]["network"]

\* A reload shows what the tab showed, unless another tab has written since: a
\* list that was cleared stays so, and what was marked read is.
ReloadKeeps ==
    \A t \in loaded, k \in Keys :
        dirty[t] = {} /\ writer[k] = t => Read(stored)[k] = shown[t][k]

\* What holds of the tabs in every state: the types, the order of the lists, and
\* that a reload loses nothing.
TabsInvariant == TabsTypeOK /\ NotesInOrder /\ ReloadKeeps

\* Nothing in the tab can hold up a timer that runs.
TimersRun == \A t \in TabIds : timers[t] > 0 => ENABLED <<TimerFires(t)>>_tabsVars

\* Once the bell has been opened nothing stays unread in the tab for long, even
\* if it is closed at once and the network is switched (the Bell's comment: "mark
\* read shortly after open so the badge clears").
BadgeClears ==
    /\ []TimersRun
    /\ \A t \in TabIds : t \in loaded /\ bell[t] ~> t \notin loaded \/ Unread(t) = {}
=============================================================================
