--------------------------- MODULE GrouperProofs ---------------------------
(***************************************************************************)
(* The grouper implements GroupReports for every number of emitters,       *)
(* groups and offers.                                                      *)
(***************************************************************************)
EXTENDS Grouper, TLAPS

WindowRecords ==
    [key : Keys, deadline : Nat, members : Nat, summaries : Nat, panicked : BOOLEAN]

GrouperTypes ==
    /\ bucket \in [Keys -> Nat]
    /\ win \in Seq(WindowRecords)
    /\ hand \in [Goroutines -> SUBSET Nat]
    /\ closing \in BOOLEAN
    /\ run \in {"ticking", "draining", "ended"}
    /\ now \in Nat

\* The map holds windows under their own keys.
MapIsKeyed == \A k \in Keys : bucket[k] # 0 => bucket[k] \in 1..Len(win) /\ win[bucket[k]].key = k

\* A window is in the map or in one hand at most, and then not yet summarised.
InOnePlace ==
    /\ \A g \in Goroutines : \A w \in hand[g] : w \in 1..Len(win) /\ ~Open(w)
    /\ \A g, h \in Goroutines : hand[g] \cap hand[h] # {} => g = h

Unsummarised ==
    \A w \in 1..Len(win) : Open(w) \/ Held(w) => win[w].summaries = 0 /\ ~win[w].panicked

\* Nothing is in the map once the final flush has begun.
MapEmptied == closing => run # "ticking" /\ \A k \in Keys : bucket[k] = 0

Inv == GrouperTypes /\ MapIsKeyed /\ InOnePlace /\ Unsummarised /\ MapEmptied

-----------------------------------------------------------------------------
\* A window that leaves the hand of its holder is in no other.
LEMMA ReleaseOne ==
    ASSUME Inv, NEW g \in Goroutines, NEW w \in hand[g], Release(g, w)
    PROVE  /\ hand' \in [Goroutines -> SUBSET Nat]
           /\ \A h \in Goroutines : hand'[h] = hand[h] \ {w}
  BY DEF Inv, GrouperTypes, InOnePlace, Release

\* The windows made so far are records with a key of Keys.
LEMMA WindowsTyped ==
    ASSUME Inv, NEW w \in 1..Len(win)
    PROVE  win[w] \in WindowRecords /\ win[w].key \in Keys
  <1>1. win[w] \in WindowRecords
    BY DEF Inv, GrouperTypes
  <1> QED BY <1>1 DEF WindowRecords

\* Initially the map is empty and there is no window.
LEMMA InvInit == Init => Inv
  <1> SUFFICES ASSUME Init PROVE Inv
    OBVIOUS
  <1>1. Len(win) = 0 /\ win \in Seq(WindowRecords)
    BY DEF Init
  <1>2. GrouperTypes
    BY <1>1 DEF Init, GrouperTypes
  <1>3. MapIsKeyed
    BY DEF Init, MapIsKeyed
  <1>4. InOnePlace
    BY DEF Init, InOnePlace
  <1>5. Unsummarised
    BY <1>1 DEF Unsummarised
  <1>6. MapEmptied
    BY DEF Init, MapEmptied
  <1> QED BY <1>2, <1>3, <1>4, <1>5, <1>6 DEF Inv

\* Opening a window, with the one it replaces in the hand of the caller.
LEMMA InvOpens ==
    ASSUME Inv, NEW c \in Callers, NEW k \in Keys, OpenWindow(c, k)
    PROVE  Inv'
  <1> DEFINE n == Len(win) + 1
  <1>1. c \in Goroutines
    BY DEF Goroutines
  <1>2. NewWindow(k) \in WindowRecords
    BY GrouperConstants DEF NewWindow, WindowRecords, Inv, GrouperTypes
  <1>3. /\ win' \in Seq(WindowRecords)
        /\ Len(win') = n
        /\ win'[n] = NewWindow(k)
        /\ \A w \in 1..Len(win) : win'[w] = win[w]
        /\ Len(win) \in Nat
    BY <1>2 DEF OpenWindow, Inv, GrouperTypes
  <1>4. /\ bucket' \in [Keys -> Nat]
        /\ bucket'[k] = n
        /\ \A j \in Keys \ {k} : bucket'[j] = bucket[j]
    BY <1>3 DEF OpenWindow, Inv, GrouperTypes
  <1>5. /\ hand' \in [Goroutines -> SUBSET Nat]
        /\ hand[c] = {}
        /\ hand'[c] = IF bucket[k] = 0 THEN {} ELSE {bucket[k]}
        /\ \A g \in Goroutines \ {c} : hand'[g] = hand[g]
    BY <1>1 DEF OpenWindow, Offering, Taken, Inv, GrouperTypes
  <1>6. UNCHANGED <<closing, run, now>> /\ ~closing
    BY DEF OpenWindow, Accepting
  <1>7. \A w \in 1..Len(win) : win[w].key \in Keys
    BY WindowsTyped
  <1>8. \A w \in 1..Len(win) : Open(w)' <=> Open(w) /\ win[w].key # k
    BY <1>3, <1>4, <1>7 DEF Open, Inv, MapIsKeyed, GrouperTypes
  <1>9. NewWindow(k).key = k /\ NewWindow(k).summaries = 0 /\ NewWindow(k).panicked = FALSE
    BY DEF NewWindow
  <1>b. GrouperTypes'
    BY <1>3, <1>4, <1>5, <1>6 DEF Inv, GrouperTypes
  <1>c. MapIsKeyed'
    <2> SUFFICES ASSUME NEW j \in Keys, bucket'[j] # 0
                 PROVE  bucket'[j] \in 1..Len(win') /\ win'[bucket'[j]].key = j
      BY DEF MapIsKeyed
    <2>1. CASE j = k
      BY <2>1, <1>3, <1>4, <1>9
    <2>2. CASE j # k
      <3>1. bucket'[j] \in 1..Len(win) /\ win[bucket'[j]].key = j
        BY <2>2, <1>4 DEF Inv, MapIsKeyed
      <3> QED BY <3>1, <1>3
    <2> QED BY <2>1, <2>2
  <1>d. \A g \in Goroutines : \A w \in hand'[g] : w \in 1..Len(win) /\ ~Open(w)'
    BY <1>5, <1>8 DEF Inv, InOnePlace, MapIsKeyed, Open
  <1>e. \A g, h \in Goroutines : hand'[g] \cap hand'[h] # {} => g = h
    BY <1>5, <1>1 DEF Inv, InOnePlace, MapIsKeyed, Open
  <1>f. InOnePlace'
    BY <1>d, <1>e, <1>3 DEF InOnePlace
  <1>g. \A w \in 1..Len(win) : Held(w)' => Held(w) \/ Open(w)
    BY <1>5, <1>1 DEF Held, Open, Inv, MapIsKeyed
  <1>h. Unsummarised'
    BY <1>3, <1>8, <1>9, <1>g DEF Unsummarised, Inv
  <1>i. MapEmptied'
    BY <1>6 DEF MapEmptied
  <1> QED BY <1>b, <1>c, <1>f, <1>h, <1>i DEF Inv

\* Absorbing changes a count only.
LEMMA InvAbsorbs ==
    ASSUME Inv, NEW c \in Callers, NEW k \in Keys, Absorb(c, k)
    PROVE  Inv'
  <1> DEFINE b == bucket[k]
  <1>1. b \in 1..Len(win) /\ win[b] \in WindowRecords
    BY DEF Absorb, Inv, MapIsKeyed, GrouperTypes
  <1>2. [win[b] EXCEPT !.members = @ + 1] \in WindowRecords
    BY <1>1 DEF WindowRecords
  <1>3. win' = [win EXCEPT ![b] = [win[b] EXCEPT !.members = @ + 1]]
    BY DEF Absorb
  <1>a. win' \in Seq(WindowRecords) /\ Len(win') = Len(win)
    BY <1>1, <1>2, <1>3 DEF Inv, GrouperTypes
  <1>b. \A w \in 1..Len(win) : win'[w] = IF w = b THEN [win[b] EXCEPT !.members = @ + 1] ELSE win[w]
    BY <1>1, <1>3 DEF Inv, GrouperTypes
  <1>4. /\ win' \in Seq(WindowRecords)
        /\ Len(win') = Len(win)
        /\ \A w \in 1..Len(win) : /\ win'[w].key = win[w].key
                                  /\ win'[w].summaries = win[w].summaries
                                  /\ win'[w].panicked = win[w].panicked
    BY <1>a, <1>b, <1>1 DEF WindowRecords
  <1>5. UNCHANGED <<bucket, hand, closing, run, now>>
    BY DEF Absorb
  <1>6. \A w \in 1..Len(win) : (Open(w)' <=> Open(w)) /\ (Held(w)' <=> Held(w))
    BY <1>4, <1>5 DEF Open, Held
  <1>7. GrouperTypes' /\ MapIsKeyed' /\ MapEmptied'
    BY <1>4, <1>5 DEF Inv, GrouperTypes, MapIsKeyed, MapEmptied
  <1>8. InOnePlace' /\ Unsummarised'
    BY <1>4, <1>5, <1>6 DEF Inv, InOnePlace, Unsummarised
  <1> QED BY <1>7, <1>8 DEF Inv

\* What Take does, for flushExpired and FlushAll.
LEMMA InvTakes ==
    ASSUME Inv, NEW K \in SUBSET Keys, \A k \in K : bucket[k] # 0, ~Taken(Runner), Take(K),
           UNCHANGED <<win, now>>
    PROVE  /\ bucket' \in [Keys -> Nat] /\ hand' \in [Goroutines -> SUBSET Nat]
           /\ \A w \in 1..Len(win) : Open(w)' <=> Open(w) /\ win[w].key \notin K
           /\ \A w \in 1..Len(win) : Held(w)' <=> Held(w) \/ (Open(w) /\ win[w].key \in K)
           /\ MapIsKeyed' /\ InOnePlace' /\ Unsummarised'
  <1>1. Runner \in Goroutines /\ hand[Runner] = {}
    BY DEF Goroutines, Taken
  <1>2. /\ bucket' \in [Keys -> Nat]
        /\ \A k \in K : bucket'[k] = 0
        /\ \A k \in Keys \ K : bucket'[k] = bucket[k]
    BY DEF Take, Inv, GrouperTypes
  <1>3. /\ hand' \in [Goroutines -> SUBSET Nat]
        /\ hand'[Runner] = {bucket[k] : k \in K}
        /\ \A g \in Goroutines \ {Runner} : hand'[g] = hand[g]
    BY <1>1 DEF Take, Inv, GrouperTypes
  <1>4. \A w \in 1..Len(win) : win[w].key \in Keys
    BY WindowsTyped
  <1>5. \A w \in 1..Len(win) : Open(w)' <=> Open(w) /\ win[w].key \notin K
    BY <1>2, <1>4 DEF Open
  <1>6. \A w : w \in hand'[Runner] <=> w \in 1..Len(win) /\ Open(w) /\ win[w].key \in K
    BY <1>3 DEF Open, Inv, MapIsKeyed
  <1>7. \A w \in 1..Len(win) : Held(w)' <=> Held(w) \/ (Open(w) /\ win[w].key \in K)
    BY <1>1, <1>3, <1>6 DEF Held
  <1>8. MapIsKeyed'
    BY <1>2 DEF Inv, MapIsKeyed
  <1>9. InOnePlace'
    BY <1>1, <1>3, <1>5, <1>6 DEF Inv, InOnePlace
  <1>a. Unsummarised'
    BY <1>5, <1>7 DEF Inv, Unsummarised
  <1> QED BY <1>2, <1>3, <1>5, <1>7, <1>8, <1>9, <1>a

\* What happens to a window in hand when it is reported or lost to a panic.
LEMMA InvEmits ==
    ASSUME Inv, NEW g \in Goroutines, NEW w \in hand[g], Release(g, w), NEW r \in WindowRecords,
           r.key = win[w].key, win' = [win EXCEPT ![w] = r], UNCHANGED <<bucket, closing, run, now>>
    PROVE  /\ Inv'
           /\ w \in 1..Len(win) /\ ~Open(w) /\ Held(w) /\ Len(win') = Len(win)
           /\ \A v \in 1..Len(win) : win'[v] = IF v = w THEN r ELSE win[v]
           /\ \A v \in 1..Len(win) : (Open(v)' <=> Open(v)) /\ (Held(v)' <=> Held(v) /\ v # w)
  <1>1. /\ hand' \in [Goroutines -> SUBSET Nat]
        /\ \A h \in Goroutines : hand'[h] = hand[h] \ {w}
    BY ReleaseOne
  <1>2. w \in 1..Len(win) /\ ~Open(w) /\ Held(w)
    BY DEF Inv, InOnePlace, Held
  <1>3. win' \in Seq(WindowRecords) /\ Len(win') = Len(win)
    BY <1>2 DEF Inv, GrouperTypes
  <1>4. \A v \in 1..Len(win) : win'[v] = IF v = w THEN r ELSE win[v]
    BY <1>2 DEF Inv, GrouperTypes
  <1>5. \A v \in 1..Len(win) : win'[v].key = win[v].key
    BY <1>4
  <1>6. \A v \in 1..Len(win) : (Open(v)' <=> Open(v)) /\ (Held(v)' <=> Held(v) /\ v # w)
    BY <1>1, <1>5 DEF Open, Held
  <1>7. GrouperTypes'
    BY <1>1, <1>3 DEF Inv, GrouperTypes
  <1>8. MapIsKeyed' /\ MapEmptied'
    BY <1>3, <1>5 DEF Inv, MapIsKeyed, MapEmptied
  <1>9. InOnePlace'
    BY <1>1, <1>3, <1>6 DEF Inv, InOnePlace
  <1>a. Unsummarised'
    BY <1>2, <1>3, <1>4, <1>6 DEF Inv, Unsummarised
  <1> QED BY <1>2, <1>3, <1>4, <1>6, <1>7, <1>8, <1>9, <1>a DEF Inv

\* Both ways out of a hand change the record as InvEmits asks.
LEMMA EmittedRecord ==
    ASSUME Inv, NEW g \in Goroutines, NEW w \in hand[g], NEW m \in Nat, NEW p \in BOOLEAN
    PROVE  /\ [win[w] EXCEPT !.summaries = m] \in WindowRecords
           /\ [win[w] EXCEPT !.summaries = m].key = win[w].key
           /\ [win[w] EXCEPT !.panicked = p] \in WindowRecords
           /\ [win[w] EXCEPT !.panicked = p].key = win[w].key
  <1>1. w \in 1..Len(win)
    BY DEF Inv, InOnePlace
  <1>2. win[w] \in WindowRecords
    BY <1>1, WindowsTyped
  <1> QED BY <1>2 DEF WindowRecords

-----------------------------------------------------------------------------
\* Closing a window changes its abstract state and nothing else.
LEMMA StateAfterClose ==
    ASSUME NEW K, NEW w, win'[w] = win[w],
           Open(w)' <=> Open(w) /\ win[w].key \notin K,
           Held(w)' <=> Held(w) \/ (Open(w) /\ win[w].key \in K)
    PROVE  stateOf(w)' = IF Open(w) /\ win[w].key \in K THEN "closed" ELSE stateOf(w)
  BY DEF stateOf, Reported

\* What the abstract Closed(K) makes of a window.
LEMMA ClosedGroups ==
    ASSUME NEW K, NEW w \in Windows
    PROVE  Abstract!Closed(K)[w] =
             [key |-> win[w].key, absorbed |-> win[w].members, reports |-> win[w].summaries,
              state |-> IF Open(w) /\ win[w].key \in K THEN "closed" ELSE stateOf(w)]
  <1>1. groups[w] = [key |-> win[w].key, absorbed |-> win[w].members,
                     reports |-> win[w].summaries, state |-> stateOf(w)]
    BY DEF groups
  <1>2. stateOf(w) = "open" <=> Open(w)
    BY DEF stateOf
  <1>3. Abstract!Closed(K)[w] =
          IF groups[w].state = "open" /\ groups[w].key \in K
          THEN [groups[w] EXCEPT !.state = "closed"] ELSE groups[w]
    BY DEF Abstract!Closed, groups
  <1> QED BY <1>1, <1>2, <1>3

\* Take is an abstract Closed.
LEMMA TakeCloses ==
    ASSUME Inv, NEW K \in SUBSET Keys, \A k \in K : bucket[k] # 0, ~Taken(Runner), Take(K),
           UNCHANGED <<win, now>>
    PROVE  groups' = Abstract!Closed(K)
  <1>1. /\ \A w \in 1..Len(win) : Open(w)' <=> Open(w) /\ win[w].key \notin K
        /\ \A w \in 1..Len(win) : Held(w)' <=> Held(w) \/ (Open(w) /\ win[w].key \in K)
    BY InvTakes
  <1>2. Windows = 1..Len(win) /\ Windows' = Windows
    BY DEF Windows, Inv, GrouperTypes
  <1>3. ASSUME NEW w \in Windows
        PROVE  groups'[w] = Abstract!Closed(K)[w]
    <2>1. stateOf(w)' = IF Open(w) /\ win[w].key \in K THEN "closed" ELSE stateOf(w)
      BY <1>1, <1>2, <1>3, StateAfterClose
    <2>2. groups'[w] = [key |-> win[w].key, absorbed |-> win[w].members,
                        reports |-> win[w].summaries, state |-> stateOf(w)']
      BY <1>2, <1>3 DEF groups
    <2> QED BY <2>1, <2>2, ClosedGroups, <1>3
  <1>4. groups' = [w \in Windows |-> groups'[w]] /\ Abstract!Closed(K) = [w \in Windows |-> Abstract!Closed(K)[w]]
    BY <1>2 DEF groups, Abstract!Closed
  <1> QED BY <1>3, <1>4

\* OpenWindow is an abstract Opens.
LEMMA OpensRefined ==
    ASSUME Inv, NEW c \in Callers, NEW k \in Keys, OpenWindow(c, k)
    PROVE  Abstract!Step
  <1> DEFINE n == Len(win) + 1
             last == [key |-> k, absorbed |-> 0, reports |-> 0, state |-> "open"]
  <1>1. /\ Len(win') = n
        /\ win'[n] = NewWindow(k)
        /\ \A w \in 1..Len(win) : win'[w] = win[w]
        /\ Len(win) \in Nat
        /\ Windows = 1..Len(win) /\ Windows' = 1..n
    BY DEF OpenWindow, Inv, GrouperTypes, Windows
  <1>2. bucket' = [bucket EXCEPT ![k] = n] /\ ~closing /\ UNCHANGED closing
    BY <1>1 DEF OpenWindow, Accepting
  <1>3. c \in Goroutines /\ hand[c] = {}
    BY DEF OpenWindow, Offering, Taken, Goroutines
  <1>4. /\ hand'[c] = IF bucket[k] = 0 THEN {} ELSE {bucket[k]}
        /\ \A g \in Goroutines \ {c} : hand'[g] = hand[g]
    BY <1>3 DEF OpenWindow, Inv, GrouperTypes
  <1>5. \A w \in Windows : win[w].key \in Keys /\ w # n /\ w # 0
    BY <1>1, WindowsTyped
  <1>6. \A w \in Windows : Open(w)' <=> Open(w) /\ win[w].key \notin {k}
    BY <1>1, <1>2, <1>5 DEF Open, Inv, GrouperTypes
  <1>7. \A w \in Windows : w = bucket[k] <=> Open(w) /\ win[w].key \in {k}
    BY <1>1, <1>5 DEF Open, Inv, MapIsKeyed
  <1>8. \A w \in Windows : Held(w)' <=> Held(w) \/ (Open(w) /\ win[w].key \in {k})
    BY <1>3, <1>4, <1>5, <1>7 DEF Held
  <1>9. ASSUME NEW w \in Windows
        PROVE  groups'[w] = Abstract!Closed({k})[w]
    <2>1. stateOf(w)' = IF Open(w) /\ win[w].key \in {k} THEN "closed" ELSE stateOf(w)
      BY <1>1, <1>6, <1>8, <1>9, StateAfterClose
    <2>2. groups'[w] = [key |-> win[w].key, absorbed |-> win[w].members,
                        reports |-> win[w].summaries, state |-> stateOf(w)']
      BY <1>1, <1>9 DEF groups
    <2> QED BY <2>1, <2>2, ClosedGroups, <1>9
  <1>a. groups'[n] = last
    <2>1. /\ win'[n].key = k /\ win'[n].members = 0 /\ win'[n].summaries = 0
      BY <1>1 DEF NewWindow
    <2>2. bucket'[win'[n].key] = n
      BY <2>1, <1>2 DEF Inv, GrouperTypes
    <2>3. n \in Windows'
      BY <1>1
    <2> QED BY <2>1, <2>2, <2>3 DEF groups, stateOf, Open
  <1>b. DOMAIN groups = Windows /\ DOMAIN groups' = Windows \cup {n} /\ n \notin Windows
    BY <1>1 DEF groups
  <1>c. groups' = [w \in Windows \cup {n} |-> groups'[w]]
    BY <1>b DEF groups
  <1>d. groups' = [w \in Windows \cup {n} |-> IF w = n THEN last ELSE Abstract!Closed({k})[w]]
    BY <1>5, <1>9, <1>a, <1>c
  <1>e. Abstract!NewGroup(k) = last
    BY DEF Abstract!NewGroup
  <1>f. Abstract!Opens(n, k)
    BY <1>2, <1>b, <1>d, <1>e DEF Abstract!Opens
  <1>g. n \in DOMAIN groups' \ DOMAIN groups
    BY <1>b
  <1> HIDE DEF n
  <1> QED BY <1>f, <1>g DEF Abstract!Step

\* Absorb is an abstract Joins.
LEMMA JoinsRefined ==
    ASSUME Inv, NEW c \in Callers, NEW k \in Keys, Absorb(c, k)
    PROVE  Abstract!Step
  <1> DEFINE b == bucket[k]
  <1>1. b \in 1..Len(win) /\ win[b] \in WindowRecords /\ Open(b) /\ Windows = 1..Len(win)
    BY DEF Absorb, Inv, MapIsKeyed, GrouperTypes, Open, Windows
  <1>2. win' = [win EXCEPT ![b] = [win[b] EXCEPT !.members = @ + 1]] /\ UNCHANGED <<bucket, hand, closing>>
    BY DEF Absorb
  <1>3. /\ Windows' = Windows
        /\ \A w \in Windows : win'[w] = IF w = b THEN [win[b] EXCEPT !.members = @ + 1] ELSE win[w]
    BY <1>1, <1>2 DEF Inv, GrouperTypes, Windows
  <1>4. \A w \in Windows : win'[w].key = win[w].key /\ win'[w].summaries = win[w].summaries
    BY <1>3, <1>1 DEF WindowRecords
  <1>5. \A w \in Windows : (Open(w)' <=> Open(w)) /\ (Held(w)' <=> Held(w))
    BY <1>2, <1>4 DEF Open, Held
  <1>6. \A w \in Windows : stateOf(w)' = stateOf(w)
    <2>1. \A w \in Windows : w = b => stateOf(w)' = stateOf(w)
      BY <1>1, <1>5 DEF stateOf
    <2>2. \A w \in Windows \ {b} : stateOf(w)' = stateOf(w)
      BY <1>3, <1>5 DEF stateOf, Reported
    <2> QED BY <2>1, <2>2
  <1>7. win'[b].members = win[b].members + 1
    BY <1>1, <1>3 DEF WindowRecords
  <1>8. ASSUME NEW w \in Windows
        PROVE  groups'[w] = [groups EXCEPT ![b].absorbed = @ + 1][w]
    <2>0. DOMAIN groups = Windows /\ groups = [v \in Windows |-> groups[v]]
      BY DEF groups
    <2>1. groups'[w] = [key |-> win[w].key, absorbed |-> win'[w].members,
                        reports |-> win[w].summaries, state |-> stateOf(w)]
      BY <1>3, <1>4, <1>6 DEF groups
    <2>2. groups[w] = [key |-> win[w].key, absorbed |-> win[w].members,
                       reports |-> win[w].summaries, state |-> stateOf(w)]
      BY DEF groups
    <2>3. CASE w = b
      <3>1. [groups EXCEPT ![b].absorbed = @ + 1][b] = [groups[b] EXCEPT !.absorbed = groups[b].absorbed + 1]
        BY <1>1, <2>0
      <3>2. groups[b].absorbed = win[b].members
        BY <2>2, <2>3
      <3>3. [groups[b] EXCEPT !.absorbed = groups[b].absorbed + 1] =
              [key |-> win[b].key, absorbed |-> win[b].members + 1,
               reports |-> win[b].summaries, state |-> stateOf(b)]
        BY <2>2, <2>3, <3>2
      <3> QED BY <3>1, <3>3, <2>1, <2>3, <1>7
    <2>4. CASE w # b
      <3>1. [groups EXCEPT ![b].absorbed = @ + 1][w] = groups[w]
        BY <2>4, <2>0
      <3> QED BY <3>1, <2>1, <2>2, <2>4, <1>3
    <2> QED BY <2>3, <2>4
  <1>9. groups' = [groups EXCEPT ![b].absorbed = @ + 1]
    BY <1>3, <1>8 DEF groups
  <1>a. groups[b].state = "open" /\ b \in DOMAIN groups
    BY <1>1 DEF groups, stateOf
  <1>b. Abstract!Joins(b)
    BY <1>2, <1>9, <1>a DEF Abstract!Joins
  <1> QED BY <1>a, <1>b DEF Abstract!Step

\* A window that leaves a hand: the abstract state of the others stays.
LEMMA OthersKeepState ==
    ASSUME NEW w \in Windows, Windows' = Windows, NEW v \in Windows \ {w}, win'[v] = win[v],
           Open(v)' <=> Open(v), Held(v)' <=> Held(v) /\ v # w
    PROVE  groups'[v] = groups[v]
  BY DEF groups, stateOf, Reported

\* emitSummary is an abstract Reports.
LEMMA ReportsRefined ==
    ASSUME Inv, NEW g \in Goroutines, NEW w \in hand[g], emitSummary(g, w)
    PROVE  Inv' /\ Abstract!Step
  <1> DEFINE m == IF win[w].members = 0 THEN win[w].summaries ELSE win[w].summaries + 1
             r == [win[w] EXCEPT !.summaries = m]
  <1>1. w \in Windows /\ Windows = 1..Len(win) /\ win[w] \in WindowRecords
    BY WindowsTyped DEF Inv, InOnePlace, Windows, GrouperTypes
  <1>2. win[w].summaries = 0 /\ win[w].panicked = FALSE /\ win[w].members \in Nat
    BY <1>1 DEF Inv, Unsummarised, Held, WindowRecords
  <1>3. m \in Nat /\ m = (IF win[w].members = 0 THEN 0 ELSE 1)
    BY <1>2
  <1>4. r \in WindowRecords /\ r.key = win[w].key
    BY <1>3, EmittedRecord
  <1>5. win' = [win EXCEPT ![w] = r] /\ Release(g, w) /\ UNCHANGED <<bucket, closing, run, now>>
    BY <1>1 DEF emitSummary
  <1>6. /\ Inv' /\ ~Open(w) /\ Held(w) /\ Len(win') = Len(win)
        /\ \A v \in 1..Len(win) : win'[v] = IF v = w THEN r ELSE win[v]
        /\ \A v \in 1..Len(win) : (Open(v)' <=> Open(v)) /\ (Held(v)' <=> Held(v) /\ v # w)
    <2> HIDE DEF r
    <2> QED BY <1>4, <1>5, InvEmits
  <1>7. Windows' = Windows
    BY <1>1, <1>6 DEF Windows, Inv, GrouperTypes
  <1>8. \A v \in Windows \ {w} : groups'[v] = groups[v]
    BY <1>1, <1>6, <1>7, OthersKeepState
  <1>9. win'[w].key = win[w].key /\ win'[w].members = win[w].members /\ win'[w].summaries = m
        /\ win'[w].panicked = FALSE
    BY <1>1, <1>2, <1>3, <1>6 DEF WindowRecords
  <1>a. ~Open(w)' /\ ~Held(w)'
    BY <1>1, <1>6
  <1>b. Reported(w)'
    BY <1>3, <1>9 DEF Reported
  <1>c. stateOf(w)' = "done" /\ stateOf(w) = "closed"
    BY <1>6, <1>9, <1>a, <1>b DEF stateOf
  <1>d. groups'[w] = [key |-> win[w].key, absorbed |-> win[w].members, reports |-> m, state |-> "done"]
    BY <1>1, <1>7, <1>9, <1>c DEF groups
  <1>e. groups[w] = [key |-> win[w].key, absorbed |-> win[w].members, reports |-> win[w].summaries,
                     state |-> "closed"]
    BY <1>1, <1>c DEF groups
  <1>f. /\ DOMAIN groups = Windows /\ groups = [v \in Windows |-> groups[v]]
        /\ DOMAIN groups' = Windows /\ groups' = [v \in Windows |-> groups'[v]]
    BY <1>7 DEF groups
  <1> HIDE DEF m
  <1> DEFINE done == [key |-> win[w].key, absorbed |-> win[w].members, reports |-> m, state |-> "done"]
  <1>i. done = [key |-> groups[w].key, absorbed |-> groups[w].absorbed,
                reports |-> IF groups[w].absorbed = 0 THEN 0 ELSE 1, state |-> "done"]
    BY <1>3, <1>e
  <1>j. groups' = [groups EXCEPT ![w] = done]
    BY <1>1, <1>8, <1>d, <1>f
  <1>k. groups[w].state = "closed" /\ UNCHANGED closing
    BY <1>5, <1>e
  <1> HIDE DEF done
  <1>h. Abstract!Reports(w)
    BY <1>i, <1>j, <1>k DEF Abstract!Reports
  <1> QED BY <1>1, <1>6, <1>f, <1>h DEF Abstract!Step

\* emitPanics is an abstract Loses.
LEMMA LosesRefined ==
    ASSUME Inv, NEW w \in hand[Runner], emitPanics(w)
    PROVE  Inv' /\ Abstract!Step
  <1> DEFINE r == [win[w] EXCEPT !.panicked = TRUE]
  <1>0. Runner \in Goroutines
    BY DEF Goroutines
  <1>1. w \in Windows /\ Windows = 1..Len(win) /\ win[w] \in WindowRecords
    BY <1>0, WindowsTyped DEF Inv, InOnePlace, Windows, GrouperTypes
  <1>4. r \in WindowRecords /\ r.key = win[w].key
    BY <1>0, EmittedRecord
  <1>5. win' = [win EXCEPT ![w] = r] /\ Release(Runner, w) /\ UNCHANGED <<bucket, closing, run, now>>
    BY <1>1 DEF emitPanics
  <1>6. /\ Inv' /\ ~Open(w) /\ Held(w) /\ Len(win') = Len(win)
        /\ \A v \in 1..Len(win) : win'[v] = IF v = w THEN r ELSE win[v]
        /\ \A v \in 1..Len(win) : (Open(v)' <=> Open(v)) /\ (Held(v)' <=> Held(v) /\ v # w)
    <2> HIDE DEF r
    <2> QED BY <1>0, <1>4, <1>5, InvEmits
  <1>7. Windows' = Windows
    BY <1>1, <1>6 DEF Windows, Inv, GrouperTypes
  <1>8. \A v \in Windows \ {w} : groups'[v] = groups[v]
    BY <1>1, <1>6, <1>7, OthersKeepState
  <1>9. win'[w].key = win[w].key /\ win'[w].members = win[w].members
        /\ win'[w].summaries = win[w].summaries /\ win'[w].panicked = TRUE
    BY <1>1, <1>6 DEF WindowRecords
  <1>a. ~Open(w)' /\ ~Held(w)'
    BY <1>1, <1>6
  <1>c. stateOf(w)' = "lost" /\ stateOf(w) = "closed"
    BY <1>6, <1>9, <1>a DEF stateOf
  <1>d. groups'[w] = [key |-> win[w].key, absorbed |-> win[w].members, reports |-> win[w].summaries,
                      state |-> "lost"]
    BY <1>1, <1>7, <1>9, <1>c DEF groups
  <1>e. groups[w] = [key |-> win[w].key, absorbed |-> win[w].members, reports |-> win[w].summaries,
                     state |-> "closed"]
    BY <1>1, <1>c DEF groups
  <1>f. /\ DOMAIN groups = Windows /\ groups = [v \in Windows |-> groups[v]]
        /\ DOMAIN groups' = Windows /\ groups' = [v \in Windows |-> groups'[v]]
    BY <1>7 DEF groups
  <1>g. groups' = [groups EXCEPT ![w].state = "lost"]
    BY <1>1, <1>8, <1>d, <1>e, <1>f
  <1>h. Abstract!Loses(w)
    BY <1>5, <1>e, <1>g DEF Abstract!Loses
  <1> QED BY <1>1, <1>6, <1>f, <1>h DEF Abstract!Step

\* The steps of the flusher close windows.
LEMMA FlushRefined ==
    ASSUME Inv, flushExpired \/ FlushAll
    PROVE  Inv' /\ Abstract!Step
  <1>1. CASE flushExpired
    <2> DEFINE K == {k \in Keys : Expired(k)}
    <2>1. K \in SUBSET Keys /\ \A k \in K : bucket[k] # 0
      BY DEF Expired
    <2>2. ~Taken(Runner) /\ Take(K) /\ UNCHANGED <<win, closing, run, offers, now>>
      BY <1>1 DEF flushExpired
    <2> HIDE DEF K
    <2>3. /\ bucket' \in [Keys -> Nat] /\ hand' \in [Goroutines -> SUBSET Nat]
          /\ MapIsKeyed' /\ InOnePlace' /\ Unsummarised'
      BY <2>1, <2>2, InvTakes
    <2>4. GrouperTypes'
      BY <2>2, <2>3 DEF Inv, GrouperTypes
    <2>5. MapEmptied'
      BY <1>1, <2>2 DEF Inv, MapEmptied, flushExpired
    <2>6. groups' = Abstract!Closed(K)
      BY <2>1, <2>2, TakeCloses
    <2>7. Abstract!Closes(K)
      BY <2>2, <2>6 DEF Abstract!Closes
    <2> QED BY <2>1, <2>3, <2>4, <2>5, <2>7 DEF Inv, Abstract!Step
  <1>2. CASE FlushAll
    <2> DEFINE K == {k \in Keys : bucket[k] # 0}
    <2>1. K \in SUBSET Keys /\ \A k \in K : bucket[k] # 0
      OBVIOUS
    <2>2. ~Taken(Runner) /\ Take(K) /\ UNCHANGED <<win, offers, now>> /\ closing' = TRUE
          /\ run' = "draining" /\ run = "ticking"
      BY <1>2 DEF FlushAll
    <2>0. \A k \in Keys : bucket'[k] = 0
      BY <2>2 DEF Take
    <2>8. \A w \in 1..Len(win) : Open(w) => win[w].key \in K
      <3> SUFFICES ASSUME NEW w \in 1..Len(win), Open(w) PROVE win[w].key \in K
        OBVIOUS
      <3>1. win[w].key \in Keys /\ w # 0
        BY WindowsTyped
      <3> QED BY <3>1 DEF Open
    <2> HIDE DEF K
    <2>3. /\ bucket' \in [Keys -> Nat] /\ hand' \in [Goroutines -> SUBSET Nat]
          /\ MapIsKeyed' /\ InOnePlace' /\ Unsummarised'
      BY <2>1, <2>2, InvTakes
    <2>4. GrouperTypes'
      BY <2>2, <2>3 DEF Inv, GrouperTypes
    <2>5. MapEmptied'
      BY <2>0, <2>2 DEF MapEmptied
    <2>6. groups' = Abstract!Closed(K)
      BY <2>1, <2>2, TakeCloses
    <2>7. Abstract!Closed(K) = Abstract!Closed(Keys)
      <3>1. \A w \in Windows : Abstract!Closed(K)[w] = Abstract!Closed(Keys)[w]
        <4> SUFFICES ASSUME NEW w \in Windows
                     PROVE  Abstract!Closed(K)[w] = Abstract!Closed(Keys)[w]
          OBVIOUS
        <4>1. w \in 1..Len(win)
          BY DEF Windows, Inv, GrouperTypes
        <4>2. Open(w) => win[w].key \in K /\ win[w].key \in Keys
          BY <4>1, <2>1, <2>8
        <4> QED BY <4>2, ClosedGroups
      <3>2. \A J : Abstract!Closed(J) = [w \in Windows |-> Abstract!Closed(J)[w]]
        BY DEF Abstract!Closed, groups
      <3> QED BY <3>1, <3>2
    <2>9. ~closing
      BY <2>2 DEF Inv, MapEmptied, GrouperTypes
    <2>a. Abstract!Shuts
      BY <2>2, <2>6, <2>7, <2>9 DEF Abstract!Shuts
    <2> QED BY <2>3, <2>4, <2>5, <2>a DEF Inv, Abstract!Step
  <1> QED BY <1>1, <1>2

\* Every step of the grouper preserves the invariant and is a step of
\* GroupReports or leaves its variables alone.
LEMMA StepRefined ==
    ASSUME Inv, [Next]_vars
    PROVE  Inv' /\ [Abstract!Step]_(Abstract!reportVars)
  <1>1. ASSUME UNCHANGED <<bucket, win, hand, closing>>, GrouperTypes', MapEmptied'
        PROVE  Inv' /\ UNCHANGED Abstract!reportVars
    <2>1. UNCHANGED groups
      BY <1>1 DEF groups, stateOf, Windows, Open, Held, Reported
    <2>2. MapIsKeyed' /\ InOnePlace' /\ Unsummarised'
      BY <1>1 DEF Inv, MapIsKeyed, InOnePlace, Unsummarised, Open, Held
    <2> QED BY <1>1, <2>1, <2>2 DEF Inv, Abstract!reportVars
  <1>2. CASE UNCHANGED vars
    BY <1>2, <1>1 DEF vars, Inv, GrouperTypes, MapEmptied
  <1>3. ASSUME NEW c \in Callers, NEW k \in Keys, Offer(c, k)
        PROVE  Inv' /\ [Abstract!Step]_(Abstract!reportVars)
    <2>1. CASE PassThrough(c)
      BY <2>1, <1>1 DEF PassThrough, Inv, GrouperTypes, MapEmptied
    <2>2. CASE OpenWindow(c, k)
      BY <2>2, InvOpens, OpensRefined
    <2>3. CASE Absorb(c, k)
      BY <2>3, InvAbsorbs, JoinsRefined
    <2> QED BY <1>3, <2>1, <2>2, <2>3 DEF Offer
  <1>4. CASE flushExpired \/ FlushAll
    BY <1>4, FlushRefined
  <1>5. ASSUME NEW g \in Goroutines, Emits(g)
        PROVE  Inv' /\ [Abstract!Step]_(Abstract!reportVars)
    BY <1>5, ReportsRefined, LosesRefined DEF Emits
  <1>6. CASE RunEnds
    BY <1>6, <1>1 DEF RunEnds, Inv, GrouperTypes, MapEmptied
  <1>7. CASE Tick
    BY <1>7, <1>1 DEF Tick, Inv, GrouperTypes, MapEmptied
  <1> QED BY <1>2, <1>3, <1>4, <1>5, <1>6, <1>7 DEF Next

\* The grouper of internal/group keeps the promise of GroupReports, whatever Offer,
\* flushExpired, FlushAll and the summaries outside the lock do to each other.
THEOREM GrouperImplements == Spec => RefinesReports
  <1>1. Init => Abstract!Start
    BY DEF Init, Abstract!Start, groups, Windows
  <1>2. Inv /\ [Next]_vars => Inv' /\ [Abstract!Step]_(Abstract!reportVars)
    BY StepRefined
  <1> QED BY InvInit, <1>1, <1>2, PTL DEF Spec, RefinesReports, Abstract!Promise
=============================================================================
