--------------------------- MODULE PerimeterAdvisor ---------------------------
(***************************************************************************)
(* The advisor of the map (eve-map/advisor.ts): what a pilot is told       *)
(* unasked.  The tabs that watch a pilot, each with a radius of its own,   *)
(* share one state of the rules, which outlives them for a while.          *)
(*                                                                         *)
(* Of the level rules, which are alike, one is modelled, and of the edges  *)
(* the rise of the threat, the valuable kill and the all-clear.  A fact of *)
(* the level rule is one that every radius shows.  The cooldown of an edge *)
(* may or may not hold it back.                                            *)
(***************************************************************************)
EXTENDS Integers, FiniteSets, FiniteSetTheorems, TLAPS

CONSTANTS
  Tabs, Radii,
  Facts,     \* what the level rule may find: stateKey
  Kills,     \* kills worth an advisory
  Rearm,     \* REARM_AFTER_MS
  Grace,     \* STATE_GRACE_MS
  Quiet,     \* ALL_CLEAR_QUIET_MS
  Prose,     \* advisorLlmCooldownSeconds
  Bands,     \* 0: calm or watch, 1: elevated, 2: hostile or lethal
  MaxTime, MaxStates, Nothing

Times == 0..MaxTime

VARIABLES
  now, fact, band,     \* the clock, and the perimeter as each radius shows it
  tab,                 \* of each tab: its radius and the state it holds
  pending,             \* of each tab: the kills it has not judged
  pushed,              \* kills that happened
  made, refs, idle,    \* the shared state: its number, references, idleSinceMs
  held, lastBand, seen, quietSince, modelAt,
  said, noisy, risen, counted, prosed \* history

entry == <<made, refs, idle>>
rules == <<held, lastBand, seen, quietSince, modelAt>>
history == <<said, noisy, risen, counted, prosed>>
vars == <<now, fact, band, tab, pending, pushed, entry, rules, history>>

OrNothing(S) == S \cup {Nothing}

TypeOK ==
  /\ now \in Times /\ fact \in OrNothing(Facts) /\ band \in [Radii -> Bands]
  /\ tab \in [Tabs -> OrNothing([radius : Radii, state : 1..MaxStates])]
  /\ pending \in [Tabs -> SUBSET Kills] /\ pushed \subseteq Kills
  /\ made \in 0..MaxStates /\ refs \in 0..Cardinality(Tabs) /\ idle \in OrNothing(Times)
  /\ held \in OrNothing([key : Facts, seenAt : Times])
  /\ lastBand \in [Radii -> OrNothing(Bands)]
  /\ seen \subseteq Kills
  /\ quietSince \in OrNothing(Times) /\ modelAt \in OrNothing(Times)
  /\ said \in OrNothing([key : Facts, at : Times, same : BOOLEAN])
  /\ noisy \in OrNothing(Times) /\ risen \in [Radii -> BOOLEAN]
  /\ counted \in [Kills -> Nat] /\ prosed \in OrNothing(Times)

Init ==
  /\ now = 0 /\ fact = Nothing /\ band = [r \in Radii |-> 0]
  /\ tab = [t \in Tabs |-> Nothing] /\ pending = [t \in Tabs |-> {}] /\ pushed = {}
  /\ made = 0 /\ refs = 0 /\ idle = Nothing
  /\ held = Nothing /\ lastBand = [r \in Radii |-> Nothing]
  /\ seen = {} /\ quietSince = Nothing /\ modelAt = Nothing
  /\ said = Nothing /\ noisy = Nothing /\ risen = [r \in Radii |-> FALSE]
  /\ counted = [k \in Kills |-> 0] /\ prosed = Nothing

-----------------------------------------------------------------------------
(* Tabs: getSharedAdvisorState, releaseSharedAdvisorState.                 *)

\* The state is kept, or made anew.
Watched == refs > 0                                                \* a bug
Reused == made # 0 /\ (idle = Nothing \/ now - idle < Grace)

StaysIdle == idle                                                  \* a bug
NotIdle == Nothing

Attach(t, r) ==
  /\ tab[t] = Nothing
  /\ IF Reused
     THEN refs' = refs + 1 /\ idle' = NotIdle /\ UNCHANGED <<made, rules>>
     ELSE /\ made < MaxStates /\ made' = made + 1 /\ refs' = 1 /\ idle' = Nothing
          /\ held' = Nothing /\ lastBand' = [q \in Radii |-> Nothing]
          /\ seen' = {} /\ quietSince' = now /\ modelAt' = Nothing
  /\ tab' = [tab EXCEPT ![t] = [radius |-> r, state |-> made']]
  /\ UNCHANGED <<now, fact, band, pending, pushed, history>>

Detach(t) ==
  /\ tab[t] # Nothing
  /\ tab' = [tab EXCEPT ![t] = Nothing] /\ pending' = [pending EXCEPT ![t] = {}]
  /\ refs' = refs - 1
  /\ idle' = IF refs = 1 THEN now ELSE idle
  /\ UNCHANGED <<now, fact, band, pushed, made, rules, history>>

-----------------------------------------------------------------------------
(* The perimeter.                                                          *)

Tick ==
  /\ now < MaxTime /\ now' = now + 1
  /\ UNCHANGED <<fact, band, tab, pending, pushed, entry, rules, history>>

FactChanges(f) ==
  /\ f # fact /\ fact' = f
  /\ said' = IF said = Nothing THEN Nothing ELSE [said EXCEPT !.same = FALSE]
  /\ UNCHANGED <<now, band, tab, pending, pushed, entry, rules, noisy, risen, counted, prosed>>

BandChanges(r, b) ==
  /\ b # band[r] /\ band' = [band EXCEPT ![r] = b]
  /\ risen' = [risen EXCEPT ![r] = @ \/ b > band[r]]
  /\ UNCHANGED <<now, fact, tab, pending, pushed, entry, rules, said, noisy, counted, prosed>>

\* A kill goes to every stream.
Kill(k) ==
  /\ k \notin pushed /\ pushed' = pushed \cup {k}
  /\ pending' = [t \in Tabs |-> IF tab[t] # Nothing THEN pending[t] \cup {k} ELSE pending[t]]
  /\ UNCHANGED <<now, fact, band, tab, entry, rules, history>>

-----------------------------------------------------------------------------
(* evaluateAdvisories, for the tab t: the rules in their order, what they  *)
(* leave in the state, and which of the advisories are said.               *)

\* Level: said when it is not what is held.  What is gone is forgotten later.
Forgotten == Nothing                                               \* a bug
Rearmed == IF held # Nothing /\ now - held.seenAt >= Rearm THEN Nothing ELSE held

LevelSaid == fact # Nothing /\ (held = Nothing \/ held.key # fact)
HeldNow == IF fact = Nothing THEN Rearmed ELSE [key |-> fact, seenAt |-> now]

\* Threat: the band of this radius, since its last evaluation at any tab.
AnyRadius(r) == LET S == {q \in Radii : lastBand[q] # Nothing}     \* a bug
                IN IF S = {} THEN Nothing ELSE lastBand[CHOOSE q \in S : TRUE]
Previous(r) == lastBand[r]
Rise(r) == Previous(r) # Nothing /\ band[r] > Previous(r)

\* Kills: the one of the highest value of those nobody judged.
AllPending(t) == pending[t]                                        \* a bug
Fresh(t) == pending[t] \ seen

\* All clear: the perimeter was calm at every evaluation for so long.
StillCounting == quietSince                                        \* a bug
Broken == Nothing
Clear(r) == band[r] = 0 /\ quietSince # Nothing /\ now - quietSince >= Quiet
QuietNow(r) ==
  IF band[r] # 0 THEN Broken ELSE IF quietSince = Nothing \/ Clear(r) THEN now ELSE quietSince

\* shouldEscalateToModel: a level rule, or a rise to hostile that is said, and
\* the cooldown of the model.
Escalates(r, riseSaid) ==
  /\ LevelSaid \/ (riseSaid /\ band[r] = 2)
  /\ modelAt = Nothing \/ now - modelAt >= Prose

Evaluate(t) ==
  /\ tab[t] # Nothing
  /\ LET r == tab[t].radius
     IN /\ held' = HeldNow
        /\ lastBand' = [lastBand EXCEPT ![r] = band[r]]
        /\ seen' = seen \cup pending[t]
        /\ quietSince' = QuietNow(r)
        /\ \E riseSaid \in {FALSE, Rise(r)} :
             modelAt' = IF Escalates(r, riseSaid) THEN now ELSE modelAt
        /\ said' = IF LevelSaid THEN [key |-> fact, at |-> now, same |-> TRUE] ELSE said
        /\ noisy' = IF band[r] # 0 THEN now ELSE noisy
        /\ risen' = [risen EXCEPT ![r] = FALSE]
        /\ counted' = [k \in Kills |-> IF k \in Fresh(t) THEN counted[k] + 1 ELSE counted[k]]
        /\ prosed' = IF modelAt' = Nothing THEN prosed ELSE modelAt'
  /\ pending' = [pending EXCEPT ![t] = {}]
  /\ UNCHANGED <<now, fact, band, tab, pushed, entry>>

Next ==
  \/ \E t \in Tabs : (\E r \in Radii : Attach(t, r)) \/ Detach(t) \/ Evaluate(t)
  \/ Tick \/ \E f \in OrNothing(Facts) : FactChanges(f)
  \/ \E r \in Radii, b \in Bands : BandChanges(r, b)
  \/ \E k \in Kills : Kill(k)

Spec == Init /\ [][Next]_vars

-----------------------------------------------------------------------------
\* A tab holds the state that the others hold, and its reference.
OneState ==
  LET attached == {t \in Tabs : tab[t] # Nothing}
  IN refs = Cardinality(attached) /\ \A t \in attached : tab[t].state = made

\* A kill is judged once, however many tabs are handed it.
JudgedOnce == \A k \in Kills : counted[k] <= 1

Min2(m, n) == IF m < n THEN m ELSE n

\* Level rules "are said once when they become true, and again only when the
\* situation itself changes or has been gone long enough to be news again":
\* through evaluations of several tabs and reconnects.
NotNagged ==
  \A t \in Tabs : Evaluate(t) /\ LevelSaid /\ said # Nothing /\ said.key = fact
       => now - said.at >= IF said.same THEN Grace ELSE Min2(Rearm, Grace)

\* A rise that is announced happened in the perimeter of that radius, since it
\* was last looked at.
RiseIsReal == \A t \in Tabs : Evaluate(t) /\ Rise(tab[t].radius) => risen[tab[t].radius]

\* "Nothing has happened in the perimeter for fifteen minutes": no tab's
\* evaluation saw anything in that time.
ClearIsTrue ==
  \A t \in Tabs : Evaluate(t) /\ Clear(tab[t].radius)
       => noisy = Nothing \/ now - noisy >= Quiet

\* A reconnect does not buy another call of the model.
ProseIsRare ==
  \A t \in Tabs : Evaluate(t) /\ prosed # Nothing /\ modelAt' = now /\ modelAt # now
       => now - prosed >= Min2(Prose, Grace)

AdvisorState == OneState /\ JudgedOnce
AdvisorStep == NotNagged /\ RiseIsReal /\ ClearIsTrue /\ ProseIsRare

-----------------------------------------------------------------------------
(* Proofs, for any tabs, radii, facts, kills and intervals.                *)

\* There are finitely many tabs, bands are ordered and start calm, times are
\* numbers, and nothing is none of the values it stands for.
Sane ==
  /\ IsFiniteSet(Tabs) /\ Bands \subseteq Nat /\ 0 \in Bands
  /\ Rearm \in Nat /\ Grace \in Nat /\ Quiet \in Nat /\ Prose \in Nat
  /\ MaxTime \in Nat /\ MaxStates \in Nat
  /\ Nothing \notin Facts /\ Nothing \notin Bands /\ Nothing \notin Times
  /\ Nothing \notin [radius : Radii, state : 1..MaxStates]
  /\ Nothing \notin [key : Facts, seenAt : Times]
  /\ Nothing \notin [key : Facts, at : Times, same : BOOLEAN]

\* An idle state has no tab, and a state was there when anything was said.
Idle ==
  /\ idle # Nothing => refs = 0 /\ idle <= now
  /\ made = 0 => said = Nothing /\ noisy = Nothing /\ prosed = Nothing

\* A kill that was judged is known to the state, or to no tab that holds it.
Judged ==
  /\ \A t \in Tabs : pending[t] \subseteq pushed /\ (pending[t] # {} => tab[t] # Nothing)
  /\ \A k \in Kills : counted[k] # 0 =>
       k \in pushed /\ (k \in seen \/ \A t \in Tabs : k \notin pending[t])

\* What is held is what was said last; it is dropped when it is old, or has
\* been gone for as long as a rule takes to arm again.
Held ==
  /\ said # Nothing =>
       /\ said.at <= now /\ (idle # Nothing => said.at <= idle)
       /\ said.same => fact = said.key
       /\ held = Nothing => \/ now - said.at >= Grace
                            \/ ~said.same /\ now - said.at >= Rearm
  /\ held # Nothing => /\ said # Nothing /\ held.key = said.key
                       /\ said.at <= held.seenAt /\ held.seenAt <= now

\* A band rose above the one last looked at only by a rise, the calm counts
\* from after the last noise, and the model was called no later than noted.
Compared == \A r \in Radii : lastBand[r] # Nothing /\ ~risen[r] => band[r] <= lastBand[r]
Calm ==
  /\ noisy # Nothing => noisy <= now
  /\ quietSince # Nothing => quietSince <= now /\ (noisy # Nothing => noisy <= quietSince)
Called ==
  /\ modelAt # Nothing => prosed = modelAt
  /\ prosed # Nothing => /\ prosed <= now /\ (idle # Nothing => prosed <= idle)
                         /\ modelAt = Nothing => now - prosed >= Grace

Inv == TypeOK /\ OneState /\ JudgedOnce /\ Idle /\ Judged /\ Held /\ Compared /\ Calm /\ Called

\* It holds at the start.
LEMMA InvInit == ASSUME Sane, Init PROVE Inv
<1>1. TypeOK
  <2>1. Cardinality(Tabs) \in Nat
    BY FS_CardinalityType DEF Sane
  <2>. QED  BY <2>1 DEF Sane, Init, TypeOK, OrNothing, Times
<1>2. OneState
  <2>1. {t \in Tabs : tab[t] # Nothing} = {}
    BY DEF Init
  <2>. QED  BY <2>1, FS_EmptySet DEF Init, OneState
<1>3. JudgedOnce /\ Idle /\ Judged /\ Held /\ Compared /\ Calm /\ Called
  BY DEF Init, JudgedOnce, Idle, Judged, Held, Compared, Calm, Called
<1>. QED  BY <1>1, <1>2, <1>3 DEF Inv

\* The tabs that are attached.
LEMMA TabOpens ==
  ASSUME Sane, NEW t \in Tabs, tab[t] = Nothing, NEW w, w # Nothing,
         tab \in [Tabs -> OrNothing([radius : Radii, state : 1..MaxStates])],
         tab' = [tab EXCEPT ![t] = w]
  PROVE  Cardinality({u \in Tabs : tab'[u] # Nothing})
           = Cardinality({u \in Tabs : tab[u] # Nothing}) + 1
<1>. DEFINE A == {u \in Tabs : tab[u] # Nothing}
            B == {u \in Tabs : tab'[u] # Nothing}
<1>1. IsFiniteSet(A)
  BY FS_Subset DEF Sane
<1>2. B = A \cup {t} /\ t \notin A
  OBVIOUS
<1>. QED  BY <1>1, <1>2, FS_AddElement

LEMMA TabCloses ==
  ASSUME Sane, NEW t \in Tabs, tab[t] # Nothing,
         tab \in [Tabs -> OrNothing([radius : Radii, state : 1..MaxStates])],
         tab' = [tab EXCEPT ![t] = Nothing]
  PROVE  Cardinality({u \in Tabs : tab'[u] # Nothing})
           = Cardinality({u \in Tabs : tab[u] # Nothing}) - 1
<1>. DEFINE A == {u \in Tabs : tab[u] # Nothing}
            B == {u \in Tabs : tab'[u] # Nothing}
<1>1. IsFiniteSet(A)
  BY FS_Subset DEF Sane
<1>2. B = A \ {t} /\ t \in A
  OBVIOUS
<1>. QED  BY <1>1, <1>2, FS_RemoveElement

\* The references are numbered by the tabs.
LEMMA RefsAreTabs ==
  ASSUME Sane, Inv
  PROVE  /\ refs \in Nat /\ (refs = 0 => \A t \in Tabs : tab[t] = Nothing)
         /\ \A t \in Tabs : tab[t] # Nothing =>
              /\ refs # 0 /\ idle = Nothing /\ made # 0 /\ tab[t].radius \in Radii
              /\ tab[t].state = made
<1>. DEFINE A == {u \in Tabs : tab[u] # Nothing}
<1>1. IsFiniteSet(A)
  BY FS_Subset DEF Sane
<1>2. Cardinality(A) \in Nat /\ (Cardinality(A) = 0 <=> A = {})
  BY <1>1, FS_CardinalityType, FS_EmptySet
<1>3. refs = Cardinality(A) /\ \A t \in A : tab[t].state = made
  BY DEF Inv, OneState
<1>4. ASSUME NEW t \in Tabs, tab[t] # Nothing
      PROVE  tab[t].radius \in Radii /\ tab[t].state \in 1..MaxStates
  BY <1>4 DEF Inv, TypeOK, OrNothing
<1>5. ASSUME NEW t \in Tabs, tab[t] # Nothing
      PROVE  refs # 0 /\ idle = Nothing /\ made # 0
  <2>1. t \in A
    BY <1>5
  <2>2. refs # 0
    BY <1>2, <1>3, <2>1
  <2>3. made # 0
    BY <1>3, <1>4, <1>5, <2>1 DEF Sane
  <2>. QED  BY <2>2, <2>3 DEF Inv, Idle
<1>. QED  BY <1>2, <1>3, <1>4, <1>5

LEMMA AttachStep ==
  ASSUME Sane, Inv, NEW t \in Tabs, NEW r \in Radii, Attach(t, r) PROVE Inv'
<1>. DEFINE w == [radius |-> r, state |-> made']
<1>1. /\ tab[t] = Nothing /\ tab' = [tab EXCEPT ![t] = w]
      /\ UNCHANGED <<now, fact, band, pending, pushed, said, noisy, risen, counted, prosed>>
  BY DEF Attach, history
<1>2. /\ refs \in Nat /\ made \in 0..MaxStates /\ now \in Times /\ Times \subseteq Nat
      /\ tab \in [Tabs -> OrNothing([radius : Radii, state : 1..MaxStates])]
      /\ made \in Nat /\ MaxStates \in Nat
  <2>1. refs \in Nat
    BY RefsAreTabs
  <2>2. /\ made \in 0..MaxStates /\ now \in 0..MaxTime /\ MaxStates \in Nat
        /\ tab \in [Tabs -> OrNothing([radius : Radii, state : 1..MaxStates])]
    BY DEF Inv, TypeOK, Sane, Times
  <2>3. Times \subseteq Nat /\ now \in Times /\ made \in Nat
    BY <2>2 DEF Sane, Times
  <2>. QED  BY <2>1, <2>2, <2>3
<1>3. \/ /\ Reused /\ refs' = refs + 1 /\ idle' = Nothing
         /\ UNCHANGED <<made, held, lastBand, seen, quietSince, modelAt>>
      \/ /\ ~Reused /\ made' = made + 1 /\ made' \in 1..MaxStates /\ refs' = 1 /\ idle' = Nothing
         /\ held' = Nothing /\ lastBand' = [q \in Radii |-> Nothing]
         /\ seen' = {} /\ quietSince' = now /\ modelAt' = Nothing
  BY <1>2 DEF Attach, NotIdle, rules
<1>4. made' \in 1..MaxStates /\ made' \in 0..MaxStates /\ (Reused => made' = made)
  BY <1>2, <1>3 DEF Reused
<1>5. w \in [radius : Radii, state : 1..MaxStates] /\ w # Nothing /\ w.state = made'
  BY <1>4 DEF Sane
<1>. HIDE DEF w
<1>6. /\ tab' \in [Tabs -> OrNothing([radius : Radii, state : 1..MaxStates])] /\ tab'[t] = w
      /\ \A u \in Tabs : u # t => tab'[u] = tab[u]
  BY <1>1, <1>2, <1>5 DEF OrNothing
<1>7. ~Reused => (\A u \in Tabs : tab[u] = Nothing) /\ (made # 0 => idle # Nothing /\ now - idle >= Grace)
  <2>. SUFFICES ASSUME ~Reused
                PROVE  /\ \A u \in Tabs : tab[u] = Nothing
                       /\ made # 0 => idle # Nothing /\ now - idle >= Grace
    OBVIOUS
  <2>1. made = 0 => \A u \in Tabs : tab[u] = Nothing
    BY RefsAreTabs
  <2>2. idle # Nothing => \A u \in Tabs : tab[u] = Nothing
    BY RefsAreTabs DEF Inv, Idle
  <2>3. made # 0 => idle # Nothing /\ ~(now - idle < Grace)
    BY DEF Reused
  <2>4. idle # Nothing => idle \in Nat
    BY <1>2 DEF Inv, TypeOK, OrNothing
  <2>. QED  BY <1>2, <2>1, <2>2, <2>3, <2>4 DEF Sane
<1>8. OneState'
  <2>. DEFINE A == {u \in Tabs : tab[u] # Nothing}
  <2>1. Cardinality({u \in Tabs : tab'[u] # Nothing}) = Cardinality(A) + 1
    BY <1>1, <1>2, <1>5, TabOpens
  <2>2. refs = Cardinality(A) /\ \A u \in Tabs : tab[u] # Nothing => tab[u].state = made
    BY DEF Inv, OneState
  <2>3. ~Reused => Cardinality(A) = 0
    <3>1. ~Reused => A = {}
      BY <1>7
    <3>. QED  BY <3>1, FS_EmptySet
  <2>4. refs' = Cardinality({u \in Tabs : tab'[u] # Nothing})
    BY <1>3, <2>1, <2>2, <2>3
  <2>5. \A u \in Tabs : tab'[u] # Nothing => tab'[u].state = made'
    BY <1>4, <1>5, <1>6, <1>7, <2>2
  <2>. QED  BY <2>4, <2>5 DEF OneState
<1>9. refs' \in 0..Cardinality(Tabs)
  <2>1. IsFiniteSet(Tabs) /\ {u \in Tabs : tab'[u] # Nothing} \subseteq Tabs
    BY DEF Sane
  <2>2. Cardinality({u \in Tabs : tab'[u] # Nothing}) <= Cardinality(Tabs)
    BY <2>1, FS_Subset
  <2>3. refs' \in Nat /\ Cardinality(Tabs) \in Nat
    BY <1>2, <1>3, <2>1, FS_CardinalityType
  <2>. QED  BY <1>8, <2>2, <2>3 DEF OneState
<1>10. TypeOK'
  <2>1. /\ now' \in Times /\ fact' \in OrNothing(Facts) /\ band' \in [Radii -> Bands]
        /\ pending' \in [Tabs -> SUBSET Kills] /\ pushed' \subseteq Kills
        /\ said' \in OrNothing([key : Facts, at : Times, same : BOOLEAN])
        /\ noisy' \in OrNothing(Times) /\ risen' \in [Radii -> BOOLEAN]
        /\ counted' \in [Kills -> Nat] /\ prosed' \in OrNothing(Times)
    BY <1>1 DEF Inv, TypeOK
  <2>2. /\ idle' \in OrNothing(Times) /\ held' \in OrNothing([key : Facts, seenAt : Times])
        /\ lastBand' \in [Radii -> OrNothing(Bands)] /\ seen' \subseteq Kills
        /\ quietSince' \in OrNothing(Times) /\ modelAt' \in OrNothing(Times)
    BY <1>2, <1>3 DEF Inv, TypeOK, OrNothing
  <2>. QED  BY <1>4, <1>6, <1>9, <2>1, <2>2 DEF TypeOK
<1>11. JudgedOnce' /\ Judged'
  <2>1. ~Reused => \A u \in Tabs : pending[u] = {}
    BY <1>7 DEF Inv, Judged
  <2>2. \A u \in Tabs : tab[u] # Nothing => tab'[u] # Nothing
    BY <1>1, <1>6
  <2>3. \A u \in Tabs : pending'[u] \subseteq pushed' /\ (pending'[u] # {} => tab'[u] # Nothing)
    BY <1>1, <2>2 DEF Inv, Judged
  <2>4. \A k \in Kills : counted'[k] # 0 =>
          k \in pushed' /\ (k \in seen' \/ \A u \in Tabs : k \notin pending'[u])
    BY <1>1, <1>3, <2>1 DEF Inv, Judged
  <2>. QED  BY <1>1, <2>3, <2>4 DEF Inv, Judged, JudgedOnce
<1>12. Idle' /\ Compared' /\ Calm'
  <2>1. Idle'
    BY <1>2, <1>3, <1>4 DEF Idle
  <2>2. Compared'
    BY <1>1, <1>3 DEF Inv, Compared
  <2>3. Calm'
    BY <1>1, <1>2, <1>3 DEF Inv, Calm, Sane
  <2>. QED  BY <2>1, <2>2, <2>3
<1>13. Held'
  <2>1. CASE Reused
    <3>1. Held
      BY DEF Inv
    <3>. QED  BY <1>1, <1>3, <2>1, <3>1 DEF Held
  <2>2. CASE ~Reused
    <3>1. said # Nothing => /\ said.at <= now /\ (said.same => fact = said.key)
                            /\ now - said.at >= Grace
      <4>. SUFFICES ASSUME said # Nothing
                    PROVE  /\ said.at <= now /\ (said.same => fact = said.key)
                           /\ now - said.at >= Grace
        OBVIOUS
      <4>1. made # 0 /\ said.at \in Nat /\ idle # Nothing /\ idle \in Nat
        BY <1>2, <1>7, <2>2 DEF Inv, Idle, TypeOK, OrNothing
      <4>2. said.at <= now /\ (said.same => fact = said.key) /\ said.at <= idle
        BY <4>1 DEF Inv, Held
      <4>. QED  BY <1>2, <1>7, <2>2, <4>1, <4>2 DEF Sane
    <3>. QED  BY <1>1, <1>3, <2>2, <3>1 DEF Held
  <2>. QED  BY <2>1, <2>2
<1>14. Called'
  <2>1. CASE Reused
    <3>1. Called
      BY DEF Inv
    <3>. QED  BY <1>1, <1>3, <2>1, <3>1 DEF Called
  <2>2. CASE ~Reused
    <3>1. prosed # Nothing => prosed <= now /\ now - prosed >= Grace
      <4>. SUFFICES ASSUME prosed # Nothing PROVE prosed <= now /\ now - prosed >= Grace
        OBVIOUS
      <4>1. made # 0 /\ prosed \in Nat /\ idle # Nothing /\ idle \in Nat
        BY <1>2, <1>7, <2>2 DEF Inv, Idle, TypeOK, OrNothing
      <4>2. prosed <= now /\ prosed <= idle
        BY <4>1 DEF Inv, Called
      <4>. QED  BY <1>2, <1>7, <2>2, <4>1, <4>2 DEF Sane
    <3>. QED  BY <1>1, <1>3, <2>2, <3>1 DEF Called
  <2>. QED  BY <2>1, <2>2
<1>. QED  BY <1>8, <1>10, <1>11, <1>12, <1>13, <1>14 DEF Inv

LEMMA DetachStep == ASSUME Sane, Inv, NEW t \in Tabs, Detach(t) PROVE Inv'
<1>1. /\ tab[t] # Nothing /\ tab' = [tab EXCEPT ![t] = Nothing]
      /\ pending' = [pending EXCEPT ![t] = {}] /\ refs' = refs - 1
      /\ idle' = IF refs = 1 THEN now ELSE idle
      /\ UNCHANGED <<now, fact, band, pushed, made, held, lastBand, seen, quietSince, modelAt,
                     said, noisy, risen, counted, prosed>>
  BY DEF Detach, rules, history
<1>2. /\ refs \in Nat /\ refs # 0 /\ idle = Nothing /\ made # 0
      /\ now \in Times /\ Times \subseteq Nat
      /\ tab \in [Tabs -> OrNothing([radius : Radii, state : 1..MaxStates])]
      /\ pending \in [Tabs -> SUBSET Kills]
  <2>1. refs \in Nat /\ refs # 0 /\ idle = Nothing /\ made # 0
    BY <1>1, RefsAreTabs
  <2>2. Times \subseteq Nat
    BY DEF Sane, Times
  <2>. QED  BY <2>1, <2>2 DEF Inv, TypeOK
<1>3. /\ tab' \in [Tabs -> OrNothing([radius : Radii, state : 1..MaxStates])]
      /\ tab'[t] = Nothing /\ pending'[t] = {} /\ pending' \in [Tabs -> SUBSET Kills]
      /\ \A u \in Tabs : u # t => tab'[u] = tab[u] /\ pending'[u] = pending[u]
  BY <1>1, <1>2 DEF OrNothing
<1>4. OneState'
  <2>. DEFINE A == {u \in Tabs : tab[u] # Nothing}
  <2>1. Cardinality({u \in Tabs : tab'[u] # Nothing}) = Cardinality(A) - 1
    BY <1>1, <1>2, TabCloses
  <2>2. refs = Cardinality(A) /\ \A u \in Tabs : tab[u] # Nothing => tab[u].state = made
    BY DEF Inv, OneState
  <2>3. \A u \in Tabs : tab'[u] # Nothing => tab'[u].state = made'
    BY <1>1, <1>3, <2>2
  <2>. QED  BY <1>1, <2>1, <2>2, <2>3 DEF OneState
<1>5. TypeOK'
  <2>1. refs' \in 0..Cardinality(Tabs)
    <3>1. Cardinality(Tabs) \in Nat /\ refs \in 0..Cardinality(Tabs)
      BY FS_CardinalityType DEF Sane, Inv, TypeOK
    <3>. QED  BY <1>1, <1>2, <3>1
  <2>2. idle' \in OrNothing(Times)
    BY <1>1, <1>2 DEF OrNothing
  <2>. QED  BY <1>1, <1>3, <2>1, <2>2 DEF Inv, TypeOK
<1>6. JudgedOnce' /\ Judged'
  <2>1. \A u \in Tabs : pending'[u] \subseteq pending[u]
    BY <1>2, <1>3
  <2>2. \A u \in Tabs : pending'[u] \subseteq pushed' /\ (pending'[u] # {} => tab'[u] # Nothing)
    BY <1>1, <1>3 DEF Inv, Judged
  <2>. QED  BY <1>1, <2>1, <2>2 DEF Inv, JudgedOnce, Judged
<1>7. Idle' /\ Compared' /\ Calm'
  BY <1>1, <1>2 DEF Inv, Idle, Compared, Calm
<1>8. Held'
  BY <1>1, <1>2 DEF Inv, Held
<1>9. Called'
  BY <1>1, <1>2 DEF Inv, Called
<1>. QED  BY <1>4, <1>5, <1>6, <1>7, <1>8, <1>9 DEF Inv

\* The perimeter changes, and time passes.
LEMMA AroundStep ==
  ASSUME Sane, Inv,
         Tick \/ (\E f \in OrNothing(Facts) : FactChanges(f))
         \/ (\E r \in Radii, b \in Bands : BandChanges(r, b)) \/ (\E k \in Kills : Kill(k))
  PROVE  Inv'
<1>1. CASE Tick
  <2>1. /\ now \in Nat /\ now' = now + 1 /\ now' \in Times
        /\ UNCHANGED <<fact, band, tab, pending, pushed, made, refs, idle, held, lastBand, seen,
                       quietSince, modelAt, said, noisy, risen, counted, prosed>>
    BY <1>1 DEF Tick, Inv, TypeOK, Times, Sane, entry, rules, history
  <2>2. TypeOK' /\ OneState' /\ JudgedOnce' /\ Judged' /\ Compared'
    BY <2>1 DEF Inv, TypeOK, OneState, JudgedOnce, Judged, Compared
  <2>3. /\ idle # Nothing => idle \in Nat
        /\ noisy # Nothing => noisy \in Nat
        /\ quietSince # Nothing => quietSince \in Nat
        /\ prosed # Nothing => prosed \in Nat
        /\ said # Nothing => said.at \in Nat
        /\ held # Nothing => held.seenAt \in Nat
    BY DEF Inv, TypeOK, OrNothing, Times
  <2>4. Idle' /\ Calm'
    BY <2>1, <2>3 DEF Inv, Idle, Calm
  <2>5. Held'
    BY <2>1, <2>3 DEF Inv, Held, Sane
  <2>6. Called'
    BY <2>1, <2>3 DEF Inv, Called, Sane
  <2>. QED  BY <2>2, <2>4, <2>5, <2>6 DEF Inv
<1>2. ASSUME NEW f \in OrNothing(Facts), FactChanges(f) PROVE Inv'
  <2>1. /\ fact' = f /\ said' = IF said = Nothing THEN Nothing ELSE [said EXCEPT !.same = FALSE]
        /\ UNCHANGED <<now, band, tab, pending, pushed, made, refs, idle, held, lastBand, seen,
                       quietSince, modelAt, noisy, risen, counted, prosed>>
    BY <1>2 DEF FactChanges, entry, rules
  <2>2. said # Nothing =>
          /\ said' \in [key : Facts, at : Times, same : BOOLEAN] /\ said' # Nothing
          /\ said'.key = said.key /\ said'.at = said.at /\ said'.same = FALSE
    <3>1. said # Nothing => said \in [key : Facts, at : Times, same : BOOLEAN]
      BY DEF Inv, TypeOK, OrNothing
    <3>2. said # Nothing => said' \in [key : Facts, at : Times, same : BOOLEAN]
      BY <2>1, <3>1
    <3>. QED  BY <2>1, <3>1, <3>2 DEF Sane
  <2>3. said = Nothing <=> said' = Nothing
    BY <2>1, <2>2
  <2>4. TypeOK'
    BY <2>1, <2>2, <2>3 DEF Inv, TypeOK, OrNothing
  <2>5. OneState' /\ JudgedOnce' /\ Judged' /\ Idle' /\ Compared' /\ Calm' /\ Called'
    BY <2>1, <2>3 DEF Inv, OneState, JudgedOnce, Judged, Idle, Compared, Calm, Called
  <2>6. Held'
    <3>1. Held
      BY DEF Inv
    <3>2. said' # Nothing =>
            /\ said'.at <= now' /\ (idle' # Nothing => said'.at <= idle')
            /\ said'.same => fact' = said'.key
            /\ held' = Nothing => \/ now' - said'.at >= Grace
                                  \/ ~said'.same /\ now' - said'.at >= Rearm
      BY <2>1, <2>2, <2>3, <3>1 DEF Held
    <3>3. held' # Nothing => /\ said' # Nothing /\ held'.key = said'.key
                             /\ said'.at <= held'.seenAt /\ held'.seenAt <= now'
      BY <2>1, <2>2, <2>3, <3>1 DEF Held
    <3>. QED  BY <3>2, <3>3 DEF Held
  <2>. QED  BY <2>4, <2>5, <2>6 DEF Inv
<1>3. ASSUME NEW r \in Radii, NEW b \in Bands, BandChanges(r, b) PROVE Inv'
  <2>1. /\ band' = [band EXCEPT ![r] = b] /\ risen' = [risen EXCEPT ![r] = @ \/ b > band[r]]
        /\ UNCHANGED <<now, fact, tab, pending, pushed, made, refs, idle, held, lastBand, seen,
                       quietSince, modelAt, said, noisy, counted, prosed>>
    BY <1>3 DEF BandChanges, entry, rules
  <2>2. band \in [Radii -> Bands] /\ risen \in [Radii -> BOOLEAN] /\ Bands \subseteq Nat
        /\ lastBand \in [Radii -> OrNothing(Bands)]
    BY DEF Inv, TypeOK, Sane
  <2>3. TypeOK'
    <3>1. band' \in [Radii -> Bands]
      BY <2>1, <2>2
    <3>2. risen' \in [Radii -> BOOLEAN]
      BY <2>1, <2>2
    <3>. QED  BY <2>1, <3>1, <3>2 DEF Inv, TypeOK
  <2>4. OneState' /\ JudgedOnce' /\ Judged' /\ Idle' /\ Held' /\ Calm' /\ Called'
    BY <2>1 DEF Inv, OneState, JudgedOnce, Judged, Idle, Held, Calm, Called
  <2>5. Compared'
    <3>. SUFFICES ASSUME NEW q \in Radii, lastBand[q] # Nothing, ~risen'[q]
                  PROVE  band'[q] <= lastBand[q]
      BY <2>1 DEF Compared
    <3>1. CASE q # r
      <4>1. band'[q] = band[q] /\ risen'[q] = risen[q]
        BY <2>1, <2>2, <3>1
      <4>. QED  BY <4>1 DEF Inv, Compared
    <3>2. CASE q = r
      <4>1. band'[r] = b /\ ~risen[r] /\ ~(b > band[r])
        BY <2>1, <2>2, <3>2
      <4>2. band[r] <= lastBand[r] /\ lastBand[r] \in Nat /\ band[r] \in Nat /\ b \in Nat
        BY <2>2, <3>2, <4>1 DEF Inv, Compared, OrNothing
      <4>. QED  BY <3>2, <4>1, <4>2
    <3>. QED  BY <3>1, <3>2
  <2>. QED  BY <2>3, <2>4, <2>5 DEF Inv
<1>4. ASSUME NEW k \in Kills, Kill(k) PROVE Inv'
  <2>1. /\ k \notin pushed /\ pushed' = pushed \cup {k}
        /\ pending' = [t \in Tabs |-> IF tab[t] # Nothing THEN pending[t] \cup {k} ELSE pending[t]]
        /\ UNCHANGED <<now, fact, band, tab, made, refs, idle, held, lastBand, seen,
                       quietSince, modelAt, said, noisy, risen, counted, prosed>>
    BY <1>4 DEF Kill, entry, rules, history
  <2>2. TypeOK'
    BY <2>1 DEF Inv, TypeOK
  <2>3. OneState' /\ JudgedOnce' /\ Idle' /\ Held' /\ Compared' /\ Calm' /\ Called'
    BY <2>1 DEF Inv, OneState, JudgedOnce, Idle, Held, Compared, Calm, Called
  <2>4. Judged'
    <3>1. \A t \in Tabs : pending'[t] \subseteq pushed' /\ (pending'[t] # {} => tab'[t] # Nothing)
      BY <2>1 DEF Inv, Judged
    <3>2. \A l \in Kills : counted[l] # 0 => l # k /\ l \in pushed'
      BY <2>1 DEF Inv, Judged
    <3>3. \A t \in Tabs, l \in Kills : l # k /\ l \notin pending[t] => l \notin pending'[t]
      BY <2>1
    <3>. QED  BY <2>1, <3>1, <3>2, <3>3 DEF Inv, Judged
  <2>. QED  BY <2>2, <2>3, <2>4 DEF Inv
<1>. QED  BY <1>1, <1>2, <1>3, <1>4

\* What an evaluation does to the rules and to what was said.
LEMMA Evaluated ==
  ASSUME Sane, Inv, NEW t \in Tabs, Evaluate(t)
  PROVE  LET r == tab[t].radius IN
         /\ tab[t] # Nothing /\ r \in Radii /\ idle = Nothing /\ made # 0
         /\ now \in Nat /\ now \in Times /\ band[r] \in Nat /\ band[r] \in Bands
         /\ held' = HeldNow /\ lastBand' = [lastBand EXCEPT ![r] = band[r]]
         /\ seen' = seen \cup pending[t] /\ quietSince' = QuietNow(r)
         /\ \/ modelAt' = now /\ (modelAt = Nothing \/ now - modelAt >= Prose)
            \/ modelAt' = modelAt
         /\ said' = IF LevelSaid THEN [key |-> fact, at |-> now, same |-> TRUE] ELSE said
         /\ noisy' = IF band[r] # 0 THEN now ELSE noisy
         /\ risen' = [risen EXCEPT ![r] = FALSE]
         /\ counted' = [k \in Kills |-> IF k \in Fresh(t) THEN counted[k] + 1 ELSE counted[k]]
         /\ prosed' = IF modelAt' = Nothing THEN prosed ELSE modelAt'
         /\ pending' = [pending EXCEPT ![t] = {}]
         /\ UNCHANGED <<now, fact, band, tab, pushed, made, refs, idle>>
<1>1. tab[t] # Nothing
  BY DEF Evaluate
<1>2. tab[t].radius \in Radii /\ idle = Nothing /\ made # 0
  BY <1>1, RefsAreTabs
<1>3. now \in Nat /\ now \in Times /\ band[tab[t].radius] \in Bands /\ Bands \subseteq Nat
  BY <1>2 DEF Inv, TypeOK, Times, Sane
<1>. QED  BY <1>1, <1>2, <1>3 DEF Evaluate, Escalates, entry

LEMMA EvaluateStep == ASSUME Sane, Inv, NEW t \in Tabs, Evaluate(t) PROVE Inv'
<1>. DEFINE r == tab[t].radius
<1>1. /\ tab[t] # Nothing /\ r \in Radii /\ idle = Nothing /\ made # 0
      /\ now \in Nat /\ now \in Times /\ band[r] \in Nat /\ band[r] \in Bands
      /\ held' = HeldNow /\ lastBand' = [lastBand EXCEPT ![r] = band[r]]
      /\ seen' = seen \cup pending[t] /\ quietSince' = QuietNow(r)
      /\ \/ modelAt' = now /\ (modelAt = Nothing \/ now - modelAt >= Prose)
         \/ modelAt' = modelAt
      /\ said' = IF LevelSaid THEN [key |-> fact, at |-> now, same |-> TRUE] ELSE said
      /\ noisy' = IF band[r] # 0 THEN now ELSE noisy
      /\ risen' = [risen EXCEPT ![r] = FALSE]
      /\ counted' = [k \in Kills |-> IF k \in Fresh(t) THEN counted[k] + 1 ELSE counted[k]]
      /\ prosed' = IF modelAt' = Nothing THEN prosed ELSE modelAt'
      /\ pending' = [pending EXCEPT ![t] = {}]
      /\ UNCHANGED <<now, fact, band, tab, pushed, made, refs, idle>>
  BY Evaluated
<1>2. TypeOK
  BY DEF Inv
<1>. HIDE DEF r
<1>3. fact # Nothing => fact \in Facts
  BY <1>2 DEF TypeOK, OrNothing
<1>4. /\ fact # Nothing => [key |-> fact, at |-> now, same |-> TRUE]
                              \in [key : Facts, at : Times, same : BOOLEAN]
      /\ fact # Nothing => [key |-> fact, seenAt |-> now] \in [key : Facts, seenAt : Times]
  BY <1>1, <1>3
<1>5. said' \in OrNothing([key : Facts, at : Times, same : BOOLEAN])
  BY <1>1, <1>2, <1>4 DEF TypeOK, OrNothing, LevelSaid
<1>6. held' \in OrNothing([key : Facts, seenAt : Times])
  BY <1>1, <1>2, <1>4 DEF TypeOK, OrNothing, HeldNow, Rearmed
<1>7. modelAt' \in OrNothing(Times) /\ quietSince' \in OrNothing(Times)
      /\ noisy' \in OrNothing(Times) /\ prosed' \in OrNothing(Times)
  BY <1>1, <1>2 DEF TypeOK, OrNothing, QuietNow, Broken
<1>8. \A k \in Kills : counted[k] \in Nat /\ counted'[k] \in Nat
  BY <1>1, <1>2 DEF TypeOK
<1>9. TypeOK'
  <2>1. counted' \in [Kills -> Nat]
    BY <1>1, <1>8
  <2>2. risen' \in [Radii -> BOOLEAN]
    BY <1>1, <1>2 DEF TypeOK
  <2>3. lastBand' \in [Radii -> OrNothing(Bands)] /\ pending' \in [Tabs -> SUBSET Kills]
        /\ seen' \subseteq Kills
    BY <1>1, <1>2 DEF TypeOK, OrNothing
  <2>. QED  BY <1>1, <1>2, <1>5, <1>6, <1>7, <2>1, <2>2, <2>3 DEF TypeOK
<1>10. OneState'
  BY <1>1 DEF Inv, OneState
<1>11. Idle'
  BY <1>1 DEF Inv, Idle
<1>12. \A k \in Fresh(t) : k \in Kills /\ counted[k] = 0 /\ k \in pushed /\ k \in seen'
  <2>. SUFFICES ASSUME NEW k \in Fresh(t)
                PROVE  k \in Kills /\ counted[k] = 0 /\ k \in pushed /\ k \in seen'
    OBVIOUS
  <2>1. k \in pending[t] /\ k \notin seen
    BY DEF Fresh
  <2>2. k \in Kills /\ k \in pushed
    BY <1>2, <2>1 DEF TypeOK, Inv, Judged
  <2>. QED  BY <1>1, <2>1, <2>2 DEF Inv, Judged
<1>13. JudgedOnce' /\ Judged'
  <2>1. \A k \in Kills : counted[k] <= 1
    BY DEF Inv, JudgedOnce
  <2>2. JudgedOnce'
    BY <1>1, <1>8, <1>12, <2>1 DEF JudgedOnce
  <2>3. \A u \in Tabs : pending'[u] \subseteq pending[u]
    BY <1>1, <1>2 DEF TypeOK
  <2>4. \A u \in Tabs : pending'[u] \subseteq pushed' /\ (pending'[u] # {} => tab'[u] # Nothing)
    BY <1>1, <2>3 DEF Inv, Judged
  <2>5. \A k \in Kills : counted'[k] # 0 =>
          k \in pushed' /\ (k \in seen' \/ \A u \in Tabs : k \notin pending'[u])
    <3>. SUFFICES ASSUME NEW k \in Kills, counted'[k] # 0
                  PROVE  k \in pushed /\ (k \in seen' \/ \A u \in Tabs : k \notin pending'[u])
      BY <1>1
    <3>1. CASE k \in Fresh(t)
      BY <1>12, <3>1
    <3>2. CASE k \notin Fresh(t)
      <4>1. counted[k] # 0
        BY <1>1, <3>2
      <4>. QED  BY <1>1, <2>3, <4>1 DEF Inv, Judged
    <3>. QED  BY <3>1, <3>2
  <2>. QED  BY <2>2, <2>4, <2>5 DEF Judged
<1>14. Held'
  <2>1. Held
    BY DEF Inv
  <2>2. /\ said # Nothing => said.at \in Nat /\ said.key \in Facts
        /\ held # Nothing => held.seenAt \in Nat /\ held.key \in Facts
    BY <1>2 DEF TypeOK, OrNothing, Times
  <2>3. CASE LevelSaid
    <3>. DEFINE x == [key |-> fact, at |-> now, same |-> TRUE]
                y == [key |-> fact, seenAt |-> now]
    <3>1. fact # Nothing /\ said' = x /\ held' = y
      BY <1>1, <2>3 DEF LevelSaid, HeldNow
    <3>2. x # Nothing /\ x.key = fact /\ x.at = now /\ x.same = TRUE
      BY <1>4, <3>1 DEF Sane
    <3>3. y # Nothing /\ y.key = fact /\ y.seenAt = now
      BY <1>4, <3>1 DEF Sane
    <3>. HIDE DEF x, y
    <3>4. said' # Nothing =>
            /\ said'.at <= now' /\ (idle' # Nothing => said'.at <= idle')
            /\ said'.same => fact' = said'.key
            /\ held' = Nothing => \/ now' - said'.at >= Grace
                                  \/ ~said'.same /\ now' - said'.at >= Rearm
      BY <1>1, <3>1, <3>2, <3>3
    <3>5. held' # Nothing => /\ said' # Nothing /\ held'.key = said'.key
                             /\ said'.at <= held'.seenAt /\ held'.seenAt <= now'
      <4>1. now' = now /\ now <= now
        BY <1>1
      <4>. QED  BY <3>1, <3>2, <3>3, <4>1
    <3>. QED  BY <3>4, <3>5 DEF Held
  <2>4. CASE ~LevelSaid /\ fact # Nothing
    <3>. DEFINE y == [key |-> fact, seenAt |-> now]
    <3>1. held # Nothing /\ held.key = fact /\ held' = y /\ said' = said
      BY <1>1, <2>4 DEF LevelSaid, HeldNow
    <3>2. y # Nothing /\ y.key = fact /\ y.seenAt = now
      BY <1>4, <2>4 DEF Sane
    <3>. HIDE DEF y
    <3>3. said # Nothing /\ said.key = fact /\ said.at <= now
      BY <1>1, <2>1, <3>1 DEF Held
    <3>4. said.at \in Nat /\ (said.same => fact = said.key)
      BY <2>1, <2>2, <3>3 DEF Held
    <3>5. said' # Nothing =>
            /\ said'.at <= now' /\ (idle' # Nothing => said'.at <= idle')
            /\ said'.same => fact' = said'.key
            /\ held' = Nothing => \/ now' - said'.at >= Grace
                                  \/ ~said'.same /\ now' - said'.at >= Rearm
      BY <1>1, <3>1, <3>2, <3>3, <3>4
    <3>6. held' # Nothing => /\ said' # Nothing /\ held'.key = said'.key
                             /\ said'.at <= held'.seenAt /\ held'.seenAt <= now'
      <4>1. now' = now /\ now <= now
        BY <1>1
      <4>. QED  BY <3>1, <3>2, <3>3, <4>1
    <3>. QED  BY <3>5, <3>6 DEF Held
  <2>5. CASE ~LevelSaid /\ fact = Nothing
    <3>1. held' = Rearmed /\ said' = said
      BY <1>1, <2>5 DEF HeldNow
    <3>2. CASE held # Nothing /\ now - held.seenAt >= Rearm
      <4>1. held' = Nothing
        BY <3>1, <3>2 DEF Rearmed
      <4>2. said # Nothing /\ said.at <= held.seenAt /\ held.seenAt <= now
            /\ (said.same => fact = said.key)
        BY <2>1, <3>2 DEF Held
      <4>3. ~said.same
        BY <2>2, <2>5, <4>2 DEF Sane
      <4>4. now - said.at >= Rearm
        BY <1>1, <2>2, <3>2, <4>2 DEF Sane
      <4>. QED  BY <1>1, <2>1, <3>1, <4>1, <4>2, <4>3, <4>4 DEF Held
    <3>3. CASE ~(held # Nothing /\ now - held.seenAt >= Rearm)
      <4>1. held' = held
        BY <3>1, <3>3 DEF Rearmed
      <4>. QED  BY <1>1, <2>1, <3>1, <4>1 DEF Held
    <3>. QED  BY <3>2, <3>3
  <2>. QED  BY <2>3, <2>4, <2>5
<1>15. Compared'
  <2>. SUFFICES ASSUME NEW q \in Radii, lastBand'[q] # Nothing, ~risen'[q]
                PROVE  band[q] <= lastBand'[q]
    BY <1>1 DEF Compared
  <2>1. CASE q = r
    BY <1>1, <1>2, <2>1 DEF TypeOK
  <2>2. CASE q # r
    <3>1. lastBand'[q] = lastBand[q] /\ risen'[q] = risen[q]
      BY <1>1, <1>2, <2>2 DEF TypeOK
    <3>. QED  BY <3>1 DEF Inv, Compared
  <2>. QED  BY <2>1, <2>2
<1>16. Calm'
  <2>1. /\ noisy # Nothing => noisy \in Nat
        /\ quietSince # Nothing => quietSince \in Nat
    BY <1>2 DEF TypeOK, OrNothing, Times
  <2>2. CASE band[r] # 0
    <3>1. noisy' = now /\ quietSince' = Nothing
      BY <1>1, <2>2 DEF QuietNow, Broken
    <3>. QED  BY <1>1, <3>1 DEF Calm
  <2>3. CASE band[r] = 0
    <3>1. noisy' = noisy /\ (quietSince' = now \/ quietSince' = quietSince)
      BY <1>1, <2>3 DEF QuietNow
    <3>. QED  BY <1>1, <2>1, <3>1 DEF Inv, Calm
  <2>. QED  BY <2>2, <2>3
<1>17. Called'
  <2>1. now # Nothing
    BY <1>1 DEF Sane
  <2>2. CASE modelAt' = now
    BY <1>1, <2>1, <2>2 DEF Called
  <2>3. CASE modelAt' = modelAt
    BY <1>1, <2>3 DEF Inv, Called
  <2>. QED  BY <1>1, <2>2, <2>3
<1>. QED  BY <1>9, <1>10, <1>11, <1>13, <1>14, <1>15, <1>16, <1>17 DEF Inv

LEMMA InvStep == ASSUME Sane, Inv, [Next]_vars PROVE Inv'
<1>1. CASE UNCHANGED vars
  BY <1>1 DEF vars, entry, rules, history, Inv, TypeOK, OneState, JudgedOnce, Idle, Judged, Held,
         Compared, Calm, Called
<1>2. CASE Next
  BY <1>2, AttachStep, DetachStep, EvaluateStep, AroundStep DEF Next
<1>. QED  BY <1>1, <1>2

\* An evaluation says nothing again, nothing untrue, and asks the model rarely.
LEMMA StepSafe == ASSUME Sane, Inv PROVE AdvisorStep
<1>. SUFFICES ASSUME NEW t \in Tabs, Evaluate(t)
              PROVE  /\ LevelSaid /\ said # Nothing /\ said.key = fact
                          => now - said.at >= IF said.same THEN Grace ELSE Min2(Rearm, Grace)
                     /\ Rise(tab[t].radius) => risen[tab[t].radius]
                     /\ Clear(tab[t].radius) => noisy = Nothing \/ now - noisy >= Quiet
                     /\ prosed # Nothing /\ modelAt' = now /\ modelAt # now
                          => now - prosed >= Min2(Prose, Grace)
  BY DEF AdvisorStep, NotNagged, RiseIsReal, ClearIsTrue, ProseIsRare
<1>. DEFINE r == tab[t].radius
<1>1. /\ r \in Radii /\ now \in Nat /\ band[r] \in Nat
      /\ \/ modelAt' = now /\ (modelAt = Nothing \/ now - modelAt >= Prose)
         \/ modelAt' = modelAt
  BY Evaluated
<1>2. /\ said # Nothing => said.at \in Nat /\ said.same \in BOOLEAN
      /\ noisy # Nothing => noisy \in Nat
      /\ quietSince # Nothing => quietSince \in Nat
      /\ prosed # Nothing => prosed \in Nat
      /\ lastBand[r] # Nothing => lastBand[r] \in Nat
  <2>1. /\ said # Nothing => said.at \in Nat /\ said.same \in BOOLEAN
        /\ noisy # Nothing => noisy \in Nat
        /\ quietSince # Nothing => quietSince \in Nat
        /\ prosed # Nothing => prosed \in Nat
    BY DEF Inv, TypeOK, OrNothing, Times
  <2>. HIDE DEF r
  <2>2. lastBand[r] # Nothing => lastBand[r] \in Nat
    BY <1>1 DEF Inv, TypeOK, OrNothing, Sane
  <2>. QED  BY <2>1, <2>2
<1>. HIDE DEF r
<1>3. ASSUME LevelSaid, said # Nothing, said.key = fact
      PROVE  now - said.at >= IF said.same THEN Grace ELSE Min2(Rearm, Grace)
  <2>1. held = Nothing
    BY <1>3 DEF LevelSaid, Inv, Held
  <2>2. now - said.at >= Grace \/ (~said.same /\ now - said.at >= Rearm)
    BY <1>3, <2>1 DEF Inv, Held
  <2>. QED  BY <1>1, <1>2, <1>3, <2>2 DEF Min2, Sane
<1>4. Rise(r) => risen[r]
  <2>1. lastBand[r] # Nothing /\ ~risen[r] => band[r] <= lastBand[r]
    BY <1>1 DEF Inv, Compared
  <2>. QED  BY <1>1, <1>2, <2>1 DEF Rise, Previous
<1>5. Clear(r) => noisy = Nothing \/ now - noisy >= Quiet
  BY <1>1, <1>2 DEF Clear, Inv, Calm, Sane
<1>6. ASSUME prosed # Nothing, modelAt' = now, modelAt # now
      PROVE  now - prosed >= Min2(Prose, Grace)
  <2>1. modelAt = Nothing \/ now - modelAt >= Prose
    BY <1>1, <1>6
  <2>2. /\ modelAt # Nothing => prosed = modelAt
        /\ modelAt = Nothing => now - prosed >= Grace
    BY <1>6 DEF Inv, Called
  <2>. QED  BY <1>1, <1>2, <1>6, <2>1, <2>2 DEF Min2, Sane
<1>. QED  BY <1>3, <1>4, <1>5, <1>6 DEF r

\* A pilot is told what is news, what is true, and each thing once, however
\* many tabs he has, with whatever radii, and however often they reconnect.
THEOREM AdvisorSpeaksTrue ==
  ASSUME Sane
  PROVE  Spec => []AdvisorState /\ [][AdvisorStep]_vars
<1>1. Init => Inv
  BY InvInit
<1>2. Inv /\ [Next]_vars => Inv'
  BY InvStep
<1>3. Inv => AdvisorState
  BY DEF Inv, AdvisorState
<1>4. Inv /\ [Next]_vars => [AdvisorStep]_vars
  BY StepSafe
<1>. QED  BY <1>1, <1>2, <1>3, <1>4, PTL DEF Spec
=============================================================================
