-------------------------- MODULE Workflow_proofs --------------------------
(***************************************************************************)
(* What holds of a workflow run in the local store for any number of       *)
(* agents, processes, steps and events.                                    *)
(*                                                                         *)
(* A run is a fold over a listing, which itself skips the stamps whose     *)
(* events are not stored; so the proofs go by induction over the timeline. *)
(* Induction is stated for sets and not for predicates: a fact is proved   *)
(* for all numbers or sequences by way of the set of those it holds for.   *)
(***************************************************************************)
EXTENDS Workflow, WellFoundedInduction, SequenceTheorems, TLAPS

Slot == Event \cup {Hole}

(***************************************************************************)
(* Induction.                                                              *)
(***************************************************************************)
\* Every nonempty set of natural numbers has a least element.
LEMMA LeastNatural ==
    ASSUME NEW T \in SUBSET Nat, T # {}
    PROVE  \E n \in T : \A m \in T : n <= m
<1> DEFINE Less == OpToRel(<, Nat)
<1>1. \A m, n \in Nat : m < n => <<m, n>> \in Less
  BY DEF OpToRel
<1>2. IsWellFoundedOn(Less, Nat)
  BY NatLessThanWellFounded, Zenon
<1> HIDE DEF Less
<1>3. PICK n \in T : \A m \in T : ~ (<<m, n>> \in Less)
  BY <1>2, WFMin
<1>4. \A m \in T : ~ (m < n)
  BY <1>1, <1>3
<1>5. QED
  BY <1>4

\* A set that holds 0 and the successor of each of its numbers holds all.
LEMMA SetInduction ==
    ASSUME NEW S, 0 \in S, \A n \in Nat : n \in S => n + 1 \in S
    PROVE  \A n \in Nat : n \in S
<1>1. SUFFICES ASSUME Nat \ S # {} PROVE FALSE
  OBVIOUS
<1>2. PICK n \in Nat \ S : \A m \in Nat \ S : n <= m
  BY <1>1, LeastNatural
<1>3. n # 0 /\ n - 1 \in Nat
  BY <1>2
<1>4. n - 1 \in S
  BY <1>2, <1>3
<1>5. QED
  BY <1>2, <1>3, <1>4

\* A set of sequences that holds the empty one and with each sequence all
\* that are one element longer holds every sequence.
LEMMA SequenceInduction ==
    ASSUME NEW S, NEW T, << >> \in T,
           \A s \in Seq(S), e \in S : s \in T => Append(s, e) \in T
    PROVE  \A s \in Seq(S) : s \in T
<1> DEFINE Long == {n \in Nat : \A s \in Seq(S) : Len(s) = n => s \in T}
<1>1. 0 \in Long
  BY EmptySeq
<1>2. ASSUME NEW n \in Nat, n \in Long
      PROVE  n + 1 \in Long
  <2>1. SUFFICES ASSUME NEW s \in Seq(S), Len(s) = n + 1
                 PROVE  s \in T
    OBVIOUS
  <2>2. s # << >>
    BY <2>1, EmptySeq
  <2>3. PICK t \in Seq(S), e \in S : s = Append(t, e)
    BY <2>2, SequenceEmptyOrAppend
  <2>4. Len(t) = n
    BY <2>1, <2>3, AppendProperties, LenProperties
  <2>5. t \in T
    BY <1>2, <2>4
  <2>6. QED
    BY <2>3, <2>5
<1>3. \A n \in Nat : n \in Long
  <2> HIDE DEF Long
  <2>1. QED
    BY <1>1, <1>2, SetInduction
<1>4. QED
  BY <1>3, LenProperties

(***************************************************************************)
(* Folds.                                                                  *)
(***************************************************************************)
KeepStored(log, e) == IF e = Hole THEN log ELSE Append(log, e)

\* The two folds: of a run over its events, of a listing over the stamps.
Base(fold) == IF fold = "run" THEN Unstarted ELSE << >>

Apply(fold, value, e) ==
    IF fold = "run" THEN ApplyAction(value, e) ELSE KeepStored(value, e)

\* "value" holds what the fold gives after each of the first n elements.
Steps(fold, seq, n, value) ==
    value = [i \in 0..n |->
               IF i = 0 THEN Base(fold) ELSE Apply(fold, value[i - 1], seq[i])]

\* A fold has its intermediate values, by induction on their number.
LEMMA StepsExist ==
    ASSUME NEW fold, NEW seq
    PROVE  \A n \in Nat : \E value : Steps(fold, seq, n, value)
<1> DEFINE S == {n \in Nat : \E value : Steps(fold, seq, n, value)}
<1>1. 0 \in S
  <2>1. Steps(fold, seq, 0, [i \in 0..0 |-> Base(fold)])
    BY DEF Steps
  <2>2. QED
    BY <2>1
<1>2. ASSUME NEW n \in Nat, n \in S
      PROVE  n + 1 \in S
  <2>1. PICK value : Steps(fold, seq, n, value)
    BY <1>2
  <2> DEFINE longer == [i \in 0..(n + 1) |->
                          IF i = 0 THEN Base(fold) ELSE Apply(fold, value[i - 1], seq[i])]
  <2>2. \A i \in 0..n : longer[i] = value[i]
    BY <2>1 DEF Steps
  <2>3. \A i \in 0..(n + 1) : i # 0 => i - 1 \in 0..n
    OBVIOUS
  <2>4. longer = [i \in 0..(n + 1) |->
                    IF i = 0 THEN Base(fold) ELSE Apply(fold, longer[i - 1], seq[i])]
    <3> HIDE DEF longer
    <3>1. \A i \in 0..(n + 1) : i # 0 => longer[i - 1] = value[i - 1]
      BY <2>2, <2>3
    <3>2. QED
      BY <3>1 DEF longer
  <2>5. Steps(fold, seq, n + 1, longer)
    BY <2>4 DEF Steps
  <2>6. QED
    BY <2>5
<1>3. QED
  <2>1. \A n \in Nat : n \in S
    <3> HIDE DEF S
    <3>1. QED
      BY <1>1, <1>2, SetInduction
  <2>2. QED
    BY <2>1

\* Two computations agree where they read the same elements.
LEMMA StepsAgree ==
    ASSUME NEW fold, NEW s, NEW t, NEW n \in Nat, NEW m \in Nat, n <= m,
           \A i \in 1..n : s[i] = t[i],
           NEW f, Steps(fold, s, n, f), NEW g, Steps(fold, t, m, g)
    PROVE  \A i \in 0..n : f[i] = g[i]
<1> DEFINE S == {i \in Nat : i <= n => f[i] = g[i]}
<1>1. 0 \in S
  BY DEF Steps
<1>2. ASSUME NEW i \in Nat, i \in S
      PROVE  i + 1 \in S
  <2>1. SUFFICES ASSUME i + 1 <= n
                 PROVE  f[i + 1] = g[i + 1]
    OBVIOUS
  <2>2. f[i] = g[i]
    BY <1>2, <2>1
  <2>3. f[i + 1] = Apply(fold, f[i], s[i + 1]) /\ g[i + 1] = Apply(fold, g[i], t[i + 1])
    BY <2>1 DEF Steps
  <2>4. QED
    BY <2>1, <2>2, <2>3
<1>3. \A i \in Nat : i \in S
  <2> HIDE DEF S
  <2>1. QED
    BY <1>1, <1>2, SetInduction
<1>4. QED
  BY <1>3

\* A fold is the last of its values: Listing and project_run are computed that way.
LEMMA ListingSteps ==
    ASSUME NEW seq, Len(seq) \in Nat
    PROVE  \E value : Steps("listing", seq, Len(seq), value) /\ Listing(seq) = value[Len(seq)]
<1> DEFINE n == Len(seq)
           Kept(value) == value = [i \in 0..n |->
                                     IF i = 0 THEN << >>
                                     ELSE IF seq[i] = Hole THEN value[i - 1]
                                     ELSE Append(value[i - 1], seq[i])]
<1>1. \A value : Steps("listing", seq, n, value) <=> Kept(value)
  BY DEF Steps, Base, Apply, KeepStored
<1>2. \E value : Steps("listing", seq, n, value)
  BY StepsExist
<1>3. Listing(seq) = (CHOOSE value : Kept(value))[n]
  BY DEF Listing
<1> HIDE DEF Kept
<1>4. Kept(CHOOSE value : Kept(value))
  BY <1>1, <1>2
<1>5. QED
  BY <1>1, <1>3, <1>4

\* The same of a run.
LEMMA ProjectSteps ==
    ASSUME NEW seq, Len(seq) \in Nat
    PROVE  \E value : Steps("run", seq, Len(seq), value) /\ ProjectRun(seq) = value[Len(seq)]
<1> DEFINE n == Len(seq)
           Runs(value) == value = [i \in 0..n |->
                                     IF i = 0 THEN Unstarted ELSE ApplyAction(value[i - 1], seq[i])]
<1>1. \A value : Steps("run", seq, n, value) <=> Runs(value)
  BY DEF Steps, Base, Apply
<1>2. \E value : Steps("run", seq, n, value)
  BY StepsExist
<1>3. ProjectRun(seq) = (CHOOSE value : Runs(value))[n]
  BY DEF ProjectRun
<1> HIDE DEF Runs
<1>4. Runs(CHOOSE value : Runs(value))
  BY <1>1, <1>2
<1>5. QED
  BY <1>1, <1>3, <1>4

\* One more element is applied to what the earlier ones gave, which is why a
\* projection can be followed event by event.
LEMMA StepsAppend ==
    ASSUME NEW fold, NEW S, NEW s \in Seq(S), NEW e \in S,
           NEW f, Steps(fold, s, Len(s), f),
           NEW g, Steps(fold, Append(s, e), Len(Append(s, e)), g)
    PROVE  g[Len(Append(s, e))] = Apply(fold, f[Len(s)], e)
<1> DEFINE n == Len(s)
           t == Append(s, e)
<1>1. /\ n \in Nat /\ Len(t) = n + 1
      /\ \A i \in 1..n : s[i] = t[i]
      /\ t[n + 1] = e
  BY AppendProperties, LenProperties
<1>2. Steps(fold, s, n, f) /\ Steps(fold, t, n + 1, g)
  BY <1>1
<1> HIDE DEF n, t
<1>3. f[n] = g[n]
  BY <1>1, <1>2, StepsAgree
<1>4. g[n + 1] = Apply(fold, g[n], t[n + 1])
  BY <1>1, <1>2 DEF Steps
<1>5. g[Len(t)] = Apply(fold, f[n], e)
  BY <1>1, <1>3, <1>4
<1>6. QED
  BY <1>5 DEF n, t

(***************************************************************************)
(* Listings.                                                               *)
(***************************************************************************)
LEMMA HoleIsNoEvent ==
    /\ Hole \notin Event
    /\ \A e \in Slot : e.action = "none" <=> e = Hole
  BY DEF Hole, Slot, Event, StepActions, ClaimActions

\* An empty timeline lists nothing.
LEMMA ListingEmpty == Listing(<< >>) = << >>
<1>1. PICK value : Steps("listing", << >>, 0, value) /\ Listing(<< >>) = value[0]
  BY ListingSteps
<1>2. QED
  BY <1>1 DEF Steps, Base

\* One more slot lists one more event, or nothing when it is a hole.
LEMMA ListingAppend ==
    ASSUME NEW t \in Seq(Slot), NEW e \in Slot
    PROVE  Listing(Append(t, e)) = KeepStored(Listing(t), e)
<1>1. Len(t) \in Nat /\ Len(Append(t, e)) \in Nat
  OBVIOUS
<1>2. PICK f : Steps("listing", t, Len(t), f) /\ Listing(t) = f[Len(t)]
  BY <1>1, ListingSteps
<1>3. PICK g : /\ Steps("listing", Append(t, e), Len(Append(t, e)), g)
               /\ Listing(Append(t, e)) = g[Len(Append(t, e))]
  BY <1>1, ListingSteps
<1>4. Listing(Append(t, e)) = Apply("listing", Listing(t), e)
  BY <1>2, <1>3, StepsAppend
<1>5. QED
  BY <1>4 DEF Apply

\* at gives the place in t of each event of its listing.
Places(t, at) ==
    LET log == Listing(t)
    IN  /\ at \in [1..Len(log) -> 1..Len(t)]
        /\ \A k \in 1..Len(log) : log[k] = t[at[k]]
        /\ \A k, m \in 1..Len(log) : k < m => at[k] < at[m]
        /\ \A i \in 1..Len(t) : t[i] # Hole => \E k \in 1..Len(log) : at[k] = i

\* A listing is a sequence of events.
LEMMA ListingType == \A t \in Seq(Slot) : Listing(t) \in Seq(Event)
<1> DEFINE T == {t \in Seq(Slot) : Listing(t) \in Seq(Event)}
<1>1. << >> \in T
  <2>1. << >> \in Seq(Slot) /\ << >> \in Seq(Event)
    OBVIOUS
  <2>2. QED
    BY <2>1, ListingEmpty
<1>2. ASSUME NEW t \in Seq(Slot), NEW e \in Slot, t \in T
      PROVE  Append(t, e) \in T
  <2>1. Append(t, e) \in Seq(Slot)
    OBVIOUS
  <2>2. KeepStored(Listing(t), e) \in Seq(Event)
    BY <1>2 DEF KeepStored, Slot
  <2>3. QED
    BY <2>1, <2>2, ListingAppend
<1>3. \A t \in Seq(Slot) : t \in T
  <2> HIDE DEF T
  <2>1. QED
    BY <1>1, <1>2, SequenceInduction
<1>4. QED
  BY <1>3

\* Every listing has the places its events come from.
LEMMA ListingPlaces == \A t \in Seq(Slot) : \E at : Places(t, at)
<1> DEFINE T == {t \in Seq(Slot) : \E at : Places(t, at)}
<1>1. << >> \in T
  <2>1. Places(<< >>, << >>)
    BY ListingEmpty DEF Places
  <2>2. QED
    BY <2>1
<1>2. ASSUME NEW t \in Seq(Slot), NEW e \in Slot, t \in T
      PROVE  Append(t, e) \in T
  <2> DEFINE u == Append(t, e)
             log == Listing(t)
             n == Len(log)
  <2>1. PICK at : Places(t, at)
    BY <1>2
  <2>2. /\ u \in Seq(Slot) /\ Len(u) = Len(t) + 1
        /\ \A i \in 1..Len(t) : u[i] = t[i]
        /\ u[Len(t) + 1] = e
    OBVIOUS
  <2>3. log \in Seq(Event) /\ n \in Nat /\ Len(t) \in Nat
    BY ListingType
  <2>4. Listing(u) = KeepStored(log, e)
    BY ListingAppend
  <2>5. CASE e = Hole
    <3>1. Listing(u) = log
      BY <2>4, <2>5 DEF KeepStored
    <3>2. Places(u, at)
      BY <2>1, <2>2, <2>3, <2>5, <3>1 DEF Places
    <3>3. QED
      BY <2>2, <3>2
  <2>6. CASE e # Hole
    <3> DEFINE more == [k \in 1..(n + 1) |-> IF k = n + 1 THEN Len(t) + 1 ELSE at[k]]
    <3>1. e \in Event
      BY <2>6 DEF Slot
    <3>2. /\ Listing(u) = Append(log, e)
          /\ Len(Listing(u)) = n + 1
          /\ \A k \in 1..n : Listing(u)[k] = log[k]
          /\ Listing(u)[n + 1] = e
      BY <2>3, <2>4, <2>6, <3>1 DEF KeepStored
    <3>3. /\ at \in [1..n -> 1..Len(t)]
          /\ \A k \in 1..n : log[k] = t[at[k]]
          /\ \A k, m \in 1..n : k < m => at[k] < at[m]
          /\ \A i \in 1..Len(t) : t[i] # Hole => \E k \in 1..n : at[k] = i
      BY <2>1 DEF Places
    <3> HIDE DEF u, n, log
    <3>4. more \in [1..(n + 1) -> 1..Len(u)]
      BY <2>2, <2>3, <3>3
    <3>5. \A k \in 1..(n + 1) : Listing(u)[k] = u[more[k]]
      <4>1. ASSUME NEW k \in 1..n
            PROVE  Listing(u)[k] = u[more[k]]
        <5>1. k \in 1..(n + 1) /\ k # n + 1 /\ more[k] = at[k]
          BY <2>3
        <5>2. at[k] \in 1..Len(t) /\ log[k] = t[at[k]]
          BY <3>3
        <5>3. u[at[k]] = t[at[k]]
          BY <2>2, <5>2
        <5>4. Listing(u)[k] = log[k]
          BY <3>2
        <5> HIDE DEF more
        <5>5. QED
          BY <5>1, <5>2, <5>3, <5>4
      <4>2. Listing(u)[n + 1] = u[more[n + 1]]
        BY <2>2, <2>3, <3>2
      <4>3. \A k \in 1..(n + 1) : k \in 1..n \/ k = n + 1
        BY <2>3
      <4> HIDE DEF more
      <4>4. QED
        BY <4>1, <4>2, <4>3
    <3>6. \A k, m \in 1..(n + 1) : k < m => more[k] < more[m]
      BY <2>3, <3>3
    <3>7. ASSUME NEW i \in 1..Len(u), u[i] # Hole
          PROVE  \E k \in 1..(n + 1) : more[k] = i
      <4>1. CASE i = Len(t) + 1
        BY <2>3, <4>1
      <4>2. CASE i # Len(t) + 1
        <5>1. i \in 1..Len(t) /\ t[i] # Hole
          BY <2>2, <2>3, <3>7, <4>2
        <5>2. PICK k \in 1..n : at[k] = i
          BY <3>3, <5>1
        <5>3. k \in 1..(n + 1) /\ more[k] = i
          BY <2>3, <5>2
        <5>4. QED
          BY <5>3
      <4>3. QED
        BY <4>1, <4>2
    <3>8. Places(u, more)
      BY <3>2, <3>4, <3>5, <3>6, <3>7 DEF Places
    <3>9. QED
      BY <2>2, <3>8 DEF u
  <2>7. QED
    BY <2>5, <2>6
<1>3. \A t \in Seq(Slot) : t \in T
  <2> HIDE DEF T
  <2>1. QED
    BY <1>1, <1>2, SequenceInduction
<1>4. QED
  BY <1>3

(***************************************************************************)
(* Runs.                                                                   *)
(***************************************************************************)
RunOf(t) == ProjectRun(Listing(t))

\* No event, no run.
LEMMA RunEmpty == RunOf(<< >>) = Unstarted
<1>1. PICK value : Steps("run", << >>, 0, value) /\ ProjectRun(<< >>) = value[0]
  BY ProjectSteps
<1>2. QED
  BY <1>1, ListingEmpty DEF Steps, Base, RunOf

\* One more event is applied to the run.
LEMMA ProjectAppend ==
    ASSUME NEW log \in Seq(Event), NEW e \in Event
    PROVE  ProjectRun(Append(log, e)) = ApplyAction(ProjectRun(log), e)
<1>1. Len(log) \in Nat /\ Len(Append(log, e)) \in Nat
  OBVIOUS
<1>2. PICK f : Steps("run", log, Len(log), f) /\ ProjectRun(log) = f[Len(log)]
  BY <1>1, ProjectSteps
<1>3. PICK g : /\ Steps("run", Append(log, e), Len(Append(log, e)), g)
               /\ ProjectRun(Append(log, e)) = g[Len(Append(log, e))]
  BY <1>1, ProjectSteps
<1>4. ProjectRun(Append(log, e)) = Apply("run", ProjectRun(log), e)
  BY <1>2, <1>3, StepsAppend
<1>5. QED
  BY <1>4 DEF Apply

\* The same in terms of the timeline.
LEMMA RunAppend ==
    ASSUME NEW t \in Seq(Slot), NEW e \in Slot
    PROVE  /\ e = Hole => RunOf(Append(t, e)) = RunOf(t)
           /\ e # Hole => RunOf(Append(t, e)) = ApplyAction(RunOf(t), e)
<1>1. Listing(t) \in Seq(Event)
  BY ListingType
<1>2. QED
  BY <1>1, ListingAppend, ProjectAppend DEF RunOf, KeepStored, Slot

\* The types of a run, an event and their fields.
LEMMA UnstartedType == Unstarted \in Run
  BY DEF Unstarted, Run, RunStatus, StepStatus

\* An event's fields.
LEMMA EventFields ==
    \A e \in Event : /\ e.action \in StepActions \cup {"started", "completed", "aborted"}
                    /\ e.action \in StepActions => e.step \in Step
                    /\ e.agent \in Agents
                    /\ e.approved \in BOOLEAN
  BY DEF Event, StepActions, ClaimActions

\* The five kinds of action that apply_action tells apart.
LEMMA EventKinds ==
    ASSUME NEW e \in Event
    PROVE  \/ e.action \in ClaimActions
           \/ e.action = "started"
           \/ e.action \in {"completed_step", "reconciled"}
           \/ e.action = "failed_step"
           \/ e.action \in {"completed", "aborted"}
  BY DEF Event, StepActions

\* apply_action, event by event.
Began                   == [Unstarted EXCEPT !.status = "active"]
Ended(run, st)          == [run EXCEPT !.status = st]
Settled(run, s, st, ss) == [run EXCEPT !.status = st, !.steps[s].status = ss]

\* What apply_action does with each of them.
LEMMA ApplyCases ==
    ASSUME NEW run, NEW e
    PROVE  /\ e.action = "started" => ApplyAction(run, e) = Began
           /\ e.action \in ClaimActions => ApplyAction(run, e) = ApplyClaim(run, e)
           /\ e.action \in {"completed_step", "reconciled"} =>
                ApplyAction(run, e) = Settled(run, e.step, "active", "completed")
           /\ e.action = "failed_step" =>
                ApplyAction(run, e) = Settled(run, e.step, "failed", "failed")
           /\ e.action \in {"completed", "aborted"} =>
                ApplyAction(run, e) = Ended(run, e.action)
<1>1. e.action \in {"completed_step", "reconciled"} =>
         ApplyAction(run, e) = Settled(run, e.step, "active", "completed")
  BY DEF ApplyAction, ClaimActions, Settled
<1>2. e.action = "failed_step" =>
         ApplyAction(run, e) = Settled(run, e.step, "failed", "failed")
  BY DEF ApplyAction, ClaimActions, Settled
<1>3. QED
  BY <1>1, <1>2 DEF ApplyAction, ClaimActions, Began, Ended

\* Settling one step leaves the others alone.
LEMMA SettledType ==
    ASSUME NEW run \in Run, NEW s \in Step, NEW st \in RunStatus, NEW ss \in StepStatus
    PROVE  /\ Settled(run, s, st, ss) \in Run
           /\ Settled(run, s, st, ss).status = st
           /\ Settled(run, s, st, ss).steps[s].status = ss
           /\ Settled(run, s, st, ss).steps[s].by = run.steps[s].by
           /\ \A t \in Step \ {s} : Settled(run, s, st, ss).steps[t] = run.steps[t]
  BY DEF Run, Settled

\* What an event makes of the run.
LEMMA ApplyType ==
    ASSUME NEW run \in Run, NEW e \in Event
    PROVE  ApplyAction(run, e) \in Run
<1>1. CASE e.action \in ClaimActions
  <2>1. e.step \in Step /\ e.agent \in Agents
    BY <1>1, EventFields DEF StepActions
  <2>2. ApplyClaim(run, e) \in Run
    BY <2>1 DEF ApplyClaim, Run, RunStatus, StepStatus
  <2>3. QED
    BY <1>1, <2>2, ApplyCases
<1>2. CASE e.action = "started"
  BY <1>2, ApplyCases, UnstartedType DEF Began, Run, RunStatus
<1>3. CASE e.action \in {"completed_step", "reconciled"}
  <2>1. e.step \in Step /\ "active" \in RunStatus /\ "completed" \in StepStatus
    BY <1>3, EventFields DEF StepActions, RunStatus, StepStatus
  <2>2. QED
    BY <1>3, <2>1, ApplyCases, SettledType
<1>4. CASE e.action = "failed_step"
  <2>1. e.step \in Step /\ "failed" \in RunStatus /\ "failed" \in StepStatus
    BY <1>4, EventFields DEF StepActions, RunStatus, StepStatus
  <2>2. QED
    BY <1>4, <2>1, ApplyCases, SettledType
<1>5. CASE e.action \in {"completed", "aborted"}
  <2>1. ApplyAction(run, e) = Ended(run, e.action)
    BY <1>5, ApplyCases
  <2>2. QED
    BY <1>5, <2>1 DEF Ended, Run, RunStatus
<1>6. QED
  BY <1>1, <1>2, <1>3, <1>4, <1>5, EventKinds

\* What it makes of a step.
LEMMA ApplyStep ==
    ASSUME NEW run \in Run, NEW e \in Event, NEW s \in Step
    PROVE  LET was == run.steps[s]
               now == ApplyAction(run, e).steps[s]
           IN  \/ now = was /\ ~(e.action \in StepActions /\ e.step = s)
               \/ e.action = "started" /\ now.status = "pending"
               \/ /\ e.action \in ClaimActions /\ e.step = s /\ now.by = e.agent
                  /\ \/ /\ now.status = "claimed"
                        /\ ~(/\ e.action = "taken_over" /\ was.status = "claimed"
                             /\ s \in NonIdempotent)
                     \/ /\ now.status = "needs_reconcile"
                        /\ e.action = "taken_over" /\ s \in NonIdempotent
               \/ /\ e.action \in {"completed_step", "reconciled"} /\ e.step = s
                  /\ now.status = "completed" /\ now.by = was.by
               \/ /\ e.action = "failed_step" /\ e.step = s
                  /\ now.status = "failed" /\ now.by = was.by
<1>1. CASE e.action \in ClaimActions
  <2>1. ApplyAction(run, e) = ApplyClaim(run, e)
    BY <1>1, ApplyCases
  <2>2. QED
    BY <1>1, <2>1 DEF ApplyClaim, Run
<1>2. CASE e.action = "started"
  BY <1>2, ApplyCases DEF Began, Unstarted
<1>3. CASE e.action \in {"completed_step", "reconciled"}
  <2>1. e.step \in Step /\ "active" \in RunStatus /\ "completed" \in StepStatus
    BY <1>3, EventFields DEF StepActions, RunStatus, StepStatus
  <2>2. QED
    BY <1>3, <2>1, ApplyCases, SettledType
<1>4. CASE e.action = "failed_step"
  <2>1. e.step \in Step /\ "failed" \in RunStatus /\ "failed" \in StepStatus
    BY <1>4, EventFields DEF StepActions, RunStatus, StepStatus
  <2>2. QED
    BY <1>4, <2>1, ApplyCases, SettledType
<1>5. CASE e.action \in {"completed", "aborted"}
  <2>1. ApplyAction(run, e) = Ended(run, e.action)
    BY <1>5, ApplyCases
  <2>2. QED
    BY <1>5, <2>1 DEF Ended, Run, ClaimActions, StepActions
<1>6. QED
  BY <1>1, <1>2, <1>3, <1>4, <1>5, EventKinds

\* What it makes of the status.
LEMMA ApplyFound ==
    ASSUME NEW run \in Run, NEW e \in Event, e.action = "started" \/ Found(run)
    PROVE  Found(ApplyAction(run, e))
<1>1. CASE e.action \in ClaimActions
  <2>1. ApplyAction(run, e) = ApplyClaim(run, e) /\ Found(run)
    BY <1>1, ApplyCases DEF ClaimActions
  <2>2. QED
    BY <2>1 DEF ApplyClaim, Found, Run
<1>2. CASE e.action = "started"
  BY <1>2, ApplyCases DEF Began, Unstarted, Found
<1>3. CASE e.action \in {"completed_step", "reconciled"}
  <2>1. ApplyAction(run, e) = Settled(run, e.step, "active", "completed")
    BY <1>3, ApplyCases
  <2>2. QED
    BY <1>3, <2>1 DEF Settled, Run, Found
<1>4. CASE e.action = "failed_step"
  <2>1. ApplyAction(run, e) = Settled(run, e.step, "failed", "failed")
    BY <1>4, ApplyCases
  <2>2. QED
    BY <1>4, <2>1 DEF Settled, Run, Found
<1>5. CASE e.action \in {"completed", "aborted"}
  <2>1. ApplyAction(run, e) = Ended(run, e.action)
    BY <1>5, ApplyCases
  <2>2. QED
    BY <1>5, <2>1 DEF Ended, Run, Found
<1>6. QED
  BY <1>1, <1>2, <1>3, <1>4, <1>5, EventKinds

\* Evidence of a claim of step s by agent a.
ClaimedBy(log, i, s, a) ==
    \E j \in 1..(i - 1) : /\ log[j].action \in ClaimActions
                          /\ log[j].step = s
                          /\ log[j].agent = a

\* Whatever the projection says of a step, the timeline tells why.
StepHasCause(log, i, s, step) ==
    /\ step.status = "claimed" => ClaimedBy(log, i, s, step.by)
    /\ step.status = "failed" => Evidence(log, i, {"failed_step"}, s)
    /\ step.status = "needs_reconcile" =>
          s \in NonIdempotent /\ Evidence(log, i, {"taken_over"}, s)
    /\ step.status = "completed" =>
          Evidence(log, i, {"completed_step", "reconciled"}, s)

RunHasCause(t) ==
    /\ RunOf(t) \in Run
    /\ \A s \in Step : StepHasCause(t, Len(t) + 1, s, RunOf(t).steps[s])

\* Evidence is kept, and gained, when the timeline grows at its end.
LEMMA EvidenceAppend ==
    ASSUME NEW t \in Seq(Slot), NEW e \in Slot, NEW s,
           NEW u, u = Append(t, e)
    PROVE  /\ \A kinds : Evidence(t, Len(t) + 1, kinds, s) => Evidence(u, Len(u) + 1, kinds, s)
           /\ \A a : ClaimedBy(t, Len(t) + 1, s, a) => ClaimedBy(u, Len(u) + 1, s, a)
           /\ e.step = s => \A kinds : e.action \in kinds => Evidence(u, Len(u) + 1, kinds, s)
           /\ e.step = s /\ e.action \in ClaimActions => ClaimedBy(u, Len(u) + 1, s, e.agent)
           /\ \A step : StepHasCause(t, Len(t) + 1, s, step) => StepHasCause(u, Len(u) + 1, s, step)
<1>1. /\ Len(t) \in Nat /\ Len(u) = Len(t) + 1
      /\ \A j \in 1..Len(t) : u[j] = t[j]
      /\ u[Len(t) + 1] = e
  OBVIOUS
<1>2. \A kinds : Evidence(t, Len(t) + 1, kinds, s) => Evidence(u, Len(u) + 1, kinds, s)
  BY <1>1 DEF Evidence
<1>3. \A a : ClaimedBy(t, Len(t) + 1, s, a) => ClaimedBy(u, Len(u) + 1, s, a)
  BY <1>1 DEF ClaimedBy
<1>4. QED
  BY <1>1, <1>2, <1>3 DEF Evidence, ClaimedBy, StepHasCause

\* In every timeline each step's state has a cause.
LEMMA CausesOfRuns == \A t \in Seq(Slot) : RunHasCause(t)
<1> DEFINE T == {t \in Seq(Slot) : RunHasCause(t)}
<1>1. << >> \in T
  <2>1. << >> \in Seq(Slot)
    OBVIOUS
  <2>2. \A s \in Step : Unstarted.steps[s].status = "pending"
    BY DEF Unstarted
  <2>3. QED
    BY <2>1, <2>2, RunEmpty, UnstartedType DEF RunHasCause, StepHasCause
<1>2. ASSUME NEW t \in Seq(Slot), NEW e \in Slot, t \in T
      PROVE  Append(t, e) \in T
  <2>1. PICK u \in Seq(Slot) : u = Append(t, e)
    <3>1. Append(t, e) \in Seq(Slot)
      OBVIOUS
    <3>2. QED
      BY <3>1
  <2>2. RunHasCause(t)
    BY <1>2
  <2>3. CASE e = Hole
    <3>1. RunOf(u) = RunOf(t)
      BY <2>1, <2>3, RunAppend
    <3>2. RunHasCause(u)
      BY <2>1, <2>2, <3>1, EvidenceAppend DEF RunHasCause
    <3>3. QED
      BY <2>1, <3>2
  <2>4. CASE e # Hole
    <3>1. e \in Event /\ RunOf(t) \in Run
      BY <2>2, <2>4 DEF Slot, RunHasCause
    <3>2. RunOf(u) = ApplyAction(RunOf(t), e)
      BY <2>1, <2>4, RunAppend
    <3>3. RunOf(u) \in Run
      BY <3>1, <3>2, ApplyType
    <3>4. ASSUME NEW s \in Step
          PROVE  StepHasCause(u, Len(u) + 1, s, RunOf(u).steps[s])
      <4>1. PICK was, now : was = RunOf(t).steps[s] /\ now = RunOf(u).steps[s]
        OBVIOUS
      <4>2. CASE now = was
        BY <2>1, <2>2, <4>1, <4>2, EvidenceAppend DEF RunHasCause
      <4>3. CASE e.action = "started" /\ now.status = "pending"
        BY <4>1, <4>3 DEF StepHasCause
      <4>4. CASE e.action \in ClaimActions /\ e.step = s /\ now.by = e.agent
                 /\ \/ now.status = "claimed"
                    \/ /\ now.status = "needs_reconcile"
                       /\ e.action = "taken_over" /\ s \in NonIdempotent
        BY <2>1, <4>1, <4>4, EvidenceAppend DEF StepHasCause
      <4>5. CASE e.action \in {"completed_step", "reconciled"} /\ e.step = s
                 /\ now.status = "completed"
        BY <2>1, <4>1, <4>5, EvidenceAppend DEF StepHasCause
      <4>6. CASE e.action = "failed_step" /\ e.step = s /\ now.status = "failed"
        BY <2>1, <4>1, <4>6, EvidenceAppend DEF StepHasCause
      <4>7. QED
        BY <3>1, <3>2, <4>1, <4>2, <4>3, <4>4, <4>5, <4>6, ApplyStep
    <3>5. RunHasCause(u)
      BY <3>3, <3>4 DEF RunHasCause
    <3>6. QED
      BY <2>1, <3>5
  <2>5. QED
    BY <2>3, <2>4
<1>3. \A t \in Seq(Slot) : t \in T
  <2> HIDE DEF T
  <2>1. QED
    BY <1>1, <1>2, SequenceInduction
<1>4. QED
  BY <1>3

\* A timeline that begins with the start of the run, its only one.
StartedOnce(t) ==
    /\ t # << >> => t[1].action = "started"
    /\ \A i \in 2..Len(t) : t[i].action # "started"

\* Its run is found, and no step an event is about is pending any more.
RunHasEvents(t) ==
    /\ RunOf(t) \in Run
    /\ t # << >> => Found(RunOf(t))
    /\ \A i \in 1..Len(t) : t[i].action \in StepActions =>
                              RunOf(t).steps[t[i].step].status # "pending"

\* In every timeline that starts once each event has left its mark.
LEMMA EventsOfRuns == \A t \in Seq(Slot) : StartedOnce(t) => RunHasEvents(t)
<1> DEFINE T == {t \in Seq(Slot) : StartedOnce(t) => RunHasEvents(t)}
<1>1. << >> \in T
  <2>1. << >> \in Seq(Slot)
    OBVIOUS
  <2>2. RunOf(<< >>) \in Run
    BY RunEmpty, UnstartedType
  <2>3. QED
    BY <2>1, <2>2 DEF RunHasEvents
<1>2. ASSUME NEW t \in Seq(Slot), NEW e \in Slot, t \in T
      PROVE  Append(t, e) \in T
  <2>1. PICK u \in Seq(Slot) : u = Append(t, e)
    <3>1. Append(t, e) \in Seq(Slot)
      OBVIOUS
    <3>2. QED
      BY <3>1
  <2>2. /\ Len(t) \in Nat /\ Len(u) = Len(t) + 1
        /\ \A i \in 1..Len(t) : u[i] = t[i] /\ t[i] \in Slot
        /\ u[Len(t) + 1] = e
        /\ t = << >> <=> Len(t) = 0
    BY <2>1
  <2>3. SUFFICES ASSUME StartedOnce(u)
                 PROVE  RunHasEvents(u)
    BY <2>1
  <2>4. StartedOnce(t)
    BY <2>1, <2>2, <2>3 DEF StartedOnce
  <2>5. RunHasEvents(t)
    BY <1>2, <2>4
  <2>6. RunOf(u) \in Run
    BY CausesOfRuns DEF RunHasCause
  <2>7. CASE e = Hole
    <3>1. RunOf(u) = RunOf(t) /\ t # << >>
      BY <2>1, <2>2, <2>3, <2>7, RunAppend DEF StartedOnce, Hole
    <3>2. QED
      BY <2>2, <2>5, <2>6, <2>7, <3>1 DEF RunHasEvents, Hole, StepActions, ClaimActions
  <2>8. CASE e # Hole
    <3>1. e \in Event /\ RunOf(t) \in Run
      BY <2>5, <2>8 DEF Slot, RunHasEvents
    <3>2. RunOf(u) = ApplyAction(RunOf(t), e)
      BY <2>1, <2>8, RunAppend
    <3>3. Found(RunOf(u))
      <4>1. e.action = "started" \/ Found(RunOf(t))
        BY <2>2, <2>3, <2>5 DEF StartedOnce, RunHasEvents
      <4>2. QED
        BY <3>1, <3>2, <4>1, ApplyFound
    <3>4. ASSUME NEW i \in 1..Len(u), u[i].action \in StepActions
          PROVE  RunOf(u).steps[u[i].step].status # "pending"
      <4>1. PICK s \in Step : s = u[i].step
        <5>1. u[i] \in Event
          BY <3>4, HoleIsNoEvent DEF Slot, StepActions, ClaimActions
        <5>2. QED
          BY <3>4, <5>1, EventFields
      <4>2. CASE i = Len(t) + 1
        <5>1. e.action \in StepActions /\ e.step = s /\ e.action # "started"
          BY <2>2, <3>4, <4>1, <4>2 DEF StepActions, ClaimActions
        <5>2. RunOf(u).steps[s].status # "pending"
          BY <3>1, <3>2, <5>1, ApplyStep
        <5>3. QED
          BY <4>1, <5>2
      <4>3. CASE i # Len(t) + 1
        <5>1. i \in 1..Len(t) /\ u[i] = t[i]
          BY <2>2, <4>3
        <5>2. RunOf(t).steps[s].status # "pending" /\ e.action # "started"
          BY <2>2, <2>3, <2>5, <3>4, <4>1, <5>1 DEF RunHasEvents, StartedOnce
        <5>3. RunOf(u).steps[s].status # "pending"
          BY <3>1, <3>2, <5>2, ApplyStep
        <5>4. QED
          BY <4>1, <5>3
      <4>4. QED
        BY <4>2, <4>3
    <3>5. QED
      BY <2>6, <3>3, <3>4 DEF RunHasEvents
  <2>9. QED
    BY <2>7, <2>8
<1>3. \A t \in Seq(Slot) : t \in T
  <2> HIDE DEF T
  <2>1. QED
    BY <1>1, <1>2, SequenceInduction
<1>4. QED
  BY <1>3

(***************************************************************************)
(* Commands: each validates an event on the run as it is and begins to     *)
(* append it.                                                              *)
(***************************************************************************)
Admits(run, e) ==
    /\ e.action # "started"
    /\ e.action \in ClaimActions =>
          \E takeover \in BOOLEAN, caller \in Agents \cup {NoOne} :
             ClaimIs(run, e.step, takeover, caller, e.action)
    /\ e.action = "completed_step" => CanComplete(run, e.step, e.agent, e.approved)
    /\ e.action = "failed_step" => CanFail(run, e.step, e.agent)
    /\ e.action = "reconciled" => CanReconcile(run, e.step, e.approved)
    /\ e.action = "completed" => CanFinish(run)
    /\ e.action = "aborted" => Found(run)

Begins(p) == MayBegin(p) /\ \E e \in Event : Admits(Current, e) /\ Begin(p, e)

\* A command starts the run or takes a stamp.
LEMMA CommandsBegin ==
    ASSUME NEW p \in Procs, NEW a \in Agents, WorkflowCommand(p, a) \/ ToolCall(p, a)
    PROVE  Start(p, a) \/ Begins(p)
<1>1. ASSUME NEW s \in Step, NEW action \in StepActions, NEW approved \in BOOLEAN
      PROVE  LET e == ActionEvent(action, s, a, approved)
             IN  e \in Event /\ e.action = action /\ e.step = s /\ e.agent = a
                              /\ e.approved = approved
  BY DEF ActionEvent, Event
<1>2. ASSUME NEW action \in {"completed", "aborted"}
      PROVE  LET e == ActionEvent(action, 0, a, FALSE)
             IN  e \in Event /\ e.action = action
  BY DEF ActionEvent, Event
<1>3. ASSUME NEW s \in Step, Claim(p, a, s) \/ ClaimTool(p, a, s)
      PROVE  Begins(p)
  <2>1. PICK takeover \in BOOLEAN, action \in ClaimActions, caller \in {a, NoOne} :
           /\ ClaimIs(Current, s, takeover, caller, action)
           /\ Begin(p, ActionEvent(action, s, a, FALSE))
    BY <1>3 DEF Claim, ClaimTool
  <2>2. Admits(Current, ActionEvent(action, s, a, FALSE))
    BY <2>1 DEF Admits, ActionEvent, ClaimActions
  <2>3. QED
    BY <1>1, <1>3, <2>1, <2>2 DEF Begins, Claim, ClaimTool, StepActions
<1>4. ASSUME NEW s \in Step, CompleteStep(p, a, s)
      PROVE  Begins(p)
  <2>1. PICK approved \in BOOLEAN :
           /\ CanComplete(Current, s, a, approved)
           /\ Begin(p, ActionEvent("completed_step", s, a, approved))
    BY <1>4 DEF CompleteStep, Approvals
  <2>2. Admits(Current, ActionEvent("completed_step", s, a, approved))
    BY <2>1 DEF Admits, ActionEvent, ClaimActions
  <2>3. QED
    BY <1>1, <1>4, <2>1, <2>2 DEF Begins, CompleteStep, StepActions
<1>5. ASSUME NEW s \in Step, Reconcile(p, a, s)
      PROVE  Begins(p)
  <2>1. PICK approved \in BOOLEAN :
           /\ CanReconcile(Current, s, approved)
           /\ Begin(p, ActionEvent("reconciled", s, a, approved))
    BY <1>5 DEF Reconcile, Approvals
  <2>2. Admits(Current, ActionEvent("reconciled", s, a, approved))
    BY <2>1 DEF Admits, ActionEvent, ClaimActions
  <2>3. QED
    BY <1>1, <1>5, <2>1, <2>2 DEF Begins, Reconcile, StepActions
<1>6. ASSUME NEW s \in Step, FailStep(p, a, s)
      PROVE  Begins(p)
  <2>1. Admits(Current, ActionEvent("failed_step", s, a, FALSE))
    BY <1>6 DEF FailStep, Admits, ActionEvent, ClaimActions
  <2>2. QED
    BY <1>1, <1>6, <2>1 DEF Begins, FailStep, StepActions
<1>7. ASSUME CompleteRun(p, a)
      PROVE  Begins(p)
  <2>1. Admits(Current, ActionEvent("completed", 0, a, FALSE))
    BY <1>7 DEF CompleteRun, Admits, ActionEvent, ClaimActions
  <2>2. QED
    BY <1>2, <1>7, <2>1 DEF Begins, CompleteRun
<1>8. ASSUME AbortRun(p, a)
      PROVE  Begins(p)
  <2>1. Admits(Current, ActionEvent("aborted", 0, a, FALSE))
    BY <1>8 DEF AbortRun, Admits, ActionEvent, ClaimActions
  <2>2. QED
    BY <1>2, <1>8, <2>1 DEF Begins, AbortRun
<1>9. QED
  BY <1>3, <1>4, <1>5, <1>6, <1>7, <1>8 DEF WorkflowCommand, ToolCall

(***************************************************************************)
(* Types.                                                                  *)
(***************************************************************************)
\* The conjuncts of TypeOK by name.
CommandsTyped ==
    command \in [Procs -> [event : Slot, at : 0..MaxEvents]]

StampsAreHoles ==
    \A p \in Procs : LET c == command[p] IN
        /\ c.event = Hole => c = Idle
        /\ c.at > 0 => c.at <= Len(timeline) /\ timeline[c.at] = Hole

StampsDiffer ==
    \A p, q \in Procs : p # q /\ command[p].at > 0 => command[p].at # command[q].at

TimelineTyped == timeline \in Seq(Slot) /\ Len(timeline) <= MaxEvents

\* TypeOK in parts.
LEMMA TypeParts ==
    TypeOK <=> TimelineTyped /\ CommandsTyped /\ StampsAreHoles /\ StampsDiffer
<1>1. Current = RunOf(timeline)
  BY DEF Current, Stored, RunOf
<1>2. timeline \in Seq(Slot) => Current \in Run
  BY <1>1, CausesOfRuns DEF RunHasCause
<1>3. QED
  BY <1>2 DEF TypeOK, TimelineTyped, CommandsTyped, StampsAreHoles, StampsDiffer, Slot

\* Nothing comes before the start of the run, which happens once.
Started ==
    /\ StartedOnce(timeline)
    /\ \A p \in Procs : command[p].event.action # "started"
    /\ timeline = << >> => \A p \in Procs : command[p] = Idle

Sound == TypeOK /\ Started

\* What the lemmas on timelines say of the current one.
LEMMA CurrentHasEvents ==
    ASSUME Sound
    PROVE  /\ timeline \in Seq(Slot) /\ Len(timeline) \in Nat
           /\ Current = RunOf(timeline)
           /\ RunHasCause(timeline)
           /\ RunHasEvents(timeline)
           /\ timeline = << >> => Current = Unstarted
  BY TypeParts, CausesOfRuns, EventsOfRuns, RunEmpty
     DEF Sound, Started, Current, Stored, RunOf, TimelineTyped

\* What the steps do to the state.
Starts ==
    /\ timeline = << >>
    /\ 0 < MaxEvents
    /\ \E e \in Event : e.action = "started" /\ timeline' = <<e>>
    /\ UNCHANGED command

StepOf(p) == Starts \/ Begins(p) \/ Stamp(p) \/ Insert(p) \/ Interrupt(p)

\* workflow start inserts the first event.
LEMMA StartStarts ==
    ASSUME Sound, NEW p \in Procs, NEW a \in Agents, Start(p, a)
    PROVE  Starts
<1>1. timeline = << >>
  BY CurrentHasEvents DEF Start, RunHasEvents
<1>2. ActionEvent("started", 0, a, FALSE) \in Event
  BY DEF ActionEvent, Event
<1>3. ActionEvent("started", 0, a, FALSE).action = "started"
  BY DEF ActionEvent
<1>4. QED
  BY <1>1, <1>2, <1>3, StoreAssumption DEF Start, Starts

\* Every step is the step of one process.
LEMMA NextSteps ==
    ASSUME Sound, Next
    PROVE  \E p \in Procs : StepOf(p)
<1>1. PICK p \in Procs : \/ Stamp(p) \/ Insert(p) \/ Interrupt(p)
                        \/ \E a \in Agents : WorkflowCommand(p, a) \/ ToolCall(p, a)
  BY DEF Next
<1>2. ASSUME NEW a \in Agents, WorkflowCommand(p, a) \/ ToolCall(p, a)
      PROVE  StepOf(p)
  <2>1. CASE Begins(p)
    BY <2>1 DEF StepOf
  <2>2. CASE Start(p, a)
    BY <2>2, StartStarts DEF StepOf
  <2>3. QED
    BY <1>2, <2>1, <2>2, CommandsBegin
<1>3. StepOf(p)
  BY <1>1, <1>2 DEF StepOf
<1>4. QED
  BY <1>3

\* The fields of an idle command.
LEMMA IdleFields ==
    /\ Idle.at = 0 /\ Idle.event = Hole /\ Idle.event.action = "none"
    /\ Idle \in [event : Slot, at : 0..MaxEvents]
  BY StoreAssumption DEF Idle, Hole, Slot

\* Nothing is stored at first.
LEMMA InitSound == Init => Sound
<1> SUFFICES ASSUME Init PROVE Sound
  OBVIOUS
<1>1. timeline = << >> /\ Len(timeline) = 0 /\ timeline \in Seq(Slot)
  BY DEF Init
<1>2. \A p \in Procs : command[p] = Idle
  BY DEF Init
<1>4. TypeOK
  BY <1>1, <1>2, IdleFields, TypeParts, StoreAssumption
     DEF Init, TimelineTyped, CommandsTyped, StampsAreHoles, StampsDiffer
<1>5. Started
  <2>1. StartedOnce(timeline)
    BY <1>1 DEF StartedOnce
  <2>2. QED
    BY <1>2, <2>1, IdleFields DEF Started
<1>6. QED
  BY <1>4, <1>5 DEF Sound

\* A command that ends leaves the other stamps distinct.
LEMMA EndedStampsDiffer ==
    ASSUME NEW p \in Procs, CommandsTyped, StampsDiffer, command'[p] = Idle,
           \A q \in Procs \ {p} : command'[q] = command[q]
    PROVE  StampsDiffer'
<1>1. SUFFICES ASSUME NEW a \in Procs, NEW b \in Procs, a # b, command'[a].at > 0
               PROVE  command'[a].at # command'[b].at
  BY DEF StampsDiffer
<1>2. a # p /\ command'[a] = command[a]
  BY <1>1, IdleFields
<1>3. CASE b = p
  BY <1>1, <1>3, IdleFields
<1>4. CASE b # p
  BY <1>1, <1>2, <1>4 DEF StampsDiffer
<1>5. QED
  BY <1>3, <1>4

\* A command ends; event e may have got the place it was stamped for.
Fills(p, e) ==
    /\ command[p].at > 0
    /\ timeline' \in {timeline, [timeline EXCEPT ![command[p].at] = e]}
    /\ command' = [command EXCEPT ![p] = Idle]

\* What the insertion of a stamped event changes.
LEMMA FillChanges ==
    ASSUME Sound, NEW p \in Procs, NEW e \in Event, Fills(p, e)
    PROVE  /\ command[p].at \in 1..Len(timeline)
           /\ timeline[command[p].at] = Hole
           /\ timeline' \in Seq(Slot) /\ Len(timeline') = Len(timeline)
           /\ \A i \in 1..Len(timeline) : i # command[p].at => timeline'[i] = timeline[i]
           /\ timeline'[command[p].at] \in {Hole, e}
           /\ command'[p] = Idle
           /\ \A q \in Procs \ {p} : /\ command'[q] = command[q]
                                     /\ command[q].at # command[p].at
           /\ command' \in [Procs -> [event : Slot, at : 0..MaxEvents]]
<1> DEFINE at == command[p].at
<1>1. /\ timeline \in Seq(Slot) /\ Len(timeline) \in Nat
      /\ command \in [Procs -> [event : Slot, at : 0..MaxEvents]]
      /\ StampsAreHoles /\ StampsDiffer
  BY TypeParts DEF Sound, TimelineTyped, CommandsTyped
<1>2. at \in 1..Len(timeline) /\ timeline[at] = Hole
  BY <1>1 DEF Fills, StampsAreHoles
<1>3. /\ timeline' \in Seq(Slot) /\ Len(timeline') = Len(timeline)
      /\ \A i \in 1..Len(timeline) : i # at => timeline'[i] = timeline[i]
      /\ timeline'[at] \in {Hole, e}
  <2>1. e \in Slot
    BY DEF Slot
  <2>2. CASE timeline' = timeline
    BY <1>1, <1>2, <2>2
  <2>3. CASE timeline' = [timeline EXCEPT ![at] = e]
    BY <1>1, <1>2, <2>1, <2>3
  <2>4. QED
    BY <2>2, <2>3 DEF Fills
<1>4. \A q \in Procs \ {p} : command[q].at # at
  BY <1>1, <1>2 DEF StampsDiffer
<1>5. /\ command'[p] = Idle
      /\ \A q \in Procs \ {p} : command'[q] = command[q]
      /\ command' \in [Procs -> [event : Slot, at : 0..MaxEvents]]
  BY <1>1, IdleFields DEF Fills
<1>6. QED
  BY <1>2, <1>3, <1>4, <1>5

\* It keeps the invariant.
LEMMA FillSound ==
    ASSUME Sound, NEW p \in Procs, NEW e \in Event, e.action # "started", Fills(p, e)
    PROVE  Sound'
<1> DEFINE at == command[p].at
<1>1. /\ Len(timeline) \in Nat /\ Len(timeline) <= MaxEvents
      /\ CommandsTyped /\ StampsAreHoles /\ StampsDiffer
      /\ command \in [Procs -> [event : Slot, at : 0..MaxEvents]]
  BY CurrentHasEvents, TypeParts DEF Sound, TimelineTyped, CommandsTyped
<1>2. /\ at \in 1..Len(timeline) /\ timeline[at] = Hole
      /\ timeline' \in Seq(Slot) /\ Len(timeline') = Len(timeline)
      /\ \A i \in 1..Len(timeline) : i # at => timeline'[i] = timeline[i]
      /\ timeline'[at] \in {Hole, e}
      /\ command'[p] = Idle
      /\ \A q \in Procs \ {p} : command'[q] = command[q] /\ command[q].at # at
      /\ command' \in [Procs -> [event : Slot, at : 0..MaxEvents]]
  BY FillChanges
<1>3. (TimelineTyped /\ CommandsTyped)'
  BY <1>1, <1>2 DEF TimelineTyped, CommandsTyped
<1>4. StampsAreHoles'
  <2>1. SUFFICES ASSUME NEW q \in Procs \ {p}
                 PROVE  LET d == command[q] IN
                          /\ d.event = Hole => d = Idle
                          /\ d.at > 0 => d.at <= Len(timeline) /\ timeline'[d.at] = Hole
    BY <1>2, IdleFields DEF StampsAreHoles
  <2>2. command[q].at > 0 => command[q].at # at /\ command[q].at \in 1..Len(timeline)
    BY <1>1, <1>2 DEF StampsAreHoles
  <2>3. QED
    BY <1>1, <1>2, <2>2 DEF StampsAreHoles
<1>5. StampsDiffer'
  BY <1>1, <1>2, EndedStampsDiffer
<1>6. Started'
  <2>1. /\ StartedOnce(timeline) /\ at # 1 /\ timeline' # << >>
        /\ \A q \in Procs : command[q].event.action # "started"
    BY <1>1, <1>2 DEF Sound, Started, StartedOnce, Hole
  <2>2. StartedOnce(timeline')
    BY <1>1, <1>2, <2>1 DEF StartedOnce, Hole
  <2>3. QED
    BY <1>2, <2>1, <2>2, IdleFields DEF Started
<1>7. QED
  BY <1>3, <1>4, <1>5, <1>6, TypeParts, PTL DEF Sound

\* So does every step.
LEMMA StepSound ==
    ASSUME Sound, NEW p \in Procs, StepOf(p)
    PROVE  Sound'
<1> USE DEF TimelineTyped, CommandsTyped, StampsAreHoles, StampsDiffer
<1>1. /\ timeline \in Seq(Slot) /\ Len(timeline) \in Nat
      /\ command \in [Procs -> [event : Slot, at : 0..MaxEvents]]
      /\ TimelineTyped /\ CommandsTyped /\ StampsAreHoles /\ StampsDiffer
  BY TypeParts DEF Sound
<1>2. CASE Starts
  <2>1. PICK e \in Event : e.action = "started" /\ timeline' = <<e>>
    BY <1>2 DEF Starts
  <2>2. \A q \in Procs : command[q] = Idle
    BY <1>2 DEF Starts, Sound, Started
  <2>3. timeline' \in Seq(Slot) /\ Len(timeline') = 1 /\ timeline'[1] = e
    BY <2>1 DEF Slot
  <2>4. Len(timeline') <= MaxEvents /\ timeline' # << >>
    BY <1>2, <2>3, StoreAssumption DEF Starts
  <2>5. (TimelineTyped /\ CommandsTyped /\ StampsAreHoles /\ StampsDiffer)'
    BY <1>1, <1>2, <2>2, <2>3, <2>4 DEF Starts, Idle
  <2>6. Started'
    BY <1>2, <2>1, <2>2, <2>3, <2>4 DEF Starts, Started, StartedOnce, Sound
  <2>7. QED
    BY <2>5, <2>6, TypeParts, PTL DEF Sound
<1>3. CASE Begins(p)
  <2>1. PICK e \in Event : Admits(Current, e) /\ Begin(p, e) /\ command[p] = Idle
    BY <1>3 DEF Begins, MayBegin
  <2>2. timeline # << >>
    BY <2>1, CurrentHasEvents, ManifestAssumption
       DEF Admits, Unstarted, ClaimIs, Open, CanComplete, CanFail, CanReconcile, CanFinish,
           Found, Event, StepActions, ClaimActions
  <2>3. /\ command' = [command EXCEPT ![p] = [event |-> e, at |-> 0]]
        /\ timeline' = timeline
        /\ e # Hole /\ e.action # "started" /\ e \in Slot
    BY <2>1, HoleIsNoEvent DEF Begin, Admits, Slot
  <2>4. (TimelineTyped /\ CommandsTyped /\ StampsAreHoles /\ StampsDiffer)'
    BY <1>1, <2>3, StoreAssumption
  <2>5. Started'
    BY <2>2, <2>3, <1>1 DEF Started, StartedOnce, Sound
  <2>6. QED
    BY <2>4, <2>5, TypeParts, PTL DEF Sound
<1>4. CASE Stamp(p)
  <2>1. /\ timeline' = Append(timeline, Hole)
        /\ command' = [command EXCEPT ![p].at = Len(timeline) + 1]
        /\ command[p] # Idle /\ command[p].at = 0 /\ Len(timeline) < MaxEvents
    BY <1>4 DEF Stamp
  <2>2. /\ timeline' \in Seq(Slot) /\ Len(timeline') = Len(timeline) + 1
        /\ \A i \in 1..Len(timeline) : timeline'[i] = timeline[i]
        /\ timeline'[Len(timeline) + 1] = Hole
        /\ timeline' # << >>
    BY <1>1, <2>1 DEF Slot
  <2>3. /\ command'[p] = [event |-> command[p].event, at |-> Len(timeline) + 1]
        /\ \A q \in Procs \ {p} : command'[q] = command[q]
        /\ command[p].event # Hole
    BY <1>1, <2>1
  <2>4. (TimelineTyped /\ CommandsTyped)'
    BY <1>1, <2>1, <2>2, StoreAssumption, SMTT(20)
  <2>5. StampsAreHoles'
    BY <1>1, <2>2, <2>3
  <2>6. StampsDiffer'
    BY <1>1, <2>2, <2>3, SMTT(20)
  <2>7. timeline # << >>
    BY <2>1 DEF Sound, Started
  <2>8. Started'
    <3>1. /\ StartedOnce(timeline)
          /\ \A q \in Procs : command[q].event.action # "started"
      BY DEF Sound, Started
    <3>2. Hole.action # "started" /\ Len(timeline) >= 1
      BY <1>1, <2>7 DEF Hole
    <3>3. StartedOnce(timeline')
      BY <1>1, <2>2, <2>7, <3>1, <3>2, SMTT(20) DEF StartedOnce
    <3>4. QED
      BY <2>2, <2>3, <3>1, <3>3 DEF Started
  <2>9. QED
    BY <2>4, <2>5, <2>6, <2>8, TypeParts, PTL DEF Sound
<1>5. CASE Insert(p)
  <2>1. command[p].event \in Event /\ command[p].event.action # "started"
    BY <1>1, <1>5, IdleFields DEF Insert, Slot, Sound, Started
  <2>2. Fills(p, command[p].event)
    BY <1>5 DEF Insert, Fills
  <2>3. QED
    BY <2>1, <2>2, FillSound
<1>6. CASE Interrupt(p)
  <2>1. /\ timeline' = timeline
        /\ command'[p] = Idle
        /\ \A q \in Procs \ {p} : command'[q] = command[q]
        /\ command' \in [Procs -> [event : Slot, at : 0..MaxEvents]]
    BY <1>1, <1>6, IdleFields DEF Interrupt
  <2>2. (TimelineTyped /\ CommandsTyped /\ StampsAreHoles)'
    BY <1>1, <2>1, IdleFields
  <2>3. StampsDiffer'
    BY <1>1, <2>1, EndedStampsDiffer
  <2>4. Started'
    BY <2>1, IdleFields DEF Sound, Started
  <2>5. QED
    BY <2>2, <2>3, <2>4, TypeParts, PTL DEF Sound
<1>7. QED
  BY <1>2, <1>3, <1>4, <1>5, <1>6 DEF StepOf

\* The typing invariant with its places and stamps.
LEMMA SoundStays == Spec => []Sound
<1>1. Sound /\ [Next]_vars => Sound'
  <2>1. ASSUME Sound, Next PROVE Sound'
    BY <2>1, NextSteps, StepSound
  <2>2. ASSUME Sound, UNCHANGED vars PROVE Sound'
    BY <2>2 DEF vars, Sound, TypeOK, Started, StartedOnce, Current, Stored
  <2>3. QED
    BY <2>1, <2>2
<1>2. QED
  BY <1>1, InitSound, PTL DEF Spec

\* The timeline, the commands in progress and the projected run keep their
\* types; no two commands ever hold the same stamp.
THEOREM Typing == Spec => []TypeOK
<1>1. Sound => TypeOK
  BY DEF Sound
<1>2. QED
  BY <1>1, SoundStays, PTL

(***************************************************************************)
(* What each event rests on.                                               *)
(***************************************************************************)
\* Before place i of the log step s was finished, with its approval.
DoneBefore(log, i, s) ==
    \E j \in 1..(i - 1) : /\ log[j].action \in {"completed_step", "reconciled"}
                          /\ log[j].step = s
                          /\ Approved(s, log[j].approved)

\* The log holds, before place i, what event e needs there.
Justified(log, i, e) ==
    /\ e.action = "reclaimed"  => Evidence(log, i, {"failed_step"}, e.step)
    /\ e.action = "taken_over" => Evidence(log, i, ClaimActions, e.step)
    /\ e.action = "reconciled" => /\ e.step \in NonIdempotent
                                  /\ Evidence(log, i, {"taken_over"}, e.step)
    /\ e.action \in {"completed_step", "failed_step"} =>
          ClaimedBy(log, i, e.step, e.agent)
    /\ e.action \in {"completed_step", "reconciled"} => Approved(e.step, e.approved)
    /\ e.action \in ClaimActions =>
          \A s \in 1..(e.step - 1) : DoneBefore(log, i, s)
    /\ e.action = "completed" => \A s \in Step : DoneBefore(log, i, s)
    /\ e.action \in StepActions \ {"claimed"} => Evidence(log, i, {"claimed"}, e.step)

\* Where the event of a command will come.
Place(p) == IF command[p].at > 0 THEN command[p].at ELSE Len(timeline) + 1

AllJustified ==
    /\ \A i \in 1..Len(timeline) : Justified(timeline, i, timeline[i])
    /\ \A p \in Procs : Justified(timeline, Place(p), command[p].event)

OneInitialClaim ==
    \A i, j \in 1..Len(timeline) :
        /\ timeline[i].action = "claimed" /\ timeline[j].action = "claimed"
        /\ timeline[i].step = timeline[j].step
        => i = j

\* A hole needs no justification.
LEMMA HoleJustified == \A log, i : Justified(log, i, Hole)
  BY DEF Justified, Hole, ClaimActions, StepActions

\* Evidence is never lost: a timeline only grows, and holes are filled.
LEMMA EvidenceKept ==
    ASSUME NEW log, NEW log2, NEW i \in Nat, NEW i2 \in Nat, i <= i2,
           \A j \in 1..(i - 1) : log[j].action # "none" => log2[j] = log[j],
           NEW kinds, "none" \notin kinds, NEW s, Evidence(log, i, kinds, s)
    PROVE  Evidence(log2, i2, kinds, s)
  BY DEF Evidence

\* Justification survives a later insertion,
LEMMA JustifiedStays ==
    ASSUME NEW log \in Seq(Slot), NEW log2 \in Seq(Slot),
           \A j \in 1..Len(log) : log[j] # Hole => log2[j] = log[j],
           NEW i \in 1..(Len(log) + 1), NEW e, Justified(log, i, e)
    PROVE  Justified(log2, i, e)
<1>1. \A j \in 1..(i - 1) : log[j].action # "none" => log2[j] = log[j]
  BY HoleIsNoEvent
<1>2. \A kinds, s : "none" \notin kinds /\ Evidence(log, i, kinds, s) =>
                       Evidence(log2, i, kinds, s)
  BY <1>1, EvidenceKept
<1>3. ASSUME NEW s, NEW a, ClaimedBy(log, i, s, a)
      PROVE  ClaimedBy(log2, i, s, a)
  BY <1>1, <1>3 DEF ClaimedBy, ClaimActions
<1>4. ASSUME NEW s, DoneBefore(log, i, s)
      PROVE  DoneBefore(log2, i, s)
  BY <1>1, <1>4 DEF DoneBefore
<1>5. QED
  BY <1>2, <1>3, <1>4 DEF Justified, ClaimActions

\* and a later place.
LEMMA JustifiedLater ==
    ASSUME NEW log, NEW i \in Nat, NEW e, Justified(log, i, e)
    PROVE  Justified(log, i + 1, e)
<1>1. \A j \in 1..(i - 1) : j \in 1..((i + 1) - 1)
  OBVIOUS
<1>2. \A kinds, s : Evidence(log, i, kinds, s) => Evidence(log, i + 1, kinds, s)
  BY <1>1 DEF Evidence
<1>3. \A s, a : ClaimedBy(log, i, s, a) => ClaimedBy(log, i + 1, s, a)
  BY <1>1 DEF ClaimedBy
<1>4. \A s : DoneBefore(log, i, s) => DoneBefore(log, i + 1, s)
  BY <1>1 DEF DoneBefore
<1>5. QED
  BY <1>2, <1>3, <1>4 DEF Justified

\* What a validator accepts is justified at the end of the timeline.
LEMMA AdmittedJustified ==
    ASSUME Sound, AllJustified, NEW e \in Event, Admits(Current, e)
    PROVE  Justified(timeline, Len(timeline) + 1, e)
<1> DEFINE end == Len(timeline) + 1
           step == Current.steps[e.step]
<1>1. /\ timeline \in Seq(Slot) /\ Len(timeline) \in Nat
      /\ \A s \in Step : StepHasCause(timeline, end, s, Current.steps[s])
      /\ Current \in Run
  BY CurrentHasEvents DEF RunHasCause
<1>2. e.action \in StepActions => e.step \in Step
  BY EventFields
<1>3. \A s \in Step : Current.steps[s].status = "completed" => DoneBefore(timeline, end, s)
  <2>1. SUFFICES ASSUME NEW s \in Step, Current.steps[s].status = "completed"
                 PROVE  DoneBefore(timeline, end, s)
    OBVIOUS
  <2>2. PICK j \in 1..(end - 1) :
           timeline[j].action \in {"completed_step", "reconciled"} /\ timeline[j].step = s
    BY <1>1, <2>1 DEF StepHasCause, Evidence
  <2>3. Approved(s, timeline[j].approved)
    BY <1>1, <2>2 DEF AllJustified, Justified
  <2>4. QED
    BY <2>2, <2>3 DEF DoneBefore
<1>4. ASSUME NEW s \in Step, Current.steps[s].status # "pending"
      PROVE  Evidence(timeline, end, {"claimed"}, s)
  <2>1. PICK j \in 1..(end - 1) : timeline[j].action \in StepActions /\ timeline[j].step = s
    BY <1>1, <1>4 DEF StepHasCause, Evidence, ClaimedBy, StepActions, ClaimActions, Run, StepStatus
  <2>2. CASE timeline[j].action = "claimed"
    BY <2>1, <2>2 DEF Evidence
  <2>3. CASE timeline[j].action # "claimed"
    <3>1. Evidence(timeline, j, {"claimed"}, s)
      BY <1>1, <2>1, <2>3 DEF AllJustified, Justified
    <3>2. QED
      BY <1>1, <2>1, <3>1 DEF Evidence
  <2>4. QED
    BY <2>2, <2>3
<1> HIDE DEF end
<1>5. CASE e.action \in ClaimActions
  <2>1. PICK takeover \in BOOLEAN, caller \in Agents \cup {NoOne} :
           ClaimIs(Current, e.step, takeover, caller, e.action)
    BY <1>5 DEF Admits
  <2>2. e.step \in Step
    BY <1>2, <1>5 DEF StepActions
  <2>3. \A s \in 1..(e.step - 1) : DoneBefore(timeline, end, s)
    BY <1>3, <2>1, <2>2, ManifestAssumption DEF ClaimIs, IsExpected, Step
  <2>4. /\ e.action = "reclaimed" => step.status = "failed"
        /\ e.action = "taken_over" => step.status = "claimed"
    BY <2>1 DEF ClaimIs
  <2>5. /\ e.action = "reclaimed" => Evidence(timeline, end, {"failed_step"}, e.step)
        /\ e.action = "taken_over" => Evidence(timeline, end, ClaimActions, e.step)
    BY <1>1, <2>2, <2>4 DEF StepHasCause, ClaimedBy, Evidence
  <2>6. e.action # "claimed" => Evidence(timeline, end, {"claimed"}, e.step)
    BY <1>4, <1>5, <2>2, <2>4 DEF ClaimActions
  <2>7. QED
    BY <1>5, <2>3, <2>5, <2>6 DEF Justified, ClaimActions, end
<1>6. CASE e.action \in {"completed_step", "failed_step"}
  <2>1. /\ e.step \in Step /\ step.status = "claimed" /\ step.by = e.agent
        /\ e.action = "completed_step" => Approved(e.step, e.approved)
    BY <1>2, <1>6 DEF Admits, CanComplete, CanFail, StepActions
  <2>2. ClaimedBy(timeline, end, e.step, e.agent)
    BY <1>1, <2>1 DEF StepHasCause
  <2>3. Evidence(timeline, end, {"claimed"}, e.step)
    BY <1>4, <2>1
  <2>4. QED
    BY <1>6, <2>1, <2>2, <2>3 DEF Justified, ClaimActions, end
<1>7. CASE e.action = "reconciled"
  <2>1. e.step \in Step /\ step.status = "needs_reconcile" /\ Approved(e.step, e.approved)
    BY <1>2, <1>7 DEF Admits, CanReconcile, StepActions
  <2>2. e.step \in NonIdempotent /\ Evidence(timeline, end, {"taken_over"}, e.step)
    BY <1>1, <2>1 DEF StepHasCause
  <2>3. Evidence(timeline, end, {"claimed"}, e.step)
    BY <1>4, <2>1
  <2>4. QED
    BY <1>7, <2>1, <2>2, <2>3 DEF Justified, ClaimActions, end
<1>8. CASE e.action = "completed"
  BY <1>3, <1>8 DEF Admits, CanFinish, Justified, ClaimActions, StepActions, end
<1>9. CASE e.action = "aborted"
  BY <1>9 DEF Justified, ClaimActions, StepActions
<1>10. QED
  BY <1>5, <1>6, <1>7, <1>8, <1>9, EventKinds DEF Admits

\* Nothing stored, nothing to justify.
LEMMA InitJustified == Init => AllJustified /\ OneInitialClaim
<1>1. ASSUME Init
      PROVE  /\ Len(timeline) = 0
             /\ \A p \in Procs : command[p].event = Hole
  BY <1>1, IdleFields DEF Init
<1>2. QED
  BY <1>1, HoleJustified DEF AllJustified, OneInitialClaim

\* Every step stores justified events only.
LEMMA StepJustified ==
    ASSUME Sound, AllJustified, OneInitialClaim, NEW p \in Procs, StepOf(p)
    PROVE  AllJustified' /\ OneInitialClaim'
<1>1. /\ timeline \in Seq(Slot) /\ Len(timeline) \in Nat /\ timeline' \in Seq(Slot)
      /\ command \in [Procs -> [event : Slot, at : 0..MaxEvents]]
      /\ StampsAreHoles /\ StampsDiffer
  <2>1. Sound'
    BY StepSound
  <2>2. TimelineTyped'
    BY <2>1, TypeParts, PTL DEF Sound
  <2>3. TimelineTyped /\ CommandsTyped /\ StampsAreHoles /\ StampsDiffer
    BY TypeParts DEF Sound
  <2>4. QED
    BY <2>2, <2>3 DEF TimelineTyped, CommandsTyped
<1>2. \A q \in Procs : Place(q) \in 1..(Len(timeline) + 1)
  BY <1>1, StoreAssumption DEF Place, StampsAreHoles
<1>3. ASSUME NEW q \in Procs PROVE Justified(timeline, Place(q), command[q].event)
  BY DEF AllJustified
<1>4. CASE Starts
  <2>1. PICK e \in Event : e.action = "started" /\ timeline' = <<e>>
    BY <1>4 DEF Starts
  <2>2. \A q \in Procs : command'[q].event = Hole
    BY <1>4, IdleFields DEF Starts, Sound, Started
  <2>3. Len(timeline') = 1 /\ timeline'[1] = e
    BY <2>1
  <2>4. \A log, i : Justified(log, i, e)
    BY <2>1 DEF Justified, StepActions, ClaimActions
  <2>5. AllJustified'
    BY <2>2, <2>3, <2>4, HoleJustified DEF AllJustified
  <2>6. OneInitialClaim'
    BY <2>3 DEF OneInitialClaim
  <2>7. QED
    BY <2>5, <2>6
<1>5. CASE Begins(p)
  <2>1. PICK e \in Event : Admits(Current, e) /\ Begin(p, e)
    BY <1>5 DEF Begins
  <2>2. /\ timeline' = timeline
        /\ command'[p] = [event |-> e, at |-> 0]
        /\ \A q \in Procs \ {p} : command'[q] = command[q]
    BY <1>1, <2>1 DEF Begin
  <2>3. Justified(timeline, Len(timeline) + 1, e)
    BY <2>1, AdmittedJustified
  <2>4. \A q \in Procs : Justified(timeline', Place(q)', command'[q].event)
    BY <1>3, <2>2, <2>3 DEF Place
  <2>5. QED
    BY <2>2, <2>4 DEF AllJustified, OneInitialClaim
<1>6. CASE Stamp(p)
  <2>1. /\ timeline' = Append(timeline, Hole)
        /\ command' = [command EXCEPT ![p].at = Len(timeline) + 1]
        /\ command[p].at = 0
    BY <1>6 DEF Stamp
  <2>2. /\ Len(timeline') = Len(timeline) + 1
        /\ \A i \in 1..Len(timeline) : timeline'[i] = timeline[i]
        /\ timeline'[Len(timeline) + 1] = Hole
    BY <1>1, <2>1
  <2>3. /\ command'[p] = [event |-> command[p].event, at |-> Len(timeline) + 1]
        /\ \A q \in Procs \ {p} : command'[q] = command[q]
    BY <1>1, <2>1
  <2>4. \A i \in 1..Len(timeline') : Justified(timeline', i, timeline'[i])
    BY <1>1, <2>2, JustifiedStays, HoleJustified, SMTT(20) DEF AllJustified
  <2>5. ASSUME NEW q \in Procs
        PROVE  Justified(timeline', Place(q)', command'[q].event)
    <3>1. Justified(timeline', Place(q), command[q].event)
      BY <1>1, <1>2, <1>3, <2>2, JustifiedStays
    <3>2. CASE q = p \/ command[q].at > 0
      <4>1. Place(q)' = Place(q) /\ command'[q].event = command[q].event
        BY <1>1, <2>1, <2>3, <3>2 DEF Place
      <4>2. QED
        BY <3>1, <4>1
    <3>3. CASE q # p /\ ~(command[q].at > 0)
      <4>1. Place(q) \in Nat /\ Place(q)' = Place(q) + 1
        BY <1>1, <2>2, <2>3, <3>3 DEF Place
      <4>2. Justified(timeline', Place(q) + 1, command[q].event)
        BY <3>1, <4>1, JustifiedLater
      <4>3. QED
        BY <2>3, <3>3, <4>1, <4>2
    <3>4. QED
      BY <3>2, <3>3
  <2>6. OneInitialClaim'
    BY <1>1, <2>2, SMTT(20) DEF OneInitialClaim, Hole
  <2>7. QED
    BY <2>4, <2>5, <2>6 DEF AllJustified
<1>7. CASE Insert(p)
  <2> DEFINE c == command[p]
  <2>1. /\ c.at \in 1..Len(timeline) /\ timeline[c.at] = Hole /\ Place(p) = c.at
        /\ c.event \in Slot
    BY <1>1, <1>7 DEF Insert, StampsAreHoles, Place
  <2>2. /\ command'[p] = Idle
        /\ \A q \in Procs \ {p} : command'[q] = command[q]
    BY <1>1, <1>7 DEF Insert
  <2>3. CASE timeline' = timeline
    <3>1. \A q \in Procs : Justified(timeline', Place(q)', command'[q].event)
      BY <1>3, <2>2, <2>3, HoleJustified, IdleFields DEF Place
    <3>2. QED
      BY <2>3, <3>1 DEF AllJustified, OneInitialClaim
  <2>4. CASE timeline' = [timeline EXCEPT ![c.at] = c.event] /\ ~ClaimCollides(c.event)
    <3>1. /\ Len(timeline') = Len(timeline)
          /\ \A i \in 1..Len(timeline) : i # c.at => timeline'[i] = timeline[i]
          /\ timeline'[c.at] = c.event
      BY <1>1, <2>1, <2>4
    <3>2. ASSUME NEW i \in 1..(Len(timeline) + 1), NEW e, Justified(timeline, i, e)
          PROVE  Justified(timeline', i, e)
      <4>1. \A j \in 1..Len(timeline) : timeline[j] # Hole => timeline'[j] = timeline[j]
        BY <2>1, <3>1
      <4>2. QED
        BY <1>1, <3>2, <4>1, JustifiedStays
    <3>3. \A i \in 1..Len(timeline') : Justified(timeline', i, timeline'[i])
      BY <1>1, <1>3, <2>1, <3>1, <3>2 DEF AllJustified
    <3>4. ASSUME NEW q \in Procs
          PROVE  Justified(timeline', Place(q)', command'[q].event)
      <4>1. CASE q = p
        BY <2>2, <4>1, HoleJustified, IdleFields
      <4>2. CASE q # p
        <5>1. Place(q)' = Place(q) /\ command'[q] = command[q]
          BY <2>2, <3>1, <4>2 DEF Place
        <5>2. QED
          BY <1>2, <1>3, <3>2, <5>1
      <4>3. QED
        BY <4>1, <4>2
    <3>5. OneInitialClaim'
      <4>1. c.event.action = "claimed" =>
               \A i \in 1..Len(timeline) : ~(/\ timeline[i].action = "claimed"
                                             /\ timeline[i].step = c.event.step)
        BY <1>1, <2>4 DEF ClaimCollides
      <4>2. QED
        BY <3>1, <4>1 DEF OneInitialClaim
    <3>6. QED
      BY <3>3, <3>4, <3>5 DEF AllJustified
  <2>5. QED
    BY <1>7, <2>3, <2>4 DEF Insert
<1>8. CASE Interrupt(p)
  <2>1. /\ timeline' = timeline
        /\ command'[p] = Idle
        /\ \A q \in Procs \ {p} : command'[q] = command[q]
    BY <1>1, <1>8 DEF Interrupt
  <2>2. \A q \in Procs : Justified(timeline', Place(q)', command'[q].event)
    BY <1>3, <2>1, HoleJustified, IdleFields DEF Place
  <2>3. QED
    BY <2>1, <2>2 DEF AllJustified, OneInitialClaim
<1>9. QED
  BY <1>4, <1>5, <1>6, <1>7, <1>8 DEF StepOf

JustifiedRun == Sound /\ AllJustified /\ OneInitialClaim

\* The inductive invariant behind the causes of stored events.
LEMMA JustifiedAlways == Spec => []JustifiedRun
<1>1. Init => JustifiedRun
  BY InitSound, InitJustified DEF JustifiedRun
<1>2. JustifiedRun /\ [Next]_vars => JustifiedRun'
  <2>1. ASSUME JustifiedRun, Next PROVE JustifiedRun'
    BY <2>1, NextSteps, StepSound, StepJustified DEF JustifiedRun
  <2>2. ASSUME JustifiedRun, UNCHANGED vars PROVE JustifiedRun'
    BY <2>2 DEF vars, JustifiedRun, Sound, TypeOK, Started, StartedOnce, Current, Stored,
                AllJustified, OneInitialClaim, Place
  <2>3. QED
    BY <2>1, <2>2
<1>3. QED
  BY <1>1, <1>2, PTL DEF Spec

\* What comes before an event on the timeline comes before it in the listing.
LEMMA PlacesBefore ==
    ASSUME NEW t \in Seq(Slot), NEW at, Places(t, at), NEW k \in 1..Len(Listing(t)),
           NEW j \in 1..(at[k] - 1), t[j].action # "none"
    PROVE  \E m \in 1..(k - 1) : Listing(t)[m] = t[j]
<1> DEFINE log == Listing(t)
<1>1. Len(log) \in Nat /\ Len(t) \in Nat /\ at[k] \in 1..Len(t)
  BY ListingType DEF Places
<1>2. t[j] # Hole /\ j \in 1..Len(t)
  BY <1>1, HoleIsNoEvent
<1>3. PICK m \in 1..Len(log) : at[m] = j
  BY <1>2 DEF Places
<1>4. m < k
  BY <1>1, <1>3 DEF Places
<1>5. log[m] = t[j]
  BY <1>3 DEF Places
<1>6. QED
  BY <1>1, <1>4, <1>5

\* Justified in the timeline, justified in the listing.
LEMMA ListedJustified ==
    ASSUME NEW t \in Seq(Slot), NEW at, Places(t, at), NEW k \in 1..Len(Listing(t)),
           NEW e, Justified(t, at[k], e)
    PROVE  Justified(Listing(t), k, e)
<1>1. ASSUME NEW kinds, "none" \notin kinds, NEW s, Evidence(t, at[k], kinds, s)
      PROVE  Evidence(Listing(t), k, kinds, s)
  BY <1>1, PlacesBefore DEF Evidence
<1>2. ASSUME NEW s, NEW a, ClaimedBy(t, at[k], s, a)
      PROVE  ClaimedBy(Listing(t), k, s, a)
  <2>1. PICK j \in 1..(at[k] - 1) : /\ t[j].action \in ClaimActions
                                    /\ t[j].step = s /\ t[j].agent = a
    BY <1>2 DEF ClaimedBy
  <2>2. PICK m \in 1..(k - 1) : Listing(t)[m] = t[j]
    BY <2>1, PlacesBefore DEF ClaimActions
  <2>3. QED
    BY <2>1, <2>2 DEF ClaimedBy
<1>3. ASSUME NEW s, DoneBefore(t, at[k], s)
      PROVE  DoneBefore(Listing(t), k, s)
  <2>1. PICK j \in 1..(at[k] - 1) : /\ t[j].action \in {"completed_step", "reconciled"}
                                    /\ t[j].step = s /\ Approved(s, t[j].approved)
    BY <1>3 DEF DoneBefore
  <2>2. PICK m \in 1..(k - 1) : Listing(t)[m] = t[j]
    BY <2>1, PlacesBefore
  <2>3. QED
    BY <2>1, <2>2 DEF DoneBefore
<1>4. QED
  BY <1>1, <1>2, <1>3 DEF Justified, ClaimActions

\* Every stored event is justified by those listed before it.
LEMMA StoredJustified ==
    ASSUME JustifiedRun
    PROVE  /\ Stored \in Seq(Event)
           /\ \A i \in 1..Len(Stored) : Justified(Stored, i, Stored[i])
           /\ \A i, j \in 1..Len(Stored) :
                 /\ Stored[i].action = "claimed" /\ Stored[j].action = "claimed"
                 /\ Stored[i].step = Stored[j].step
                 => i = j
<1>1. timeline \in Seq(Slot)
  BY CurrentHasEvents DEF JustifiedRun
<1>2. Stored \in Seq(Event) /\ Len(Stored) \in Nat
  BY <1>1, ListingType DEF Stored
<1>3. PICK at : Places(timeline, at)
  BY <1>1, ListingPlaces
<1>4. /\ at \in [1..Len(Stored) -> 1..Len(timeline)]
      /\ \A k \in 1..Len(Stored) : Stored[k] = timeline[at[k]]
      /\ \A k, m \in 1..Len(Stored) : k < m => at[k] < at[m]
  BY <1>3 DEF Places, Stored
<1>5. ASSUME NEW i \in 1..Len(Stored)
      PROVE  Justified(Stored, i, Stored[i])
  <2>1. Justified(timeline, at[i], Stored[i])
    BY <1>4 DEF JustifiedRun, AllJustified
  <2>2. QED
    BY <1>1, <1>3, <2>1, ListedJustified DEF Stored
<1>6. ASSUME NEW i \in 1..Len(Stored), NEW j \in 1..Len(Stored),
             Stored[i].action = "claimed", Stored[j].action = "claimed",
             Stored[i].step = Stored[j].step
      PROVE  i = j
  <2>1. at[i] = at[j]
    BY <1>4, <1>6 DEF JustifiedRun, OneInitialClaim
  <2>2. QED
    BY <1>2, <1>4, <2>1
<1>7. QED
  BY <1>2, <1>5, <1>6

\* A retry follows the failure it retries, a takeover the claim it takes, a
\* reconciliation the takeover it settles, however the commands that validated
\* them overlapped (apply_action, insert_event).
THEOREM CausesStored == Spec => []EventsHaveCause
<1>1. JustifiedRun => EventsHaveCause
  <2>1. SUFFICES ASSUME JustifiedRun PROVE EventsHaveCause
    OBVIOUS
  <2>2. Stored \in Seq(Event) /\ \A i \in 1..Len(Stored) : Justified(Stored, i, Stored[i])
    BY <2>1, StoredJustified
  <2>3. QED
    BY <2>2 DEF EventsHaveCause, Justified
<1>2. QED
  BY <1>1, JustifiedAlways, PTL

\* Who completes or fails a step has claimed it (validate_complete, the owner
\* checks of the fail handlers).
THEOREM FinishersClaimed == Spec => []FinishFollowsOwnClaim
<1>1. JustifiedRun => FinishFollowsOwnClaim
  <2>1. SUFFICES ASSUME JustifiedRun PROVE FinishFollowsOwnClaim
    OBVIOUS
  <2>2. Stored \in Seq(Event) /\ \A i \in 1..Len(Stored) : Justified(Stored, i, Stored[i])
    BY <2>1, StoredJustified
  <2>3. QED
    BY <2>2 DEF FinishFollowsOwnClaim, Justified, ClaimedBy
<1>2. QED
  BY <1>1, JustifiedAlways, PTL

\* A step is claimed only after all earlier ones were finished, with their
\* approvals, and a run completed only after all of them (validate_claim,
\* validate_run_complete).
THEOREM ProgressInOrder == Spec => []OrderedProgress
<1>1. JustifiedRun => OrderedProgress
  <2>1. SUFFICES ASSUME JustifiedRun PROVE OrderedProgress
    OBVIOUS
  <2>2. Stored \in Seq(Event) /\ \A i \in 1..Len(Stored) : Justified(Stored, i, Stored[i])
    BY <2>1, StoredJustified
  <2>3. QED
    BY <2>2 DEF OrderedProgress, Justified, DoneBefore
<1>2. QED
  BY <1>1, JustifiedAlways, PTL

\* The index of migration v4 and the validators together: a step has one
\* initial claim, and it is the first of its events.
THEOREM InitialClaimFirst == Spec => []FirstClaimIsFirst
<1>1. JustifiedRun => FirstClaimIsFirst
  <2>1. SUFFICES ASSUME JustifiedRun, NEW i \in 1..Len(Stored), NEW j \in 1..Len(Stored),
                        Stored[i].action = "claimed", Stored[j].action \in StepActions,
                        Stored[j].step = Stored[i].step
                 PROVE  i <= j
    BY StoredJustified DEF FirstClaimIsFirst
  <2>2. CASE Stored[j].action = "claimed"
    BY <2>1, <2>2, StoredJustified
  <2>3. CASE Stored[j].action # "claimed"
    <3>1. Justified(Stored, j, Stored[j])
      BY <2>1, StoredJustified
    <3>2. PICK m \in 1..(j - 1) : /\ Stored[m].action = "claimed"
                                  /\ Stored[m].step = Stored[j].step
      BY <2>1, <2>3, <3>1 DEF Justified, Evidence
    <3>3. m = i
      BY <2>1, <3>2, StoredJustified
    <3>4. QED
      BY <3>2, <3>3
  <2>4. QED
    BY <2>2, <2>3
<1>2. QED
  BY <1>1, JustifiedAlways, PTL

(***************************************************************************)
(* An open run can always go on.                                           *)
(***************************************************************************)
LEMMA ExpectedStep ==
    ASSUME NEW run \in Run, NEW t \in Step, run.steps[t].status # "completed"
    PROVE  \E s \in Step : IsExpected(run, s)
<1> DEFINE S == {s \in Step : run.steps[s].status # "completed"}
<1>1. S \subseteq Nat /\ t \in S
  BY ManifestAssumption DEF Step
<1>2. PICK s \in S : \A u \in S : s <= u
  <2> HIDE DEF S
  <2>1. QED
    BY <1>1, LeastNatural
<1>3. s \in Step /\ \A u \in 1..(s - 1) : u \in Step /\ ~(s <= u)
  BY ManifestAssumption DEF Step
<1>4. IsExpected(run, s)
  BY <1>2, <1>3 DEF IsExpected
<1>5. QED
  BY <1>3, <1>4

\* Whatever races and interruptions made of an open run, once no command is
\* running every agent has a command that moves it on: the projection never
\* leaves a step that the validators and the unique index agree to block.
THEOREM RunsResume == Spec => []Resumable
<1>1. Sound => Resumable
  <2>1. SUFFICES ASSUME Sound, Open(Current), ~CanFinish(Current), NEW a \in Agents
                 PROVE  \E s \in Step :
                           \/ \E takeover \in BOOLEAN, action \in ClaimActions :
                                 /\ ClaimIs(Current, s, takeover, a, action)
                                 /\ ~ClaimCollides(ActionEvent(action, s, a, FALSE))
                           \/ CanComplete(Current, s, a, TRUE)
                           \/ CanReconcile(Current, s, TRUE)
    BY DEF Resumable
  <2>2. /\ Current \in Run /\ Current = RunOf(timeline) /\ RunHasEvents(timeline)
        /\ Len(timeline) \in Nat /\ timeline \in Seq(Slot)
    BY <2>1, CurrentHasEvents DEF RunHasEvents
  <2>3. PICK s \in Step : IsExpected(Current, s)
    BY <2>1, <2>2, ExpectedStep DEF CanFinish, Open, Found
  <2>4. Current.steps[s].status \in {"pending", "claimed", "failed", "needs_reconcile"}
    BY <2>2, <2>3 DEF Run, StepStatus, IsExpected
  <2>5. \A action : action # "claimed" => ~ClaimCollides(ActionEvent(action, s, a, FALSE))
    BY DEF ClaimCollides, ActionEvent
  <2>6. CASE Current.steps[s].status = "pending"
    <3>1. ClaimIs(Current, s, FALSE, a, "claimed")
      BY <2>1, <2>3, <2>6 DEF ClaimIs
    <3>2. ~ClaimCollides(ActionEvent("claimed", s, a, FALSE))
      BY <2>2, <2>6 DEF ClaimCollides, ActionEvent, RunHasEvents, StepActions, ClaimActions
    <3>3. QED
      BY <3>1, <3>2 DEF ClaimActions
  <2>7. CASE Current.steps[s].status = "failed"
    <3>1. ClaimIs(Current, s, FALSE, a, "reclaimed")
      BY <2>1, <2>3, <2>7 DEF ClaimIs
    <3>2. QED
      BY <2>5, <3>1 DEF ClaimActions
  <2>8. CASE Current.steps[s].status = "claimed"
    <3>1. ClaimIs(Current, s, TRUE, a, "taken_over")
      BY <2>1, <2>3, <2>8 DEF ClaimIs
    <3>2. QED
      BY <2>5, <3>1 DEF ClaimActions
  <2>9. CASE Current.steps[s].status = "needs_reconcile"
    BY <2>9 DEF CanReconcile, Approved
  <2>10. QED
    BY <2>4, <2>6, <2>7, <2>8, <2>9
<1>2. QED
  BY <1>1, SoundStays, PTL

(***************************************************************************)
(* Commands that take turns.                                               *)
(***************************************************************************)
\* At most one command runs; its event is still admitted, and the stamp it
\* took is the last one.
TakeTurns ==
    /\ \A p, q \in Procs : command[p] # Idle /\ command[q] # Idle => p = q
    /\ \A p \in Procs : /\ command[p] # Idle => Admits(Current, command[p].event)
                        /\ command[p].at > 0 => command[p].at = Len(timeline)

\* A step leaves the store alone, or appends an event that the run admits.
Appends(e) ==
    /\ \/ e.action = "started" /\ Stored = << >> /\ Current = Unstarted
       \/ Admits(Current, e)
    /\ Stored' = Append(Stored, e)
    /\ Current' = ApplyAction(Current, e)

TurnStep ==
    \/ Stored' = Stored /\ Current' = Current
    \/ \E e \in Event : Appends(e)

Filled(t, n, e) == [t EXCEPT ![n] = e]

\* Filling the last slot appends.
LEMMA LastSlot ==
    ASSUME NEW t \in Seq(Slot), NEW n \in 1..Len(t), n = Len(t), NEW e \in Slot
    PROVE  \E f \in Seq(Slot) : t = Append(f, t[n]) /\ Filled(t, n, e) = Append(f, e)
<1> DEFINE f == [i \in 1..(n - 1) |-> t[i]]
<1>1. f \in Seq(Slot) /\ Len(f) = n - 1
  OBVIOUS
<1>2. t = Append(f, t[n])
  OBVIOUS
<1>3. Filled(t, n, e) = Append(f, e)
  BY DEF Filled
<1>4. QED
  BY <1>1, <1>2, <1>3

\* Then the run gains that event and nothing else.
LEMMA LastInserted ==
    ASSUME NEW t \in Seq(Slot), NEW n \in 1..Len(t), n = Len(t), t[n] = Hole, NEW e \in Event
    PROVE  /\ Listing(Filled(t, n, e)) = Append(Listing(t), e)
           /\ RunOf(Filled(t, n, e)) = ApplyAction(RunOf(t), e)
<1>1. e \in Slot /\ e # Hole
  BY HoleIsNoEvent DEF Slot
<1>2. PICK f \in Seq(Slot) : t = Append(f, Hole) /\ Filled(t, n, e) = Append(f, e)
  <2>1. \E f \in Seq(Slot) : t = Append(f, t[n]) /\ Filled(t, n, e) = Append(f, e)
    BY <1>1, LastSlot
  <2>2. QED
    BY <2>1
<1>3. Hole \in Slot
  BY DEF Slot
<1>4. Listing(t) = Listing(f) /\ Listing(Append(f, e)) = Append(Listing(f), e)
  BY <1>1, <1>2, <1>3, ListingAppend DEF KeepStored
<1>5. RunOf(t) = RunOf(f) /\ RunOf(Append(f, e)) = ApplyAction(RunOf(f), e)
  BY <1>1, <1>2, <1>3, RunAppend
<1>6. QED
  BY <1>2, <1>4, <1>5

\* Without overlap every step keeps the turns.
LEMMA TurnsTaken ==
    ASSUME Overlap = FALSE, Sound, TakeTurns, NEW p \in Procs, StepOf(p)
    PROVE  TakeTurns' /\ TurnStep
<1>1. /\ timeline \in Seq(Slot) /\ Len(timeline) \in Nat
      /\ command \in [Procs -> [event : Slot, at : 0..MaxEvents]]
      /\ StampsAreHoles
      /\ Stored = Listing(timeline) /\ Current = RunOf(timeline)
      /\ Stored' = Listing(timeline') /\ Current' = RunOf(timeline')
      /\ timeline = << >> => Stored = << >> /\ Current = Unstarted
  BY TypeParts, CurrentHasEvents, ListingEmpty
     DEF Sound, CommandsTyped, Stored, Current, RunOf
<1>2. CASE Starts
  <2>1. PICK e \in Event : e.action = "started" /\ timeline' = <<e>>
    BY <1>2 DEF Starts
  <2>2. timeline' = Append(timeline, e) /\ timeline = << >> /\ e \in Slot /\ e # Hole
    BY <1>2, <2>1, HoleIsNoEvent DEF Starts, Slot
  <2>3. Appends(e)
    BY <1>1, <2>1, <2>2, ListingAppend, RunAppend DEF Appends, KeepStored
  <2>4. \A q \in Procs : command'[q] = Idle
    BY <1>2 DEF Starts, Sound, Started
  <2>5. TakeTurns'
    BY <2>4, IdleFields DEF TakeTurns
  <2>6. QED
    BY <2>3, <2>5 DEF TurnStep
<1>3. CASE Begins(p)
  <2>1. PICK e \in Event : Admits(Current, e) /\ Begin(p, e)
    BY <1>3 DEF Begins
  <2>2. /\ timeline' = timeline
        /\ command'[p] = [event |-> e, at |-> 0]
        /\ \A q \in Procs \ {p} : command'[q] = Idle
    BY <1>1, <1>3, <2>1 DEF Begin, Begins, MayBegin
  <2>3. Stored' = Stored /\ Current' = Current
    BY <1>1, <2>2
  <2>4. TakeTurns'
    BY <2>1, <2>2, <2>3, IdleFields DEF TakeTurns
  <2>5. QED
    BY <2>3, <2>4 DEF TurnStep
<1>4. CASE Stamp(p)
  <2>1. /\ timeline' = Append(timeline, Hole) /\ Hole \in Slot
        /\ command[p] # Idle
        /\ command'[p] = [event |-> command[p].event, at |-> Len(timeline) + 1]
        /\ \A q \in Procs \ {p} : command'[q] = command[q]
    BY <1>1, <1>4 DEF Stamp, Slot
  <2>2. Stored' = Stored /\ Current' = Current /\ Len(timeline') = Len(timeline) + 1
    BY <1>1, <2>1, ListingAppend, RunAppend DEF KeepStored
  <2>3. \A q \in Procs \ {p} : command'[q] = Idle
    BY <2>1 DEF TakeTurns
  <2>4. TakeTurns'
    BY <2>1, <2>2, <2>3, IdleFields DEF TakeTurns
  <2>5. QED
    BY <2>2, <2>4 DEF TurnStep
<1>5. CASE Insert(p)
  <2> DEFINE c == command[p]
  <2>1. /\ c.at \in 1..Len(timeline) /\ timeline[c.at] = Hole /\ c # Idle
        /\ c.at = Len(timeline) /\ Admits(Current, c.event) /\ c.event \in Event
    BY <1>1, <1>5, IdleFields DEF Insert, StampsAreHoles, TakeTurns, Slot
  <2>2. /\ command'[p] = Idle
        /\ \A q \in Procs \ {p} : command'[q] = command[q]
    BY <1>1, <1>5 DEF Insert
  <2>3. \A q \in Procs : command'[q] = Idle
    BY <2>1, <2>2 DEF TakeTurns
  <2>4. TakeTurns'
    BY <2>3, IdleFields DEF TakeTurns
  <2>5. CASE timeline' = timeline
    BY <1>1, <2>4, <2>5 DEF TurnStep
  <2>6. CASE timeline' = [timeline EXCEPT ![c.at] = c.event]
    <3>1. Appends(c.event)
      BY <1>1, <2>1, <2>6, LastInserted DEF Appends, Filled
    <3>2. QED
      BY <2>1, <2>4, <3>1 DEF TurnStep
  <2>7. QED
    BY <1>5, <2>5, <2>6 DEF Insert
<1>6. CASE Interrupt(p)
  <2>1. /\ timeline' = timeline
        /\ command'[p] = Idle
        /\ \A q \in Procs \ {p} : command'[q] = command[q]
        /\ command[p] # Idle
    BY <1>1, <1>6 DEF Interrupt
  <2>2. Stored' = Stored /\ Current' = Current
    BY <1>1, <2>1
  <2>3. \A q \in Procs : command'[q] = Idle
    BY <2>1 DEF TakeTurns
  <2>4. TakeTurns'
    BY <2>3, IdleFields DEF TakeTurns
  <2>5. QED
    BY <2>2, <2>4 DEF TurnStep
<1>7. QED
  BY <1>2, <1>3, <1>4, <1>5, <1>6 DEF StepOf

(***************************************************************************)
(* The steps of a run in order.                                            *)
(***************************************************************************)
\* The bodies of StepsInOrder and StatusAgreesWithSteps, for any run.
InOrder(run) ==
    \A s, t \in Step :
        s < t /\ run.steps[t].status # "pending" => run.steps[s].status = "completed"

HasStep(run, st) == \E s \in Step : run.steps[s].status = st

Agrees(run) ==
    /\ run.status = "completed" => CanFinish(run)
    /\ run.status \in {"failed", "needs_reconcile"} => HasStep(run, run.status)
    /\ run.status = "active" => ~HasStep(run, "failed") /\ ~HasStep(run, "needs_reconcile")

\* Step s is the one in progress.
InProgress(run, s) ==
    \A t \in Step : /\ t < s => run.steps[t].status = "completed"
                    /\ s < t => run.steps[t].status = "pending"

\* A step that is expected, or has left pending, is the one in progress.
LEMMA ExpectedInProgress ==
    ASSUME NEW run \in Run, NEW s \in Step, InOrder(run),
           IsExpected(run, s) \/ run.steps[s].status \notin {"pending", "completed"}
    PROVE  InProgress(run, s)
<1>1. \A t \in Step : t \in Nat /\ 1 <= t
  BY ManifestAssumption DEF Step
<1>2. \A t \in Step : t < s => run.steps[t].status = "completed"
  BY <1>1, ManifestAssumption DEF InOrder, IsExpected, Step
<1>3. run.steps[s].status # "completed"
  BY DEF IsExpected
<1>4. QED
  BY <1>1, <1>2, <1>3 DEF InOrder, InProgress

\* Only the step in progress moves.
LEMMA StepMoved ==
    ASSUME NEW run \in Run, NEW now \in Run, NEW s \in Step, InProgress(run, s),
           \A t \in Step \ {s} : now.steps[t] = run.steps[t]
    PROVE  /\ InOrder(now)
           /\ \A st \in {"failed", "needs_reconcile"} :
                 /\ HasStep(now, st) <=> now.steps[s].status = st
                 /\ HasStep(run, st) <=> run.steps[s].status = st
<1>1. \A t \in Step : t \in Nat
  BY ManifestAssumption DEF Step
<1>2. InProgress(now, s)
  BY <1>1 DEF InProgress
<1>3. InOrder(now)
  BY <1>1, <1>2 DEF InProgress, InOrder
<1>4. ASSUME NEW any \in Run, InProgress(any, s), NEW st \in {"failed", "needs_reconcile"}
      PROVE  HasStep(any, st) <=> any.steps[s].status = st
  BY <1>1, <1>4 DEF InProgress, HasStep
<1>5. QED
  BY <1>2, <1>3, <1>4

\* An admitted event moves the run in order, and undoes no completed step.
MovesInOrder(run, now) ==
    /\ InOrder(now) /\ Agrees(now)
    /\ \A s \in Step : run.steps[s].status = "completed" => now.steps[s].status = "completed"

\* What a claim does to the run.
LEMMA ClaimApplied ==
    ASSUME NEW run \in Run, NEW e \in Event, e.action \in ClaimActions
    PROVE  LET now == ApplyAction(run, e)
           IN  /\ \A t \in Step \ {e.step} : now.steps[t] = run.steps[t]
               /\ \/ now.status = "needs_reconcile" /\ now.steps[e.step].status = "needs_reconcile"
                  \/ /\ now.steps[e.step].status = "claimed"
                     /\ run.status = "failed" => now.status = "active"
                     /\ run.status # "failed" => now.status = run.status
<1>1. ApplyAction(run, e) = ApplyClaim(run, e) /\ e.step \in Step
  BY ApplyCases, EventFields DEF StepActions
<1>2. QED
  BY <1>1 DEF ApplyClaim, Run

\* An admitted event keeps the order of the steps.
LEMMA AdmittedInOrder ==
    ASSUME NEW run \in Run, NEW e \in Event, InOrder(run), Agrees(run), Admits(run, e)
    PROVE  MovesInOrder(run, ApplyAction(run, e))
<1>1. PICK now \in Run : now = ApplyAction(run, e)
  BY ApplyType
<1>2. CASE e.action \in ClaimActions
  <2>1. PICK s \in Step : s = e.step
    BY <1>2, EventFields DEF StepActions
  <2>2. /\ Open(run) /\ IsExpected(run, s)
        /\ run.steps[s].status \in {"pending", "failed", "claimed"}
    BY <1>2, <2>1 DEF Admits, ClaimIs
  <2>3. InProgress(run, s)
    BY <2>2, ExpectedInProgress
  <2>4. /\ \A t \in Step \ {s} : now.steps[t] = run.steps[t]
        /\ \/ now.status = "needs_reconcile" /\ now.steps[s].status = "needs_reconcile"
           \/ /\ now.steps[s].status = "claimed"
              /\ run.status = "failed" => now.status = "active"
              /\ run.status # "failed" => now.status = run.status
    BY <1>1, <1>2, <2>1, ClaimApplied
  <2>5. /\ InOrder(now)
        /\ \A st \in {"failed", "needs_reconcile"} :
              /\ HasStep(now, st) <=> now.steps[s].status = st
              /\ HasStep(run, st) <=> run.steps[s].status = st
    BY <2>3, <2>4, StepMoved
  <2>6. Agrees(now)
    BY <2>2, <2>4, <2>5 DEF Agrees, Open
  <2>7. \A t \in Step : run.steps[t].status = "completed" => now.steps[t].status = "completed"
    BY <2>2, <2>4
  <2>8. QED
    BY <1>1, <2>5, <2>6, <2>7 DEF MovesInOrder
<1>3. ASSUME NEW st \in {"active", "failed"}, NEW ss \in {"completed", "failed"},
             NEW s \in Step, run.steps[s].status \in {"claimed", "needs_reconcile"},
             now = Settled(run, s, st, ss), st = "failed" <=> ss = "failed"
      PROVE  MovesInOrder(run, now)
  <2>1. InProgress(run, s)
    BY <1>3, ExpectedInProgress
  <2>2. st \in RunStatus /\ ss \in StepStatus
    BY DEF RunStatus, StepStatus
  <2>3. /\ \A t \in Step \ {s} : now.steps[t] = run.steps[t]
        /\ now.status = st /\ now.steps[s].status = ss
    BY <1>3, <2>2, SettledType
  <2>4. /\ InOrder(now)
        /\ \A any \in {"failed", "needs_reconcile"} :
              HasStep(now, any) <=> now.steps[s].status = any
    BY <2>1, <2>3, StepMoved
  <2>5. Agrees(now)
    BY <1>3, <2>3, <2>4 DEF Agrees
  <2>6. \A t \in Step : run.steps[t].status = "completed" => now.steps[t].status = "completed"
    BY <1>3, <2>3
  <2>7. QED
    BY <2>4, <2>5, <2>6 DEF MovesInOrder
<1>4. CASE e.action \in {"completed_step", "reconciled"}
  <2>1. /\ e.step \in Step
        /\ run.steps[e.step].status \in {"claimed", "needs_reconcile"}
    BY <1>4, EventFields DEF Admits, CanComplete, CanReconcile, StepActions
  <2>2. now = Settled(run, e.step, "active", "completed")
    BY <1>1, <1>4, ApplyCases
  <2>3. QED
    BY <1>1, <1>3, <2>1, <2>2
<1>5. CASE e.action = "failed_step"
  <2>1. e.step \in Step /\ run.steps[e.step].status = "claimed"
    BY <1>5, EventFields DEF Admits, CanFail, StepActions
  <2>2. now = Settled(run, e.step, "failed", "failed")
    BY <1>1, <1>5, ApplyCases
  <2>3. QED
    BY <1>1, <1>3, <2>1, <2>2
<1>6. CASE e.action \in {"completed", "aborted"}
  <2>1. now.steps = run.steps /\ now.status = e.action
    BY <1>1, <1>6, ApplyCases DEF Ended, Run
  <2>2. e.action = "completed" => CanFinish(now)
    BY <2>1 DEF Admits, CanFinish, Found
  <2>3. QED
    BY <1>1, <1>6, <2>1, <2>2 DEF MovesInOrder, InOrder, Agrees
<1>7. e.action # "started"
  BY DEF Admits
<1>8. QED
  BY <1>2, <1>4, <1>5, <1>6, <1>7, EventKinds

\* So does the start.
LEMMA StartedInOrder ==
    ASSUME NEW e \in Event, e.action = "started"
    PROVE  MovesInOrder(Unstarted, ApplyAction(Unstarted, e))
<1>1. ApplyAction(Unstarted, e) = Began
  BY ApplyCases
<1>2. Began.status = "active" /\ \A s \in Step : Began.steps[s].status = "pending"
  BY DEF Began, Unstarted
<1>3. \A s \in Step : Unstarted.steps[s].status = "pending"
  BY DEF Unstarted
<1>4. QED
  BY <1>1, <1>2, <1>3 DEF MovesInOrder, InOrder, Agrees, HasStep

(***************************************************************************)
(* A non-idempotent step is not repeated.                                  *)
(***************************************************************************)
LastClaim(log, i) ==
    /\ log[i].action \in ClaimActions
    /\ \A j \in (i + 1)..Len(log) :
          log[j].action \in ClaimActions => log[j].step # log[i].step

NotRepeated(log, run) ==
    \A i \in DOMAIN log :
        /\ LastClaim(log, i)
        /\ log[i].step \in NonIdempotent
        /\ run.steps[log[i].step].status = "claimed"
        => log[i].action # "taken_over"

\* An admitted event repeats no non-idempotent step.
LEMMA AdmittedNotRepeated ==
    ASSUME NEW log \in Seq(Event), NEW run \in Run, NEW e \in Event,
           NotRepeated(log, run), Admits(run, e) \/ e.action = "started"
    PROVE  NotRepeated(Append(log, e), ApplyAction(run, e))
<1>1. PICK more \in Seq(Event) : more = Append(log, e)
  <2>1. Append(log, e) \in Seq(Event)
    OBVIOUS
  <2>2. QED
    BY <2>1
<1>2. /\ Len(log) \in Nat /\ Len(more) = Len(log) + 1
      /\ \A i \in 1..Len(log) : more[i] = log[i]
      /\ more[Len(log) + 1] = e
  BY <1>1
<1>3. PICK now : now = ApplyAction(run, e)
  OBVIOUS
<1>4. SUFFICES ASSUME NEW i \in 1..Len(more), LastClaim(more, i),
                      more[i].step \in NonIdempotent,
                      now.steps[more[i].step].status = "claimed",
                      more[i].action = "taken_over"
               PROVE  FALSE
  BY <1>1, <1>3 DEF NotRepeated
<1>5. PICK s \in Step : s = more[i].step
  BY <1>4, EventFields DEF StepActions, ClaimActions
<1>6. CASE i = Len(log) + 1
  <2>1. e.action = "taken_over" /\ e.step = s
    BY <1>2, <1>4, <1>5, <1>6
  <2>2. run.steps[s].status = "claimed"
    BY <2>1 DEF Admits, ClaimIs, ClaimActions
  <2>3. QED
    BY <1>3, <1>4, <1>5, <2>1, <2>2, ApplyStep DEF StepActions, ClaimActions
<1>7. CASE i # Len(log) + 1
  <2>1. i \in 1..Len(log) /\ more[i] = log[i]
    BY <1>2, <1>7
  <2>2. LastClaim(log, i)
    BY <1>2, <1>4, <2>1 DEF LastClaim
  <2>3. ~(e.action \in ClaimActions /\ e.step = s)
    BY <1>2, <1>4, <1>5, <2>1 DEF LastClaim
  <2>4. run.steps[s].status = "claimed"
    BY <1>3, <1>4, <1>5, <2>3, ApplyStep
  <2>5. QED
    BY <1>4, <1>5, <2>1, <2>2, <2>4 DEF NotRepeated
<1>8. QED
  BY <1>6, <1>7

(***************************************************************************)
(* The invariant of a run whose commands take turns.                       *)
(***************************************************************************)
TurnRun ==
    /\ Sound
    /\ TakeTurns
    /\ InOrder(Current)
    /\ Agrees(Current)
    /\ NotRepeated(Stored, Current)

\* The invariant of commands that take turns holds at first.
LEMMA InitTurnRun == Init => TurnRun
<1> SUFFICES ASSUME Init PROVE TurnRun
  OBVIOUS
<1>1. Sound
  BY InitSound
<1>2. TakeTurns
  BY IdleFields DEF Init, TakeTurns
<1>3. Stored = << >> /\ Current = Unstarted
  BY <1>1, CurrentHasEvents, ListingEmpty DEF Init, Stored
<1>4. /\ Unstarted.status = "unstarted"
      /\ \A s \in Step : Unstarted.steps[s].status = "pending"
  BY DEF Unstarted
<1>5. QED
  BY <1>1, <1>2, <1>3, <1>4 DEF TurnRun, InOrder, Agrees, NotRepeated

\* Every step keeps it, and keeps completed steps completed.
LEMMA TurnRunStep ==
    ASSUME Overlap = FALSE, TurnRun, NEW p \in Procs, StepOf(p)
    PROVE  /\ TurnRun'
           /\ \A s \in Step : Current.steps[s].status = "completed" =>
                                  Current'.steps[s].status = "completed"
<1>1. Sound' /\ TakeTurns' /\ TurnStep
  BY StepSound, TurnsTaken DEF TurnRun
<1>2. CASE Stored' = Stored /\ Current' = Current
  BY <1>1, <1>2 DEF TurnRun, InOrder, Agrees, NotRepeated, HasStep, LastClaim, CanFinish, Found
<1>3. ASSUME NEW e \in Event, Appends(e)
      PROVE  TurnRun' /\ MovesInOrder(Current, Current')
  <2>1. /\ Stored' = Append(Stored, e) /\ Current' = ApplyAction(Current, e)
        /\ (e.action = "started" /\ Current = Unstarted) \/ Admits(Current, e)
    BY <1>3 DEF Appends
  <2>2. Current \in Run /\ Stored \in Seq(Event)
    BY CurrentHasEvents, ListingType DEF TurnRun, Stored, RunHasCause
  <2>3. MovesInOrder(Current, Current')
    BY <2>1, <2>2, AdmittedInOrder, StartedInOrder DEF TurnRun
  <2>4. NotRepeated(Stored', Current')
    BY <2>1, <2>2, AdmittedNotRepeated DEF TurnRun
  <2>5. QED
    BY <1>1, <2>3, <2>4 DEF TurnRun, MovesInOrder
<1>4. QED
  BY <1>1, <1>2, <1>3 DEF TurnStep, MovesInOrder

\* The same for a stutter.
LEMMA TurnRunNext ==
    ASSUME Overlap = FALSE
    PROVE  TurnRun /\ [Next]_vars =>
              /\ TurnRun'
              /\ \A s \in Step : Current.steps[s].status = "completed" =>
                                     Current'.steps[s].status = "completed"
<1>1. ASSUME TurnRun, Next
      PROVE  \E p \in Procs : StepOf(p)
  BY <1>1, NextSteps DEF TurnRun
<1>2. ASSUME TurnRun, UNCHANGED vars
      PROVE  TurnRun' /\ Current' = Current
  BY <1>2 DEF vars, TurnRun, Sound, TypeOK, Started, StartedOnce, Current, Stored, TakeTurns,
              InOrder, Agrees, NotRepeated
<1>3. QED
  BY <1>1, <1>2, TurnRunStep

\* It holds always.
LEMMA TurnRunAlways ==
    ASSUME Overlap = FALSE
    PROVE  Spec => []TurnRun
<1>1. TurnRun /\ [Next]_vars => TurnRun'
  BY TurnRunNext
<1>2. QED
  BY <1>1, InitTurnRun, PTL DEF Spec

\* When commands take turns, the steps before the expected one are completed
\* and those after it untouched, also after aborts, failures and takeovers
\* (validate_claim, apply_action).
THEOREM TurnsKeepOrder ==
    ASSUME Overlap = FALSE
    PROVE  Spec => []StepsInOrder
<1>1. TurnRun => StepsInOrder
  BY DEF TurnRun, StepsInOrder, InOrder
<1>2. QED
  BY <1>1, TurnRunAlways, PTL

\* When commands take turns, the status of the run agrees with its steps:
\* also after an aborted run's claimed step was completed or taken over.
THEOREM TurnsAgree ==
    ASSUME Overlap = FALSE
    PROVE  Spec => []StatusAgreesWithSteps
<1>1. TurnRun => StatusAgreesWithSteps
  BY DEF TurnRun, StatusAgreesWithSteps, Agrees, HasStep
<1>2. QED
  BY <1>1, TurnRunAlways, PTL

\* When commands take turns, whoever is told to carry out a non-idempotent
\* step did not get it by takeover (the needs_reconcile arm of apply_action).
THEOREM TurnsDoNotRepeat ==
    ASSUME Overlap = FALSE
    PROVE  Spec => []NonIdempotentNotRepeated
<1>1. TurnRun => NonIdempotentNotRepeated
  BY DEF TurnRun, NonIdempotentNotRepeated, NotRepeated, LastClaim
<1>2. QED
  BY <1>1, TurnRunAlways, PTL

\* When commands take turns, no step undoes a completed one.
THEOREM TurnsUndoNothing ==
    ASSUME Overlap = FALSE
    PROVE  Spec => CompletedStepsStay
<1>1. TurnRun /\ [Next]_vars =>
         [\A s \in Step : Current.steps[s].status = "completed" =>
                              Current'.steps[s].status = "completed"]_vars
  BY TurnRunNext
<1>2. QED
  BY <1>1, TurnRunAlways, PTL DEF Spec, CompletedStepsStay
=============================================================================
