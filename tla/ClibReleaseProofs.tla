------------------------- MODULE ClibReleaseProofs -------------------------
(* Proofs about the GitHub Release of a tag, for any number of runs and      *)
(* tags.                                                                     *)
EXTENDS ClibRelease, TLAPS

\* The steps of a run whose Release exists.
Attaching == {"artifacts", "strip", "state", "highest", "publish"}

\* The steps after the manifest was seen.
Publishing == {"state", "highest", "publish"}

(* The invariant.  A run that has seen the manifest relies on its staying,   *)
(* which hangs on no run removing it; a stray is owed by a run at its tag,   *)
(* which has still to list or to remove it, has failed, or was not answered; *)
(* and what was ahead of a run when it started still is.                     *)
ManifestInv ==
    \A r \in Runs : pc[r] \in Publishing => "manifest" \in assets[tag[r]]

Owes(r, a) ==
    \/ pc[r] \in {"ensure", "create", "artifacts", "failed", "stopped"}
    \/ pc[r] = "strip" /\ a \in listed[r]
    \/ ~ heard[r]

StrayInv ==
    \A v \in Versions : \A a \in assets[v] \cap Strays :
        \E r \in Runs : tag[r] = v /\ Owes(r, a)

BehindInv ==
    \A r \in Runs : behind[r] =>
        /\ \E w \in tags : w > tag[r]
        /\ pc[r] = "publish" => highest[r] # tag[r]

IInv ==
    /\ TypeOK
    /\ \A r \in Runs : pc[r] \in Attaching => release[tag[r]] # "none"
    /\ ManifestInv
    /\ PublishedHasManifest
    /\ StrayInv
    /\ BehindInv

Actions(r) ==
    \/ Step(r) \/ Stop(r)
    \/ \E v \in Versions : Dispatch(r, v) \/ PublishByHand(r, v)

(* A version is a natural number.                                            *)
LEMMA VersionsAreNumbers == Versions \subseteq Nat \ {0}
BY NumVersionsAssumption DEF Versions

(* A run that has started is for a version.                                  *)
LEMMA TagOfARun ==
  ASSUME TypeOK, NEW r \in Runs, pc[r] # "idle"
  PROVE  tag[r] \in Versions
BY DEF TypeOK

(* Every action is the push of a tag or the action of one run, which leaves  *)
(* the other runs where they are.                                            *)
LEMMA OthersStay ==
  ASSUME TypeOK, NEW r \in Runs, Actions(r), NEW q \in Runs, q # r
  PROVE  /\ pc'[q] = pc[q] /\ tag'[q] = tag[q] /\ listed'[q] = listed[q]
         /\ highest'[q] = highest[q] /\ heard'[q] = heard[q] /\ behind'[q] = behind[q]
BY DEF TypeOK, Actions, Step, Stop, Dispatch, PublishByHand, Start, View, Create, Attach,
       List, Delete, CheckManifest, State, Highest, Publish, Go, Hear, github

(* The types hold initially.                                                 *)
LEMMA InitTyped == Init => TypeOK
BY DEF Init, TypeOK, Steps, Strays, Built

(* The types hold after every step.                                          *)
LEMMA TypedStep ==
  ASSUME TypeOK, [Next]_vars,
         \A r \in Runs : pc[r] \in Attaching => release[tag[r]] # "none"
  PROVE  TypeOK'
<1>. USE DEF TypeOK, Steps, Go, Hear, github
<1>1. ASSUME NEW v \in Versions, PushTag(v)
      PROVE  TypeOK'
  BY <1>1 DEF PushTag
<1>2. ASSUME NEW r \in Runs, NEW v \in Versions, Dispatch(r, v)
      PROVE  TypeOK'
  BY <1>2, VersionsAreNumbers DEF Dispatch, Start
<1>3. ASSUME NEW r \in Runs, NEW v \in Versions, PublishByHand(r, v)
      PROVE  TypeOK'
  BY <1>3, VersionsAreNumbers DEF PublishByHand, Start
<1>4. ASSUME NEW r \in Runs, Stop(r)
      PROVE  TypeOK'
  BY <1>4 DEF Stop
<1>5. CASE UNCHANGED vars
  BY <1>5 DEF vars
<1>6. ASSUME NEW r \in Runs, View(r)
      PROVE  TypeOK'
  BY <1>6 DEF View
<1>7. ASSUME NEW r \in Runs, Create(r)
      PROVE  TypeOK'
  BY <1>7, TagOfARun DEF Create
<1>8. ASSUME NEW r \in Runs, NEW a \in Built, Attach(r, a), release[tag[r]] # "none"
      PROVE  TypeOK'
  BY <1>8 DEF Attach
<1>9. ASSUME NEW r \in Runs, List(r)
      PROVE  TypeOK'
  BY <1>9 DEF List
<1>10. ASSUME NEW r \in Runs, NEW a \in Strays, Delete(r, a)
       PROVE  TypeOK'
  BY <1>10, TagOfARun DEF Delete
<1>11. ASSUME NEW r \in Runs, CheckManifest(r)
       PROVE  TypeOK'
  BY <1>11 DEF CheckManifest
<1>12. ASSUME NEW r \in Runs, State(r)
       PROVE  TypeOK'
  BY <1>12 DEF State
<1>13. ASSUME NEW r \in Runs, Highest(r)
       PROVE  TypeOK'
  BY <1>13 DEF Highest
<1>14. ASSUME NEW r \in Runs, Publish(r)
       PROVE  TypeOK'
  BY <1>14, TagOfARun DEF Publish, Attaching
<1>15. ASSUME NEW r \in Runs, NEW a \in Built, Attach(r, a)
       PROVE  release[tag[r]] # "none"
  BY <1>15 DEF Attach, Attaching
<1>. HIDE DEF TypeOK, Steps, Go, Hear, github
<1>. QED
  BY <1>1, <1>2, <1>3, <1>4, <1>5, <1>6, <1>7, <1>8, <1>9, <1>10, <1>11, <1>12, <1>13,
     <1>14, <1>15 DEF Next, Step

(* A Release that exists is never removed.                                   *)
LEMMA ReleaseStays ==
  ASSUME TypeOK, [Next]_vars, NEW v \in Versions, release[v] # "none"
  PROVE  release'[v] # "none"
BY DEF TypeOK, Next, vars, Step, Stop, PushTag, Dispatch, PublishByHand, Start, View, Create,
       Attach, List, Delete, CheckManifest, State, Highest, Publish, github

(* No step removes a manifest.                                               *)
LEMMA ManifestStays ==
  ASSUME TypeOK, [Next]_vars, NEW v \in Versions, "manifest" \in assets[v]
  PROVE  "manifest" \in assets'[v]
BY DEF TypeOK, Next, vars, Step, Stop, PushTag, Dispatch, PublishByHand, Start, View, Create,
       Attach, List, Delete, CheckManifest, State, Highest, Publish, github, Strays

(* A run that has started stays with its version.                            *)
LEMMA TagStays ==
  ASSUME TypeOK, [Next]_vars, NEW r \in Runs, tag[r] # 0
  PROVE  tag'[r] = tag[r]
BY DEF TypeOK, Next, vars, Step, Stop, PushTag, Dispatch, PublishByHand, Start, View, Create,
       Attach, List, Delete, CheckManifest, State, Highest, Publish, github

(* A run comes to attach only when its Release is there.                     *)
LEMMA AttachingStep ==
  ASSUME IInv, [Next]_vars, NEW r \in Runs, pc'[r] \in Attaching
  PROVE  release'[tag'[r]] # "none"
<1>1. CASE pc[r] \in Attaching
  <2>1. tag[r] \in Versions /\ release[tag[r]] # "none"
    BY <1>1, TagOfARun DEF IInv, Attaching
  <2>2. tag'[r] = tag[r]
    BY <2>1, TagStays, VersionsAreNumbers DEF IInv
  <2>. QED
    BY <2>1, <2>2, ReleaseStays DEF IInv
<1>2. CASE pc[r] \notin Attaching
  <2>1. View(r) \/ Create(r)
    BY <1>2, OthersStay DEF IInv, TypeOK, Next, vars, Step, Stop, PushTag, Dispatch,
       PublishByHand, Start, Attach, List, Delete, CheckManifest, State, Highest, Publish,
       Go, github, Attaching, Actions
  <2>. QED
    BY <1>2, <2>1, TagOfARun DEF IInv, TypeOK, View, Create, Go, github, Attaching
<1>. QED
  BY <1>1, <1>2

(* What a run has seen of the manifest stays true.                           *)
LEMMA ManifestStep ==
  ASSUME IInv, [Next]_vars
  PROVE  ManifestInv'
<1>1. SUFFICES ASSUME NEW r \in Runs, pc'[r] \in Publishing
               PROVE  "manifest" \in assets'[tag'[r]]
  BY DEF ManifestInv
<1>2. CASE pc[r] \in Publishing
  <2>1. tag[r] \in Versions /\ "manifest" \in assets[tag[r]]
    BY <1>2, TagOfARun DEF IInv, ManifestInv, Publishing
  <2>2. tag'[r] = tag[r]
    BY <2>1, TagStays, VersionsAreNumbers DEF IInv
  <2>. QED
    BY <2>1, <2>2, ManifestStays DEF IInv
<1>3. CASE pc[r] \notin Publishing
  <2>1. CheckManifest(r)
    BY <1>1, <1>3, OthersStay DEF IInv, TypeOK, Next, vars, Step, Stop, PushTag, Dispatch,
       PublishByHand, Start, View, Create, Attach, List, Delete, State, Highest, Publish,
       Go, github, Publishing, Actions
  <2>. QED
    BY <1>1, <2>1 DEF IInv, TypeOK, CheckManifest, Go, github, Publishing
<1>. QED
  BY <1>2, <1>3

(* A Release becomes public by hand, or by a run that has seen the manifest. *)
LEMMA PublishedStep ==
  ASSUME IInv, [Next]_vars
  PROVE  PublishedHasManifest'
<1>1. SUFFICES ASSUME NEW v \in Versions, release'[v] = "public", v \notin byHand'
               PROVE  "manifest" \in assets'[v]
  BY DEF PublishedHasManifest
<1>2. v \notin byHand
  BY <1>1 DEF Next, vars, Step, Stop, PushTag, Dispatch, PublishByHand, Start, View, Create,
     Attach, List, Delete, CheckManifest, State, Highest, Publish, github
<1>3. CASE release[v] = "public"
  BY <1>2, <1>3, ManifestStays DEF IInv, PublishedHasManifest
<1>4. CASE release[v] # "public"
  <2>1. PICK r \in Runs : Publish(r)
    BY <1>1, <1>4 DEF IInv, TypeOK, Next, vars, Step, Stop, PushTag, Dispatch, PublishByHand,
       Start, View, Create, Attach, List, Delete, CheckManifest, State, Highest, github
  <2>2. v = tag[r]
    BY <1>1, <1>4, <2>1 DEF IInv, TypeOK, Publish
  <2>. QED
    BY <2>1, <2>2 DEF IInv, ManifestInv, Publish, Publishing
<1>. QED
  BY <1>3, <1>4

(* A run that owes a stray owes it after every step, unless it removed it.   *)
LEMMA OwingRun ==
  ASSUME IInv, NEW r \in Runs, Actions(r), tag[r] # 0, NEW a \in assets[tag[r]] \cap Strays,
         a \in assets'[tag[r]], Owes(r, a)
  PROVE  Owes(r, a)'
<1>. USE DEF IInv, TypeOK, Owes, Go, Hear, github
<1>1. ASSUME NEW v \in Versions, Dispatch(r, v) \/ PublishByHand(r, v)
      PROVE  Owes(r, a)'
  BY <1>1 DEF Dispatch, PublishByHand, Start
<1>2. CASE Stop(r)
  BY <1>2 DEF Stop
<1>3. CASE View(r)
  BY <1>3 DEF View
<1>4. CASE Create(r)
  BY <1>4 DEF Create
<1>5. ASSUME NEW b \in Built, Attach(r, b)
      PROVE  Owes(r, a)'
  BY <1>5 DEF Attach
<1>6. CASE List(r)
  BY <1>6 DEF List
<1>7. ASSUME NEW b \in Strays, Delete(r, b)
      PROVE  Owes(r, a)'
  BY <1>7 DEF Delete
<1>8. CASE CheckManifest(r)
  BY <1>8 DEF CheckManifest
<1>9. CASE State(r)
  BY <1>9 DEF State
<1>10. CASE Highest(r)
  BY <1>10 DEF Highest
<1>11. CASE Publish(r)
  BY <1>11 DEF Publish
<1>. HIDE DEF IInv, TypeOK, Owes, Go, Hear, github
<1>. QED
  BY <1>1, <1>2, <1>3, <1>4, <1>5, <1>6, <1>7, <1>8, <1>9, <1>10, <1>11 DEF Actions, Step

(* Every stray keeps a run that owes it.                                     *)
LEMMA StrayStep ==
  ASSUME IInv, [Next]_vars
  PROVE  StrayInv'
<1>1. SUFFICES ASSUME NEW v \in Versions, NEW a \in assets'[v] \cap Strays
               PROVE  \E r \in Runs : tag'[r] = v /\ Owes(r, a)'
  BY DEF StrayInv
<1>2. CASE a \in assets[v]
  <2>1. PICK r \in Runs : tag[r] = v /\ Owes(r, a)
    BY <1>1, <1>2 DEF IInv, StrayInv
  <2>2. tag[r] # 0 /\ tag'[r] = v
    BY <2>1, TagStays, VersionsAreNumbers DEF IInv
  <2>3. CASE Actions(r)
    BY <1>1, <1>2, <2>1, <2>2, <2>3, OwingRun
  <2>4. CASE ~ Actions(r)
    <3>1. pc'[r] = pc[r] /\ listed'[r] = listed[r] /\ heard'[r] = heard[r]
      <4>1. CASE UNCHANGED vars
        BY <4>1 DEF vars
      <4>2. ASSUME NEW w \in Versions, PushTag(w)
            PROVE  pc'[r] = pc[r] /\ listed'[r] = listed[r] /\ heard'[r] = heard[r]
        BY <4>2 DEF PushTag
      <4>3. ASSUME NEW q \in Runs, Actions(q)
            PROVE  pc'[r] = pc[r] /\ listed'[r] = listed[r] /\ heard'[r] = heard[r]
        BY <4>3, <2>4, OthersStay DEF IInv
      <4>. QED
        BY <4>1, <4>2, <4>3 DEF Next, Actions
    <3>. QED
      BY <2>1, <2>2, <3>1 DEF Owes
  <2>. QED
    BY <2>3, <2>4
<1>3. CASE a \notin assets[v]
  <2>1. PICK r \in Runs, b \in Built : Attach(r, b)
    BY <1>1, <1>3 DEF IInv, TypeOK, Next, vars, Step, Stop, PushTag, Dispatch, PublishByHand,
       Start, View, Create, List, Delete, CheckManifest, State, Highest, Publish, github
  <2>2. tag[r] = v
    BY <1>1, <1>3, <2>1 DEF IInv, TypeOK, Attach
  <2>. QED
    BY <2>1, <2>2 DEF Attach, Owes
<1>. QED
  BY <1>2, <1>3

(* A run that a higher tag was ahead of never finds itself the highest.      *)
LEMMA BehindStep ==
  ASSUME IInv, [Next]_vars
  PROVE  BehindInv'
<1>1. SUFFICES ASSUME NEW r \in Runs, behind'[r]
               PROVE  /\ \E w \in tags' : w > tag'[r]
                      /\ pc'[r] = "publish" => highest'[r] # tag'[r]
  BY DEF BehindInv
<1>2. tags \subseteq tags'
  BY DEF Next, vars, Step, Stop, PushTag, Dispatch, PublishByHand, Start, View, Create,
     Attach, List, Delete, CheckManifest, State, Highest, Publish, github
<1>3. ASSUME NEW v \in Versions, Dispatch(r, v) \/ PublishByHand(r, v)
      PROVE  /\ \E w \in tags' : w > tag'[r]
             /\ pc'[r] = "publish" => highest'[r] # tag'[r]
  BY <1>1, <1>3 DEF IInv, TypeOK, Dispatch, PublishByHand, Start, Go, github
<1>4. CASE Highest(r)
  <2>1. PICK w \in tags : w > tag[r]
    BY <1>1, <1>4 DEF IInv, TypeOK, BehindInv, Highest
  <2>2. tag[r] \in Versions
    BY <1>4, TagOfARun DEF IInv, Highest
  <2>3. PICK h \in {0} \cup tags : (h # 0 => \A u \in tags : u <= h) /\ highest'[r] = h
    BY <1>4 DEF IInv, TypeOK, Highest
  <2>4. h # tag[r]
    BY <2>1, <2>2, <2>3, VersionsAreNumbers DEF IInv, TypeOK
  <2>. QED
    BY <1>2, <1>4, <2>1, <2>3, <2>4 DEF Highest
<1>5. CASE /\ ~ Highest(r)
           /\ \A v \in Versions : ~ Dispatch(r, v) /\ ~ PublishByHand(r, v)
  <2>1. behind[r] /\ tag'[r] = tag[r]
    BY <1>1, <1>5, OthersStay DEF IInv, TypeOK, Next, vars, Step, Stop, PushTag, View, Create,
       Attach, List, Delete, CheckManifest, State, Publish, github, Actions
  <2>2. pc'[r] = "publish" => pc[r] = "publish" /\ highest'[r] = highest[r]
    BY <1>5, OthersStay DEF IInv, TypeOK, Next, vars, Step, Stop, PushTag, View, Create,
       Attach, List, Delete, CheckManifest, State, Publish, Go, github, Actions
  <2>. QED
    BY <1>2, <2>1, <2>2 DEF IInv, BehindInv
<1>. QED
  BY <1>3, <1>4, <1>5

-----------------------------------------------------------------------------

(* The invariant holds initially.                                            *)
LEMMA InitInv == Init => IInv
BY InitTyped, VersionsAreNumbers
   DEF Init, IInv, Attaching, ManifestInv, Publishing, PublishedHasManifest, StrayInv, BehindInv

(* The invariant holds after every step.                                     *)
LEMMA StepInv == IInv /\ [Next]_vars => IInv'
<1>1. SUFFICES ASSUME IInv, [Next]_vars
               PROVE  IInv'
  OBVIOUS
<1>2. TypeOK'
  BY <1>1, TypedStep DEF IInv
<1>. QED
  BY <1>1, <1>2, AttachingStep, ManifestStep, PublishedStep, StrayStep, BehindStep DEF IInv

(* The invariant holds in every reachable state.                             *)
LEMMA Invariant == Spec => []IInv
BY InitInv, StepInv, PTL DEF Spec

(* Type correctness; every Release is of a tag that is on the remote.        *)
THEOREM ReleaseIsTyped == Spec => []TypeOK
BY Invariant, PTL DEF IInv

(* A Release that a run has made public carries the manifest its loaders     *)
(* read, whatever other runs at the tag did between the check and the edit.  *)
THEOREM PublishedReleasesLoad == Spec => []PublishedHasManifest
BY Invariant, PTL DEF IInv

(* Once every run at a tag has succeeded, and heard its list, its Release    *)
(* carries no unsuffixed second copy, however the runs crossed.              *)
THEOREM SucceededRunsLeaveNoStray == Spec => []NoStraysLeft
<1>1. IInv => NoStraysLeft
  BY DEF IInv, StrayInv, Owes, NoStraysLeft
<1>. QED
  BY <1>1, Invariant, PTL

(* A run that a higher tag was ahead of when it started never moves Latest.  *)
THEOREM BackfillsNeverTakeLatest == Spec => BackfillIsNeverLatest
<1>1. ASSUME IInv, [Next]_vars, NEW r \in Runs, behind[r], pc[r] = "publish",
             pc'[r] = "succeeded"
      PROVE  latest' = latest
  <2>1. CASE Publish(r)
    BY <1>1, <2>1 DEF IInv, BehindInv, Publish
  <2>2. CASE ~ Publish(r)
    BY <1>1, <2>2, OthersStay DEF IInv, TypeOK, Next, vars, Step, Stop, PushTag, Dispatch,
       PublishByHand, Start, View, Create, Attach, List, Delete, CheckManifest, State,
       Highest, Go, github, Actions
  <2>. QED
    BY <2>1, <2>2
<1>2. IInv /\ [Next]_vars => [\A r \in Runs : behind[r] /\ pc[r] = "publish"
                                 /\ pc'[r] = "succeeded" => latest' = latest]_vars
  BY <1>1
<1>. QED
  BY <1>2, Invariant, PTL DEF Spec, BackfillIsNeverLatest
=============================================================================
