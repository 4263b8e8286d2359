----------------------------- MODULE ReleaseProofs -----------------------------
(***************************************************************************)
(* Proofs about the release, for any number of runs, commits and versions, *)
(* with or without the orchestrator and the tools run by hand.             *)
(***************************************************************************)
EXTENDS Release, SequenceTheorems, TLAPS

(* The steps between a run's decision and its tags. *)
Deciding == {"view", "publish", "tag"}

(* The invariant.  Tags are written once, so what a run saw of them still  *)
(* stands; what it decided follows from what it saw; it tags only what npm *)
(* has; what the crates job accepted of the Go tag still stands; and but   *)
(* for what make publish-go tagged, no Go tag stands without its ts/v tag, *)
(* since a run that writes the one writes the other or has seen it.        *)
SeenInv ==
  \A r \in Runs, l \in Lines :
    /\ pc[r] = "idle" => seen[r][l] = 0
    /\ seen[r][l] # 0 => seen[r][l] = tags[l][V(r)]

AskedInv ==
  \A r \in Runs :
    /\ "go" \in asked[r] => "ts" \in asked[r]
    /\ pc[r] \in {"decide", "tag"} => asked[r] # {}

DecidedInv ==
  \A r \in Runs : pc[r] \in Deciding /\ asked[r] # {} =>
    /\ missing[r] = asked[r] \ Present(r)
    /\ anchor[r] = Anchor(r)

TagInv == \A r \in Runs : pc[r] = "tag" => npm[V(r)] # 0

HandInv ==
  \A r \in Runs :
    pc[r] \in {"crate-view", "crate-publish", "crate-failed"} => tags["go"][V(r)] # 0

AcceptedInv ==
  \A r \in Runs : pc[r] = "crate-publish" => history[tags["go"][V(r)]] = V(r)

GoHasTs == \A v \in Versions \ byHand : tags["go"][v] # 0 => tags["ts"][v] # 0

IInv ==
  /\ TypeOK
  /\ SeenInv /\ AskedInv /\ DecidedInv /\ TagInv /\ HandInv /\ AcceptedInv /\ GoHasTs
  /\ TagsNameOneCommit /\ TagsNameTheirVersion /\ GoTagsAreOnNpm /\ CratesAreTheTags

-------------------------------------------------------------------------------

(* The version of a commit, and so of a run, is one of the versions. *)
LEMMA VersionOfACommit ==
  ASSUME TypeOK, NEW c \in Commits
  PROVE  history[c] \in Versions
BY ElementOfSeq DEF TypeOK, Commits

LEMMA VersionOfARun ==
  ASSUME TypeOK, NEW r \in Runs
  PROVE  V(r) \in Versions /\ commit[r] \in Commits
BY VersionOfACommit DEF TypeOK, V

(* A version, and a Go tag put on it by hand, are there for good. *)
LEMMA HistoryGrows ==
  ASSUME TypeOK, [Next]_vars
  PROVE  /\ history' \in Seq(Versions)
         /\ Commits \subseteq Commits' /\ 0 \notin Commits
         /\ \A c \in Commits : history'[c] = history[c]
         /\ byHand \subseteq byHand'
<1>1. history \in Seq(Versions) /\ Len(history) \in Nat
  BY LenProperties DEF TypeOK
<1>2. ASSUME NEW v \in Versions, history' = Append(history, v)
      PROVE  /\ history' \in Seq(Versions) /\ Len(history') = Len(history) + 1
             /\ \A c \in Commits : history'[c] = history[c]
  BY <1>1, <1>2, AppendProperties DEF Commits
<1>3. CASE Merge
  <2>1. PICK v \in Versions : history' = Append(history, v)
    BY <1>3 DEF Merge
  <2>. QED
    BY <1>1, <1>2, <1>3, <2>1 DEF Merge, Commits
<1>4. ASSUME NEW v \in Versions, PublishGo(v)
      PROVE  /\ history' \in Seq(Versions) /\ Len(history') = Len(history) + 1
             /\ \A c \in Commits : history'[c] = history[c]
  <2>1. PICK base \in Commits : history' = Append(history, history[base])
    BY <1>4 DEF PublishGo
  <2>. QED
    BY <1>2, <2>1, VersionOfACommit
<1>5. ASSUME NEW v \in Versions, PublishGo(v)
      PROVE  byHand \subseteq byHand'
  BY <1>5 DEF PublishGo
<1>6. CASE UNCHANGED <<history, byHand>>
  BY <1>1, <1>6 DEF Commits
<1>. QED
  BY <1>1, <1>3, <1>4, <1>5, <1>6 DEF Commits, Next, Maintain, PublishTs, DispatchCrates, vars,
     repo, Step, Dispatch, PushTag, Checkout, Decide, View, Publish, Tag, Hand, CrateView,
     CratePublish, Stop, Rerun

(* What is done beside the runs leaves them as they are. *)
LEMMA RunsAreLeftAlone ==
  ASSUME [Next]_vars
  PROVE  \/ UNCHANGED <<pc, commit, asked, seen, missing, anchor>>
         \/ \E q \in Runs : Step(q)
BY DEF Next, Maintain, Merge, PublishGo, PublishTs, DispatchCrates, vars, inputs, local

(* A tag, once written, and a version, once on npm, stay as they are. *)
LEMMA RegistriesStay ==
  ASSUME TypeOK, [Next]_vars, NEW v \in Versions
  PROVE  /\ \A l \in Lines : tags[l][v] # 0 => tags'[l][v] = tags[l][v]
         /\ npm[v] # 0 => npm'[v] = npm[v]
         /\ crate[v] # 0 => crate'[v] = crate[v]
<1>. USE DEF Lines
<1>1. ASSUME NEW l \in Lines, tags[l][v] # 0
      PROVE  tags'[l][v] = tags[l][v]
  <2>1. ASSUME NEW r \in Runs, PushTag(r)
        PROVE  tags'[l][v] = tags[l][v]
    <3>1. tags["ts"] \in [Versions -> Commits \cup {0}]
      BY DEF TypeOK
    <3>2. PICK c \in Commits : /\ tags["ts"][history[c]] = 0
                               /\ tags' = [tags EXCEPT !["ts"][history[c]] = c]
      BY <2>1 DEF PushTag
    <3>. QED
      BY <1>1, <3>1, <3>2 DEF TypeOK
  <2>2. ASSUME NEW r \in Runs, Tag(r)
        PROVE  tags'[l][v] = tags[l][v]
    <3>1. CASE l \in missing[r]
      <4>1. tags'[l] = [tags[l] EXCEPT ![V(r)] = anchor[r]] /\ tags[l][V(r)] \in {0, anchor[r]}
        BY <2>2, <3>1 DEF Tag
      <4>2. tags[l] \in [Versions -> Commits \cup {0}]
        BY DEF TypeOK
      <4>. QED
        BY <1>1, <4>1, <4>2
    <3>2. CASE l \notin missing[r]
      BY <2>2, <3>2 DEF Tag
    <3>. QED
      BY <3>1, <3>2
  <2>3. ASSUME NEW w \in Versions, PublishGo(w)
        PROVE  tags'[l][v] = tags[l][v]
    <3>1. tags["go"] \in [Versions -> Commits \cup {0}]
      BY DEF TypeOK
    <3>. QED
      BY <1>1, <2>3, <3>1 DEF TypeOK, PublishGo
  <2>. QED
    BY <2>1, <2>2, <2>3 DEF Next, vars, registries, Maintain, Step, Merge, PublishGo, PublishTs,
       DispatchCrates, repo, Dispatch, Checkout, Decide, View, Publish, Hand, CrateView,
       CratePublish, Stop, Rerun
<1>2. ASSUME npm[v] # 0
      PROVE  npm'[v] = npm[v]
  <2>1. ASSUME NEW r \in Runs, Publish(r)
        PROVE  npm'[v] = npm[v]
    BY <1>2, <2>1 DEF TypeOK, Publish
  <2>2. ASSUME NEW c \in Commits, PublishTs(c)
        PROVE  npm'[v] = npm[v]
    BY <1>2, <2>2 DEF TypeOK, PublishTs
  <2>. QED
    BY <1>2, <2>1, <2>2 DEF Next, vars, registries, Maintain, Step, Merge, PublishGo, PublishTs,
       DispatchCrates, repo, Dispatch, PushTag, Checkout, Decide, View, Tag, Hand, CrateView,
       CratePublish, Stop, Rerun
<1>3. ASSUME crate[v] # 0
      PROVE  crate'[v] = crate[v]
  <2>1. ASSUME NEW r \in Runs, CratePublish(r)
        PROVE  crate'[v] = crate[v]
    BY <1>3, <2>1 DEF TypeOK, CratePublish
  <2>2. ASSUME NEW l \in Lines, NEW w \in Versions, DispatchCrates(l, w)
        PROVE  crate'[v] = crate[v]
    BY <1>3, <2>2 DEF TypeOK, DispatchCrates
  <2>. QED
    BY <1>3, <2>1, <2>2 DEF Next, vars, registries, Maintain, Step, Merge, PublishGo, PublishTs,
       DispatchCrates, repo, Dispatch, PushTag, Checkout, Decide, View, Publish, Tag, Hand,
       CrateView, Stop, Rerun
<1>. QED
  BY <1>1, <1>2, <1>3

(* A run keeps its commit, and so its version, from its dispatch on. *)
LEMMA VersionStays ==
  ASSUME TypeOK, [Next]_vars, NEW r \in Runs, pc[r] # "idle"
  PROVE  V(r)' = V(r) /\ commit'[r] = commit[r] /\ asked'[r] = asked[r]
<1>1. commit'[r] = commit[r] /\ asked'[r] = asked[r]
  BY RunsAreLeftAlone DEF TypeOK, inputs, Step, Dispatch, PushTag, Checkout, Decide, View,
     Publish, Tag, Hand, CrateView, CratePublish, Stop, Rerun, Goto
<1>. QED
  BY <1>1, HistoryGrows, VersionOfARun DEF V

(* The anchor is a commit, or 0. *)
LEMMA AnchorTyped ==
  ASSUME TypeOK, NEW r \in Runs
  PROVE  Anchor(r) \in Commits \cup {0}
BY DEF TypeOK, Anchor, Present, Lines

(* The types hold after every step. *)
LEMMA TypedStep ==
  ASSUME TypeOK, [Next]_vars
  PROVE  TypeOK'
<1>. USE DEF PCs, Goto, Lines
<1>1. Commits \subseteq Commits' /\ history' \in Seq(Versions)
  BY HistoryGrows
<1>2. tip \in Commits
  BY DEF TypeOK
<1>3. CASE UNCHANGED vars
  BY <1>3 DEF TypeOK, Commits, vars, repo, inputs, local, registries
<1>4. ASSUME NEW r \in Runs, Dispatch(r)
      PROVE  TypeOK'
  <2>1. /\ UNCHANGED repo /\ npm' = npm /\ tags' = tags /\ crate' = crate
        /\ seen' = seen /\ missing' = missing /\ anchor' = anchor
    BY <1>4 DEF Dispatch, registries, local
  <2>2. commit' \in [Runs -> Commits] /\ asked' \in [Runs -> SUBSET Lines] /\ pc' \in [Runs -> PCs]
    BY <1>2, <1>4 DEF TypeOK, Dispatch
  <2>. QED
    BY <2>1, <2>2 DEF TypeOK, Commits, repo
<1>5. ASSUME NEW r \in Runs, PushTag(r)
      PROVE  TypeOK'
  <2>1. /\ UNCHANGED repo /\ npm' = npm /\ crate' = crate
        /\ seen' = seen /\ missing' = missing /\ anchor' = anchor
    BY <1>5 DEF PushTag, local
  <2>2. asked' \in [Runs -> SUBSET Lines] /\ pc' \in [Runs -> PCs]
    BY <1>5 DEF TypeOK, PushTag
  <2>3. PICK c \in Commits : /\ tags' = [tags EXCEPT !["ts"][history[c]] = c]
                             /\ commit' = [commit EXCEPT ![r] = c]
    BY <1>5 DEF PushTag
  <2>4. commit' \in [Runs -> Commits]
    BY <2>3 DEF TypeOK
  <2>5. tags' \in [Lines -> [Versions -> Commits \cup {0}]]
    BY <2>3 DEF TypeOK
  <2>. QED
    BY <2>1, <2>2, <2>4, <2>5 DEF TypeOK, Commits, repo
<1>6. ASSUME NEW r \in Runs, Checkout(r)
      PROVE  TypeOK'
  <2>1. /\ UNCHANGED repo /\ npm' = npm /\ tags' = tags /\ crate' = crate
        /\ commit' = commit /\ asked' = asked /\ missing' = missing /\ anchor' = anchor
    BY <1>6 DEF Checkout, registries, inputs
  <2>2. seen' \in [Runs -> [Lines -> Commits \cup {0}]] /\ pc' \in [Runs -> PCs]
    BY <1>6, VersionOfARun DEF TypeOK, Checkout
  <2>. QED
    BY <2>1, <2>2 DEF TypeOK, Commits, repo
<1>7. ASSUME NEW r \in Runs, Decide(r)
      PROVE  TypeOK'
  <2>1. /\ UNCHANGED repo /\ npm' = npm /\ tags' = tags /\ crate' = crate
        /\ commit' = commit /\ asked' = asked /\ seen' = seen
    BY <1>7 DEF Decide, registries, inputs
  <2>2. /\ missing' \in [Runs -> SUBSET Lines] /\ pc' \in [Runs -> PCs]
        /\ anchor' \in [Runs -> Commits \cup {0}]
    BY <1>7, AnchorTyped DEF TypeOK, Decide
  <2>. QED
    BY <2>1, <2>2 DEF TypeOK, Commits, repo
<1>8. ASSUME NEW r \in Runs, View(r) \/ Hand(r) \/ CrateView(r) \/ Stop(r) \/ Rerun(r)
      PROVE  TypeOK'
  <2>1. /\ UNCHANGED repo /\ npm' = npm /\ tags' = tags /\ crate' = crate
        /\ commit' = commit /\ asked' = asked /\ seen' = seen
        /\ missing' = missing /\ anchor' = anchor
    BY <1>8 DEF View, Hand, CrateView, Stop, Rerun, registries, inputs, local
  <2>2. pc' \in [Runs -> PCs]
    BY <1>8 DEF TypeOK, View, Hand, CrateView, Stop, Rerun
  <2>. QED
    BY <2>1, <2>2 DEF TypeOK, Commits, repo
<1>9. ASSUME NEW r \in Runs, Publish(r)
      PROVE  TypeOK'
  <2>1. /\ UNCHANGED repo /\ tags' = tags /\ crate' = crate
        /\ commit' = commit /\ asked' = asked /\ seen' = seen
        /\ missing' = missing /\ anchor' = anchor
    BY <1>9 DEF Publish, inputs, local
  <2>2. npm' \in [Versions -> Commits \cup {0}] /\ pc' \in [Runs -> PCs]
    BY <1>9 DEF TypeOK, Publish
  <2>. QED
    BY <2>1, <2>2 DEF TypeOK, Commits, repo
<1>10. ASSUME NEW r \in Runs, Tag(r)
       PROVE  TypeOK'
  <2>1. /\ UNCHANGED repo /\ npm' = npm /\ crate' = crate
        /\ commit' = commit /\ asked' = asked /\ seen' = seen
        /\ missing' = missing /\ anchor' = anchor
    BY <1>10 DEF Tag, inputs, local
  <2>2. pc' \in [Runs -> PCs]
    BY <1>10 DEF TypeOK, Tag
  <2>3. tags' \in [Lines -> [Versions -> Commits \cup {0}]]
    BY <1>10 DEF TypeOK, Tag
  <2>. QED
    BY <2>1, <2>2, <2>3 DEF TypeOK, Commits, repo
<1>11. ASSUME NEW r \in Runs, CratePublish(r)
       PROVE  TypeOK'
  <2>1. /\ UNCHANGED repo /\ npm' = npm /\ tags' = tags
        /\ commit' = commit /\ asked' = asked /\ seen' = seen
        /\ missing' = missing /\ anchor' = anchor
    BY <1>11 DEF CratePublish, inputs, local
  <2>2. crate' \in [Versions -> Commits \cup {0}] /\ pc' \in [Runs -> PCs]
    BY <1>11, VersionOfARun DEF TypeOK, CratePublish
  <2>. QED
    BY <2>1, <2>2 DEF TypeOK, Commits, repo
<1>12. CASE Merge
  <2>1. tip' \in Commits'
    <3>1. PICK v \in Versions : history' = Append(history, v)
      BY <1>12 DEF Merge
    <3>. QED
      BY <1>12, <3>1, AppendProperties, LenProperties DEF TypeOK, Merge, Commits
  <2>2. UNCHANGED <<stray, byHand, registries, pc, inputs, local>>
    BY <1>12 DEF Merge
  <2>. QED
    BY <1>1, <2>1, <2>2 DEF TypeOK, inputs, local, registries
<1>13. ASSUME NEW v \in Versions, PublishGo(v)
       PROVE  TypeOK'
  <2>1. Len(history) + 1 \in Commits'
    <3>1. PICK base \in Commits : history' = Append(history, history[base])
      BY <1>13 DEF PublishGo
    <3>. QED
      BY <3>1, VersionOfACommit, AppendProperties, LenProperties DEF TypeOK, Commits
  <2>2. tip' \in Commits' /\ stray' \subseteq Commits'
    BY <1>1, <1>13, <2>1 DEF TypeOK, PublishGo
  <2>3. byHand' \subseteq Versions
    BY <1>13 DEF TypeOK, PublishGo
  <2>4. tags' \in [Lines -> [Versions -> Commits' \cup {0}]]
    BY <1>1, <1>13, <2>1 DEF TypeOK, PublishGo
  <2>5. UNCHANGED <<npm, crate, pc, inputs, local>>
    BY <1>13 DEF PublishGo
  <2>. QED
    BY <1>1, <2>2, <2>3, <2>4, <2>5 DEF TypeOK, inputs, local
<1>14. ASSUME NEW c \in Commits, PublishTs(c)
       PROVE  TypeOK'
  <2>1. npm' \in [Versions -> Commits \cup {0}]
    BY <1>14 DEF TypeOK, PublishTs
  <2>2. UNCHANGED <<repo, tags, crate, pc, inputs, local>>
    BY <1>14 DEF PublishTs
  <2>. QED
    BY <2>1, <2>2 DEF TypeOK, Commits, repo, inputs, local
<1>15. ASSUME NEW l \in Lines, NEW v \in Versions, DispatchCrates(l, v)
       PROVE  TypeOK'
  <2>1. crate' \in [Versions -> Commits \cup {0}]
    BY <1>15 DEF TypeOK, DispatchCrates
  <2>2. UNCHANGED <<repo, npm, tags, pc, inputs, local>>
    BY <1>15 DEF DispatchCrates
  <2>. QED
    BY <2>1, <2>2 DEF TypeOK, Commits, repo, inputs, local
<1>. HIDE DEF PCs, Goto
<1>. QED
  BY <1>3, <1>4, <1>5, <1>6, <1>7, <1>8, <1>9, <1>10, <1>11, <1>12, <1>13, <1>14, <1>15
     DEF Next, Maintain, Step

-------------------------------------------------------------------------------

(* What a run saw of the tags still stands after every step. *)
LEMMA SeenStep ==
  ASSUME IInv, [Next]_vars
  PROVE  SeenInv'
<1>1. SUFFICES ASSUME NEW r \in Runs, NEW l \in Lines
               PROVE  /\ pc'[r] = "idle" => seen'[r][l] = 0
                      /\ seen'[r][l] # 0 => seen'[r][l] = tags'[l][V(r)']
  BY DEF SeenInv, V
<1>2. TypeOK
  BY DEF IInv
<1>3. CASE Checkout(r)
  <2>1. seen'[r] = [k \in Lines |-> tags[k][V(r)]] /\ pc'[r] # "idle"
    BY <1>2, <1>3 DEF TypeOK, Checkout, Goto
  <2>2. tags' = tags /\ V(r)' = V(r)
    BY <1>3 DEF Checkout, repo, registries, inputs, V
  <2>. QED
    BY <2>1, <2>2
<1>4. CASE ~ Checkout(r)
  <2>1. seen'[r] = seen[r] /\ (pc'[r] = "idle" => pc[r] = "idle")
    BY <1>2, <1>4, RunsAreLeftAlone DEF Step, Dispatch, PushTag, Checkout, Decide,
       View, Publish, Tag, Hand, CrateView, CratePublish, Stop, Rerun, TypeOK, local,
       Goto
  <2>2. CASE seen[r][l] = 0
    BY <2>1, <2>2
  <2>3. CASE seen[r][l] # 0
    <3>1. pc[r] # "idle" /\ seen[r][l] = tags[l][V(r)]
      BY <2>3 DEF IInv, SeenInv
    <3>2. V(r)' = V(r) /\ tags'[l][V(r)] = tags[l][V(r)]
      BY <1>2, <2>3, <3>1, VersionStays, VersionOfARun, RegistriesStay
    <3>. QED
      BY <2>1, <3>1, <3>2
  <2>. QED
    BY <2>2, <2>3
<1>. QED
  BY <1>3, <1>4

(* A run that is to write the Go tag is to write ts/v as well, and one that *)
(* tags was asked to.                                                       *)
LEMMA AskedStep ==
  ASSUME IInv, [Next]_vars
  PROVE  AskedInv'
<1>1. SUFFICES ASSUME NEW r \in Runs
               PROVE  /\ "go" \in asked'[r] => "ts" \in asked'[r]
                      /\ pc'[r] \in {"decide", "tag"} => asked'[r] # {}
  BY DEF AskedInv
<1>2. TypeOK
  BY DEF IInv
<1>3. CASE Dispatch(r) \/ PushTag(r)
  BY <1>2, <1>3 DEF TypeOK, Dispatch, PushTag, Goto
<1>4. CASE ~ Dispatch(r) /\ ~ PushTag(r)
  <2>1. asked'[r] = asked[r]
    <3>1. ASSUME NEW q \in Runs \ {r}, Step(q)
          PROVE  asked'[r] = asked[r]
      BY <1>2, <3>1 DEF Step, Dispatch, PushTag, Checkout, Decide, View, Publish, Tag, Hand,
         CrateView, CratePublish, Stop, Rerun, TypeOK, inputs
    <3>2. ASSUME Step(r)
          PROVE  asked'[r] = asked[r]
      BY <1>4, <3>2 DEF Step, Checkout, Decide, View, Publish, Tag, Hand, CrateView,
         CratePublish, Stop, Rerun, inputs
    <3>. QED
      BY <3>1, <3>2, RunsAreLeftAlone
  <2>2. pc'[r] \in {"decide", "tag"} => pc[r] \in {"decide", "tag"} \/ asked[r] # {}
    BY <1>2, <1>4, RunsAreLeftAlone DEF Step, Dispatch, PushTag, Checkout, Decide,
       View, Publish, Tag, Hand, CrateView, CratePublish, Stop, Rerun, TypeOK, Goto
  <2>. QED
    BY <2>1, <2>2 DEF IInv, AskedInv
<1>. QED
  BY <1>3, <1>4

(* A run's decision follows from what it saw until it has tagged. *)
LEMMA DecidedStep ==
  ASSUME IInv, [Next]_vars
  PROVE  DecidedInv'
<1>1. SUFFICES ASSUME NEW r \in Runs, pc'[r] \in Deciding, asked'[r] # {}
               PROVE  missing'[r] = asked'[r] \ Present(r)' /\ anchor'[r] = Anchor(r)'
  BY DEF DecidedInv
<1>2. TypeOK
  BY DEF IInv
<1>3. CASE Decide(r)
  <2>1. Present(r)' = Present(r) /\ Anchor(r)' = Anchor(r) /\ asked' = asked
    BY <1>3 DEF Decide, inputs, Present, Anchor
  <2>2. missing'[r] = asked[r] \ Present(r) /\ anchor'[r] = Anchor(r)
    BY <1>2, <1>3 DEF TypeOK, Decide
  <2>. QED
    BY <2>1, <2>2
<1>4. CASE ~ Decide(r)
  <2>1. ~ Checkout(r)
    BY <1>1, <1>2 DEF TypeOK, Checkout, Goto, Deciding, inputs
  <2>2. pc[r] \in Deciding
    BY <1>1, <1>2, <1>4, <2>1, RunsAreLeftAlone DEF Step, Dispatch, PushTag, Checkout, Decide,
       View, Publish, Tag, Hand, CrateView, CratePublish, Stop, Rerun, TypeOK, Goto, Deciding
  <2>3. seen'[r] = seen[r] /\ missing'[r] = missing[r] /\ anchor'[r] = anchor[r]
    BY <1>2, <1>4, <2>1, RunsAreLeftAlone DEF Step, Dispatch, PushTag, Checkout,
       Decide, View, Publish, Tag, Hand, CrateView, CratePublish, Stop, Rerun, TypeOK,
       local
  <2>4. commit'[r] = commit[r] /\ asked'[r] = asked[r]
    BY <1>2, <2>2, VersionStays DEF Deciding
  <2>5. Present(r)' = Present(r) /\ Anchor(r)' = Anchor(r)
    BY <2>3, <2>4 DEF Present, Anchor
  <2>. QED
    BY <1>1, <2>2, <2>3, <2>4, <2>5 DEF IInv, DecidedInv
<1>. QED
  BY <1>3, <1>4

(* A run tags only what npm has. *)
LEMMA TagStep ==
  ASSUME IInv, [Next]_vars
  PROVE  TagInv'
<1>1. SUFFICES ASSUME NEW r \in Runs, pc'[r] = "tag"
               PROVE  npm'[V(r)'] # 0
  BY DEF TagInv, V
<1>2. TypeOK /\ V(r) \in Versions
  BY VersionOfARun DEF IInv
<1>3. CASE Publish(r)
  <2>1. npm'[V(r)] = commit[r] /\ V(r)' = V(r)
    BY <1>2, <1>3 DEF TypeOK, Publish, repo, inputs, V
  <2>. QED
    BY <1>2, <2>1, VersionOfARun, HistoryGrows
<1>4. CASE ~ Publish(r)
  <2>1. pc[r] = "tag" \/ (pc[r] = "view" /\ npm[V(r)] # 0)
    BY <1>1, <1>2, <1>4, RunsAreLeftAlone DEF TypeOK, Goto, Step, Dispatch, PushTag, Checkout,
       Decide, View, Publish, Tag, Hand, CrateView, CratePublish, Stop, Rerun
  <2>2. pc[r] # "idle" /\ npm[V(r)] # 0
    BY <2>1 DEF IInv, TagInv
  <2>. QED
    BY <1>2, <2>2, VersionStays, RegistriesStay
<1>. QED
  BY <1>3, <1>4

(* The crates job runs at a version whose Go tag is on the remote. *)
LEMMA HandStep ==
  ASSUME IInv, [Next]_vars
  PROVE  HandInv'
<1>1. SUFFICES ASSUME NEW r \in Runs,
                      pc'[r] \in {"crate-view", "crate-publish", "crate-failed"}
               PROVE  tags'["go"][V(r)'] # 0
  BY DEF HandInv, V
<1>2. TypeOK /\ V(r) \in Versions
  BY VersionOfARun DEF IInv
<1>3. \/ pc[r] \in {"crate-view", "crate-publish", "crate-failed"}
      \/ pc[r] = "hand" /\ tags["go"][V(r)] # 0
  BY <1>1, <1>2, RunsAreLeftAlone DEF TypeOK, Goto, Step, Dispatch, PushTag, Checkout,
     Decide, View, Publish, Tag, Hand, CrateView, CratePublish, Stop, Rerun
<1>4. pc[r] # "idle" /\ tags["go"][V(r)] # 0
  BY <1>3 DEF IInv, HandInv
<1>. QED
  BY <1>2, <1>4, VersionStays, RegistriesStay DEF Lines

(* The tag a run is about to build the crate from names its version. *)
LEMMA AcceptedStep ==
  ASSUME IInv, [Next]_vars
  PROVE  AcceptedInv'
<1>1. SUFFICES ASSUME NEW r \in Runs, pc'[r] = "crate-publish"
               PROVE  history'[tags'["go"][V(r)']] = V(r)'
  BY DEF AcceptedInv, V
<1>2. TypeOK /\ V(r) \in Versions
  BY VersionOfARun DEF IInv
<1>3. \/ pc[r] = "crate-publish"
      \/ pc[r] = "crate-view" /\ history[tags["go"][V(r)]] = V(r)
  BY <1>1, <1>2, RunsAreLeftAlone DEF TypeOK, Goto, Step, Dispatch, PushTag, Checkout,
     Decide, View, Publish, Tag, Hand, CrateView, CratePublish, Stop, Rerun
<1>4. /\ pc[r] \in {"crate-view", "crate-publish"}
      /\ history[tags["go"][V(r)]] = V(r)
  BY <1>3 DEF IInv, AcceptedInv
<1>5. tags["go"][V(r)] \in Commits
  BY <1>2, <1>4 DEF TypeOK, IInv, HandInv, Lines
<1>6. tags'["go"][V(r)] = tags["go"][V(r)]
  BY <1>2, <1>5, RegistriesStay, HistoryGrows DEF Lines
<1>. QED
  BY <1>2, <1>4, <1>5, <1>6, VersionStays, HistoryGrows

(* What a run tags: ts/v comes to name its anchor, a commit of its version, *)
(* and go/v names that commit or none.                                      *)
LEMMA AfterTag ==
  ASSUME IInv, NEW r \in Runs, Tag(r), V(r) \notin byHand
  PROVE  /\ anchor[r] \in Commits /\ history[anchor[r]] = V(r)
         /\ tags'["ts"][V(r)] = anchor[r]
         /\ tags'["go"][V(r)] \in {0, anchor[r]}
<1>. DEFINE v == V(r)
<1>1. TypeOK /\ v \in Versions \ byHand /\ commit[r] \in Commits
  BY VersionOfARun DEF IInv
<1>2. /\ "ts" \in asked[r]
      /\ missing[r] = asked[r] \ Present(r) /\ anchor[r] = Anchor(r)
  <2>1. pc[r] = "tag" /\ asked[r] \in SUBSET Lines
    BY <1>1 DEF Tag, Goto, TypeOK
  <2>2. asked[r] # {}
    BY <2>1 DEF IInv, AskedInv
  <2>. QED
    BY <2>1, <2>2 DEF IInv, AskedInv, DecidedInv, Deciding, Lines
<1>3. \A l \in Lines : l \in Present(r) => tags[l][v] # 0 /\ seen[r][l] = tags[l][v]
  BY DEF Present, IInv, SeenInv
<1>4. \A l \in Lines : tags[l] \in [Versions -> Commits \cup {0}]
  BY <1>1 DEF TypeOK
<1>5. anchor[r] \in Commits /\ history[anchor[r]] = v
  <2>1. CASE Present(r) = {}
    <3>1. anchor[r] = commit[r] /\ history[commit[r]] = v
      BY <1>2, <2>1 DEF Anchor, V
    <3>. QED
      BY <1>1, <3>1
  <2>2. CASE Present(r) # {}
    <3>1. PICK l \in Lines : l \in Present(r) /\ anchor[r] = seen[r][l]
      BY <1>1, <1>2, <2>2 DEF Anchor, Present, TypeOK, Lines
    <3>2. tags[l][v] \in Commits /\ anchor[r] = tags[l][v]
      BY <1>1, <1>3, <1>4, <3>1
    <3>3. history[tags[l][v]] = v
      BY <1>1, <1>3, <3>1 DEF IInv, TagsNameTheirVersion
    <3>. QED
      BY <3>2, <3>3
  <2>. QED
    BY <2>1, <2>2
<1>6. \A l \in Lines : tags'[l] = IF l \in missing[r] THEN [tags[l] EXCEPT ![v] = anchor[r]]
                                  ELSE tags[l]
  BY DEF Tag
<1>7. \A l \in missing[r] : tags[l][v] \in {0, anchor[r]}
  BY DEF Tag
<1>8. tags["go"][v] # 0 => tags["ts"][v] = tags["go"][v] /\ tags["ts"][v] # 0
  BY <1>1 DEF IInv, GoHasTs, TagsNameOneCommit
<1>. HIDE DEF v
<1>9. tags'["ts"][v] = anchor[r]
  <2>1. CASE "ts" \in missing[r]
    BY <1>1, <1>4, <1>6, <2>1 DEF Lines
  <2>2. CASE "ts" \notin missing[r]
    <3>1. "ts" \in Present(r) /\ anchor[r] = seen[r]["ts"]
      BY <1>2, <2>2 DEF Anchor
    <3>. QED
      BY <1>3, <1>6, <2>2, <3>1 DEF Lines
  <2>. QED
    BY <2>1, <2>2
<1>10. tags'["go"][v] \in {0, anchor[r]}
  <2>1. CASE "go" \in missing[r]
    BY <1>1, <1>4, <1>6, <2>1 DEF Lines
  <2>2. CASE "go" \notin missing[r]
    <3>1. tags'["go"][v] = tags["go"][v]
      BY <1>6, <2>2 DEF Lines
    <3>2. CASE tags["ts"][v] = anchor[r]
      BY <1>8, <3>1, <3>2
    <3>3. CASE "ts" \in missing[r]
      BY <1>7, <1>8, <3>1, <3>3
    <3>4. CASE "ts" \notin missing[r]
      BY <1>6, <1>9, <3>2, <3>4 DEF Lines
    <3>. QED
      BY <3>3, <3>4
  <2>. QED
    BY <2>1, <2>2
<1>. QED
  BY <1>5, <1>9, <1>10 DEF v

(* How the tags of a version change that make publish-go has not tagged:   *)
(* to one commit of that version, and a Go tag only when npm has it.       *)
LEMMA TagsChange ==
  ASSUME IInv, [Next]_vars, NEW v \in Versions \ byHand',
         \E l \in Lines : tags'[l][v] # tags[l][v]
  PROVE  \E c \in Commits :
           /\ history[c] = v
           /\ tags'["ts"][v] = c /\ tags'["go"][v] \in {0, c}
           /\ tags'["go"][v] # 0 => npm[v] # 0
<1>1. TypeOK /\ v \notin byHand
  BY HistoryGrows DEF IInv
<1>2. \A l \in Lines : tags[l] \in [Versions -> Commits \cup {0}]
  BY <1>1 DEF TypeOK
<1>3. ~ \E w \in Versions : PublishGo(w)
  <2>1. SUFFICES ASSUME NEW w \in Versions, PublishGo(w)
                 PROVE  \A l \in Lines : tags'[l][v] = tags[l][v]
    OBVIOUS
  <2>2. w # v /\ tags' = [tags EXCEPT !["go"][w] = Len(history) + 1]
    BY <2>1 DEF PublishGo
  <2>. QED
    BY <1>1, <1>2, <2>2 DEF TypeOK, Lines
<1>4. PICK r \in Runs : Tag(r) \/ PushTag(r)
  BY <1>3 DEF Next, Maintain, Step, Merge, PublishTs, DispatchCrates, vars, registries, Dispatch,
     Checkout, Decide, View, Publish, Hand, CrateView, CratePublish, Stop, Rerun
<1>5. CASE Tag(r)
  <2>1. V(r) = v
    BY <1>1, <1>2, <1>5 DEF Tag
  <2>2. pc[r] = "tag" /\ npm[v] # 0
    BY <1>5, <2>1 DEF Tag, Goto, IInv, TagInv
  <2>. QED
    BY <1>1, <1>5, <2>1, <2>2, AfterTag
<1>6. CASE PushTag(r)
  <2>1. PICK c \in Commits : /\ tags["ts"][history[c]] = 0
                             /\ tags' = [tags EXCEPT !["ts"][history[c]] = c]
    BY <1>6 DEF PushTag
  <2>2. history[c] = v
    BY <1>1, <1>2, <2>1 DEF TypeOK, Lines
  <2>3. tags["go"][v] = 0
    BY <1>1, <2>1, <2>2 DEF IInv, GoHasTs
  <2>4. tags'["ts"][v] = c /\ tags'["go"][v] = 0
    BY <1>1, <1>2, <2>1, <2>2, <2>3 DEF Lines, TypeOK
  <2>. QED
    BY <2>2, <2>4
<1>. QED
  BY <1>4, <1>5, <1>6

(* What the tags of a version say of each other, of the commits and of npm *)
(* stands after every step.                                                *)
LEMMA TagsStep ==
  ASSUME IInv, [Next]_vars
  PROVE  (GoHasTs /\ TagsNameOneCommit /\ TagsNameTheirVersion /\ GoTagsAreOnNpm)'
<1>. DEFINE Said(v) ==
       /\ tags'["go"][v] # 0 => tags'["ts"][v] # 0
       /\ tags'["ts"][v] # 0 /\ tags'["go"][v] # 0 => tags'["ts"][v] = tags'["go"][v]
       /\ \A l \in Lines : tags'[l][v] # 0 => history'[tags'[l][v]] = v
       /\ tags'["go"][v] # 0 => npm'[v] # 0
<1>1. SUFFICES ASSUME NEW v \in Versions \ byHand'
               PROVE  Said(v)
  BY DEF GoHasTs, TagsNameOneCommit, TagsNameTheirVersion, GoTagsAreOnNpm
<1>2. TypeOK /\ v \notin byHand
  BY HistoryGrows DEF IInv
<1>3. npm[v] # 0 => npm'[v] # 0
  BY <1>2, RegistriesStay
<1>4. CASE \A l \in Lines : tags'[l][v] = tags[l][v]
  <2>1. /\ tags["go"][v] # 0 => tags["ts"][v] # 0
        /\ tags["ts"][v] # 0 /\ tags["go"][v] # 0 => tags["ts"][v] = tags["go"][v]
        /\ \A l \in Lines : tags[l][v] # 0 => history[tags[l][v]] = v
        /\ tags["go"][v] # 0 => npm[v] # 0
    BY <1>2 DEF IInv, GoHasTs, TagsNameOneCommit, TagsNameTheirVersion, GoTagsAreOnNpm
  <2>2. \A l \in Lines : tags[l][v] \in Commits \cup {0}
    BY <1>2 DEF TypeOK
  <2>3. \A l \in Lines : tags[l][v] # 0 => history'[tags[l][v]] = history[tags[l][v]]
    BY <1>2, <2>2, HistoryGrows
  <2>. QED
    BY <1>3, <1>4, <2>1, <2>3 DEF Lines
<1>5. CASE \E l \in Lines : tags'[l][v] # tags[l][v]
  <2>1. PICK c \in Commits : /\ history[c] = v
                             /\ tags'["ts"][v] = c /\ tags'["go"][v] \in {0, c}
                             /\ tags'["go"][v] # 0 => npm[v] # 0
    BY <1>5, TagsChange
  <2>2. c # 0 /\ history'[c] = v
    BY <1>2, <2>1, HistoryGrows
  <2>. QED
    BY <1>3, <2>1, <2>2 DEF Lines
<1>. QED
  BY <1>4, <1>5

(* A crate is built from what a tag of its version names, which no later   *)
(* step moves.                                                             *)
LEMMA CratesStep ==
  ASSUME IInv, [Next]_vars
  PROVE  CratesAreTheTags'
<1>1. SUFFICES ASSUME NEW v \in Versions, crate'[v] # 0
               PROVE  /\ \E l \in Lines : crate'[v] = tags'[l][v]
                      /\ history'[crate'[v]] = v
  BY DEF CratesAreTheTags
<1>2. TypeOK /\ \A l \in Lines : tags[l][v] \in Commits \cup {0}
  BY DEF TypeOK, IInv
<1>3. SUFFICES ASSUME NEW l \in Lines, crate'[v] = tags[l][v], history[crate'[v]] = v
               PROVE  /\ crate'[v] = tags'[l][v]
                      /\ history'[crate'[v]] = v
  <2>1. CASE crate[v] # 0
    BY <1>2, <2>1, RegistriesStay DEF IInv, CratesAreTheTags
  <2>2. CASE crate[v] = 0
    <3>1. ASSUME NEW r \in Runs, CratePublish(r)
          PROVE  crate'[v] = tags["go"][v] /\ history[crate'[v]] = v
      <4>1. V(r) = v /\ crate'[v] = tags["go"][v]
        BY <1>1, <1>2, <2>2, <3>1, VersionOfARun DEF TypeOK, CratePublish
      <4>2. history[tags["go"][V(r)]] = V(r)
        BY <3>1 DEF IInv, AcceptedInv, CratePublish, Goto
      <4>. QED
        BY <4>1, <4>2
    <3>2. ASSUME NEW k \in Lines, NEW w \in Versions, DispatchCrates(k, w)
          PROVE  crate'[v] = tags[k][v] /\ history[crate'[v]] = v
      BY <1>1, <1>2, <2>2, <3>2 DEF TypeOK, DispatchCrates
    <3>3. \/ \E r \in Runs : CratePublish(r)
          \/ \E k \in Lines, w \in Versions : DispatchCrates(k, w)
      BY <1>1, <2>2 DEF Next, Maintain, Step, Merge, PublishGo, PublishTs, vars, registries,
         Dispatch, PushTag, Checkout, Decide, View, Publish, Tag, Hand, CrateView, Stop, Rerun
    <3>. QED
      BY <3>1, <3>2, <3>3 DEF Lines
  <2>. QED
    BY <2>1, <2>2
<1>4. tags[l][v] \in Commits
  BY <1>1, <1>2, <1>3
<1>5. tags[l][v] # 0
  BY <1>1, <1>3
<1>. QED
  BY <1>2, <1>3, <1>4, <1>5, RegistriesStay, HistoryGrows

-------------------------------------------------------------------------------

(* The invariant holds initially. *)
LEMMA InitInv == Init => IInv
<1>1. SUFFICES ASSUME Init
               PROVE  IInv
  OBVIOUS
<1>2. TypeOK
  <2>1. history \in Seq(Versions) /\ Len(history) = 1
    BY <1>1, ReleaseAssumption DEF Init
  <2>. QED
    BY <1>1, <2>1 DEF Init, TypeOK, PCs, Commits, Lines
<1>. QED
  BY <1>1, <1>2 DEF Init, IInv, SeenInv, AskedInv, DecidedInv, Deciding, TagInv, HandInv,
     AcceptedInv, GoHasTs, TagsNameOneCommit, TagsNameTheirVersion, GoTagsAreOnNpm,
     CratesAreTheTags, Lines

(* The invariant holds after every step. *)
LEMMA StepInv == IInv /\ [Next]_vars => IInv'
<1>1. SUFFICES ASSUME IInv, [Next]_vars
               PROVE  IInv'
  OBVIOUS
<1>2. TypeOK'
  BY <1>1, TypedStep DEF IInv
<1>. QED
  BY <1>1, <1>2, SeenStep, AskedStep, DecidedStep, TagStep, HandStep, AcceptedStep,
     TagsStep, CratesStep DEF IInv

(* The invariant holds in every reachable state. *)
LEMMA Invariant == Spec => []IInv
BY InitInv, StepInv, PTL DEF Spec

(* However many runs race, fail and are re-run, whatever the orchestrator  *)
(* and repo-tag tag, ts/v and go/v of a version never name different       *)
(* commits, unless make publish-go has tagged it.                          *)
THEOREM TagsAgree == Spec => []TagsNameOneCommit
BY Invariant, PTL DEF IInv

(* Every tag names a commit whose package.json has the tag's version, but  *)
(* for the versions make publish-go has tagged.                            *)
THEOREM TagsNameVersions == Spec => []TagsNameTheirVersion
BY Invariant, PTL DEF IInv

(* No run writes the Go tag of a version that npm does not have, through   *)
(* races, failures, re-runs and tags pushed by hand: the Go tags of every  *)
(* version but those make publish-go, which asks npm nothing, has tagged.  *)
THEOREM GoTagsFollowNpm == Spec => []GoTagsAreOnNpm
BY Invariant, PTL DEF IInv

(* A crate is the commit of a tag of its version, and that commit names    *)
(* the version, whatever main or the calling run was at and whatever make  *)
(* publish-go has tagged.                                                  *)
THEOREM CratesFollowTheTags == Spec => []CratesAreTheTags
BY Invariant, PTL DEF IInv
===============================================================================
