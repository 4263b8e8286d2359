---------------------------- MODULE ClibRelease ----------------------------
(* The GitHub Release of a go/v tag and its C artifacts, as                  *)
(* clib-release.yml makes it: a missing Release is created as a draft, the   *)
(* shared build (external) attaches to it, and it is published.  A run is    *)
(* started by release.yml, by a dispatch, or by a Release published by hand; *)
(* nothing keeps two runs off one tag.                                       *)
EXTENDS Naturals

CONSTANTS Runs,
          NumVersions

Versions == 1 .. NumVersions

ASSUME NumVersionsAssumption == NumVersions \in Nat \ {0}

VARIABLES tags,      \* the versions whose go/v tag is on the remote
          release,   \* version -> "none", "draft" or "public"
          assets,    \* version -> the names attached to its Release
          latest,    \* the version marked Latest, 0 for none
          byHand,    \* the versions whose Release a maintainer published
          pc,        \* run -> the step it executes next
          tag,       \* run -> the version it is for, 0 before it starts
          listed,    \* run -> publish: the unsuffixed names still to remove
          highest,   \* run -> publish: HIGHEST, 0 when git answered nothing
          heard,     \* run -> all its queries so far were answered (history)
          behind     \* run -> a higher tag was there when it started (history)

github == <<tags, release, assets, latest, byHand>>
vars == <<tags, release, assets, latest, byHand, pc, tag, listed, highest, heard, behind>>

\* What publish removes: libtabnasjson5.so, .dylib and headers.
Strays == {"so", "h"}

\* What the build attaches, the libraries the manifest names apart.
Built == {"manifest"} \cup Strays

Go(r, step) == pc' = [pc EXCEPT ![r] = step]

Hear(r, answered) == heard' = [heard EXCEPT ![r] = @ /\ answered]

-----------------------------------------------------------------------------
(* The tag and the ways a run starts.                                        *)

PushTag(v) ==
    /\ v \notin tags
    /\ tags' = tags \cup {v}
    /\ UNCHANGED <<release, assets, latest, byHand, pc, tag, listed, highest, heard, behind>>

Start(r, v) ==
    /\ pc[r] \in {"idle", "failed", "stopped"}
    /\ tag[r] \in {0, v}
    /\ tag' = [tag EXCEPT ![r] = v]
    /\ behind' = [behind EXCEPT ![r] = \E w \in tags : w > v]
    /\ heard' = [heard EXCEPT ![r] = TRUE]
    /\ Go(r, "ensure")
    /\ UNCHANGED <<listed, highest>>

\* workflow_call and workflow_dispatch
Dispatch(r, v) == Start(r, v) /\ UNCHANGED github

\* release: published, by a maintainer; what edit publishes starts no run.
PublishByHand(r, v) ==
    /\ v \in tags /\ release[v] # "public"
    /\ release' = [release EXCEPT ![v] = "public"]
    /\ byHand' = byHand \cup {v}
    /\ latest' \in {latest, v}
    /\ Start(r, v)
    /\ UNCHANGED <<tags, assets>>

-----------------------------------------------------------------------------
(* release: Ensure a GitHub Release exists for the tag.                      *)

\* A mistake in View: the Release is always created.
ViewNothing(r) ==
    /\ pc[r] = "ensure"
    /\ Go(r, "create")
    /\ UNCHANGED <<github, tag, listed, highest, heard, behind>>

\* if gh release view: a query that fails reads as a missing Release.
View(r) ==
    /\ pc[r] = "ensure"
    /\ \E answered \in BOOLEAN :
         /\ Go(r, IF answered /\ release[tag[r]] # "none" THEN "artifacts" ELSE "create")
         /\ Hear(r, answered)
    /\ UNCHANGED <<github, tag, listed, highest, behind>>

\* gh release create --verify-tag --draft
Create(r) ==
    /\ pc[r] = "create"
    /\ IF tag[r] \in tags /\ release[tag[r]] = "none"
         THEN /\ release' = [release EXCEPT ![tag[r]] = "draft"]
              /\ Go(r, "artifacts")
         ELSE /\ Go(r, "failed")
              /\ UNCHANGED release
    /\ UNCHANGED <<tags, assets, latest, byHand, tag, listed, highest, heard, behind>>

(* artifacts: the shared workflow (external), in an order of its own.  It    *)
(* ends when List begins; that it has attached a manifest by then is not     *)
(* taken for granted.                                                        *)

Attach(r, a) ==
    /\ pc[r] = "artifacts"
    /\ a \notin assets[tag[r]]
    /\ assets' = [assets EXCEPT ![tag[r]] = @ \cup {a}]
    /\ UNCHANGED <<tags, release, latest, byHand, pc, tag, listed, highest, heard, behind>>

-----------------------------------------------------------------------------
(* publish: Publish the Release now that its artifacts are attached.         *)

\* A mistake in List: the libraries are found, the headers are not.
ListLibraries(r) ==
    /\ pc[r] = "artifacts"
    /\ \E answered \in BOOLEAN :
         /\ listed' = [listed EXCEPT ![r] = IF answered THEN assets[tag[r]] \cap {"so"} ELSE {}]
         /\ Hear(r, answered)
    /\ Go(r, "strip")
    /\ UNCHANGED <<github, tag, highest, behind>>

\* for A in $(gh release view ...): when the query fails there is no A.
List(r) ==
    /\ pc[r] = "artifacts"
    /\ \E answered \in BOOLEAN :
         /\ listed' = [listed EXCEPT ![r] = IF answered THEN assets[tag[r]] \cap Strays ELSE {}]
         /\ Hear(r, answered)
    /\ Go(r, "strip")
    /\ UNCHANGED <<github, tag, highest, behind>>

\* gh release delete-asset, which fails when another run was there before.
Delete(r, a) ==
    /\ pc[r] = "strip" /\ a \in listed[r]
    /\ IF a \in assets[tag[r]]
         THEN /\ assets' = [assets EXCEPT ![tag[r]] = @ \ {a}]
              /\ listed' = [listed EXCEPT ![r] = @ \ {a}]
              /\ UNCHANGED pc
         ELSE /\ listed' = [listed EXCEPT ![r] = {}]
              /\ Go(r, "failed")
              /\ UNCHANGED assets
    /\ UNCHANGED <<tags, release, latest, byHand, tag, highest, heard, behind>>

\* A mistake in CheckManifest: a query that fails stops nothing.
CheckManifestOpen(r) ==
    /\ pc[r] = "strip" /\ listed[r] = {}
    /\ \E answered \in BOOLEAN :
         /\ Go(r, IF answered => "manifest" \in assets[tag[r]] THEN "state" ELSE "failed")
         /\ Hear(r, answered)
    /\ UNCHANGED <<github, tag, listed, highest, behind>>

\* HAS="$(gh release view ...)": a query that fails ends the step.
CheckManifest(r) ==
    /\ pc[r] = "strip" /\ listed[r] = {}
    /\ \E answered \in BOOLEAN :
         /\ Go(r, IF answered /\ "manifest" \in assets[tag[r]] THEN "state" ELSE "failed")
         /\ Hear(r, answered)
    /\ UNCHANGED <<github, tag, listed, highest, behind>>

\* if [ "$(gh release view ... isDraft)" = true ]: when the query fails the
\* test is false, and the step ends well.
State(r) ==
    /\ pc[r] = "state"
    /\ \E answered \in BOOLEAN :
         /\ Go(r, IF answered /\ release[tag[r]] = "draft" THEN "highest" ELSE "succeeded")
         /\ Hear(r, answered)
    /\ UNCHANGED <<github, tag, listed, highest, behind>>

\* A mistake in Highest: the highest of what has been published.
HighestPublished(r) ==
    /\ pc[r] = "highest"
    /\ \E h \in {0, tag[r]} \cup {v \in tags : release[v] = "public"} :
         /\ h # 0 => \A w \in tags : release[w] = "public" => w <= h
         /\ highest' = [highest EXCEPT ![r] = h]
    /\ Go(r, "publish")
    /\ UNCHANGED <<github, tag, listed, heard, behind>>

\* HIGHEST: the last of the tags sorted; sort and tail answer nothing when
\* the query fails.
Highest(r) ==
    /\ pc[r] = "highest"
    /\ \E h \in {0} \cup tags :
         /\ h # 0 => \A w \in tags : w <= h
         /\ highest' = [highest EXCEPT ![r] = h]
    /\ Go(r, "publish")
    /\ UNCHANGED <<github, tag, listed, heard, behind>>

\* gh release edit --draft=false --latest=...
Publish(r) ==
    /\ pc[r] = "publish"
    /\ release' = [release EXCEPT ![tag[r]] = "public"]
    /\ latest' = IF highest[r] = tag[r] THEN tag[r] ELSE latest
    /\ highest' = [highest EXCEPT ![r] = 0]
    /\ Go(r, "succeeded")
    /\ UNCHANGED <<tags, assets, byHand, tag, listed, heard, behind>>

-----------------------------------------------------------------------------

Init ==
    /\ tags = {}
    /\ release = [v \in Versions |-> "none"]
    /\ assets = [v \in Versions |-> {}]
    /\ latest = 0 /\ byHand = {}
    /\ pc = [r \in Runs |-> "idle"]
    /\ tag = [r \in Runs |-> 0]
    /\ listed = [r \in Runs |-> {}]
    /\ highest = [r \in Runs |-> 0]
    /\ heard = [r \in Runs |-> TRUE]
    /\ behind = [r \in Runs |-> FALSE]

\* Any step may fail of itself, and ends its job and the shell that runs it.
Stop(r) ==
    /\ pc[r] \notin {"idle", "failed", "stopped", "succeeded"}
    /\ Go(r, "stopped")
    /\ listed' = [listed EXCEPT ![r] = {}]
    /\ highest' = [highest EXCEPT ![r] = 0]
    /\ UNCHANGED <<github, tag, heard, behind>>

Step(r) ==
    \/ View(r) \/ Create(r)
    \/ \E a \in Built : Attach(r, a)
    \/ List(r)
    \/ \E a \in Strays : Delete(r, a)
    \/ CheckManifest(r) \/ State(r) \/ Highest(r) \/ Publish(r)

Next ==
    \/ \E v \in Versions : PushTag(v)
    \/ \E r \in Runs, v \in Versions : Dispatch(r, v) \/ PublishByHand(r, v)
    \/ \E r \in Runs : Step(r) \/ Stop(r)

Spec == Init /\ [][Next]_vars

\* A failed run is dispatched again until its Release is out.
Redispatch(r) == pc[r] \in {"failed", "stopped"} /\ Dispatch(r, tag[r])

FairSpec ==
    /\ Spec
    /\ \A r \in Runs :
         /\ WF_vars(Step(r)) /\ WF_vars(Redispatch(r))
         /\ SF_vars(Attach(r, "manifest"))

-----------------------------------------------------------------------------
(* Properties                                                                *)

Steps == {"idle", "ensure", "create", "artifacts", "strip", "state",
          "highest", "publish", "succeeded", "failed", "stopped"}

\* Type correctness; a Release, whatever its state, is of a tag on the remote,
\* and nothing is attached to a Release that is not there.
TypeOK ==
    /\ tags \subseteq Versions
    /\ release \in [Versions -> {"none", "draft", "public"}]
    /\ assets \in [Versions -> SUBSET Built]
    /\ latest \in {0} \cup Versions
    /\ byHand \subseteq Versions
    /\ pc \in [Runs -> Steps]
    /\ tag \in [Runs -> {0} \cup Versions]
    /\ \A r \in Runs : tag[r] = 0 => pc[r] = "idle"
    /\ listed \in [Runs -> SUBSET Strays]
    /\ highest \in [Runs -> {0} \cup Versions]
    /\ heard \in [Runs -> BOOLEAN]
    /\ behind \in [Runs -> BOOLEAN]
    /\ \A v \in Versions :
         /\ release[v] # "none" => v \in tags
         /\ release[v] = "none" => assets[v] = {}

\* Loaders read manifest.json from a public Release: one that a run has made
\* public carries it, whatever other runs did to the draft in the meantime.
PublishedHasManifest ==
    \A v \in Versions : release[v] = "public" /\ v \notin byHand => "manifest" \in assets[v]

\* A backfill or a late repair never takes Latest: a run that was started
\* when a higher tag was there leaves the mark where it is.
BackfillIsNeverLatest ==
    [][\A r \in Runs : behind[r] /\ pc[r] = "publish" /\ pc'[r] = "succeeded"
                         => latest' = latest]_vars

\* When every run at a tag has succeeded, and heard its list, no unlabelled
\* second copy is left on the Release, however the runs crossed and however
\* often they failed before.
NoStraysLeft ==
    \A v \in Versions :
        (\A r \in Runs : tag[r] = v => pc[r] = "succeeded" /\ heard[r])
            => assets[v] \cap Strays = {}

\* "A failed build leaves the draft for a re-dispatch to finish": once steps
\* stop failing of themselves every draft is published, unless a query goes
\* unanswered or two runs cross at the tag, each removing what the other has
\* still to remove.
DraftsAreFinished ==
    (<>[][\A r \in Runs : ~ Stop(r)]_vars) =>
        \A v \in Versions :
            release[v] = "draft" ~>
                \/ release[v] = "public"
                \/ \E r \in Runs : ~ heard[r]
                \/ \E q, r \in Runs : q # r /\ tag[q] = v /\ tag[r] = v
=============================================================================
