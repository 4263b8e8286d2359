-------------------------------- MODULE Release ---------------------------------
(***************************************************************************)
(* .github/workflows/release.yml with the crates job it calls: any number  *)
(* of runs at once, none holding a lock, over registries and tags that     *)
(* accept each version once.  A run reads main as it was when it was       *)
(* dispatched and the tags as they were when it checked out, publishes to  *)
(* npm, writes the tags, and hands the Go tag to the crates job.  It can   *)
(* fail before any step and be re-run from the start at the same commit.   *)
(*                                                                         *)
(* External, modelled from their use: npm and crates.io refuse a version   *)
(* they have; git push --atomic moves every ref or none, and refuses a tag *)
(* that names another commit; main advances by merges; the orchestrator    *)
(* (admin/publish.sh) pushes a ts/v tag itself, which starts a run.  Beside *)
(* the runs stand the tools a maintainer runs by hand: make publish-go,    *)
(* make publish-ts, npm run repo-tag, and a dispatch of the crates job.    *)
(* A commit is its place among all that were made.  The C artifacts are    *)
(* left out.                                                               *)
(***************************************************************************)
EXTENDS Integers, Sequences

CONSTANTS
  Runs,          (* the workflow runs                                       *)
  MaxCommits,    (* bound: the commits that are ever made                   *)
  Versions,      (* the versions a package.json may name: 1, 2, ...         *)
  Orchestrated,  (* whether admin/publish.sh pushes tags as well            *)
  ByHand         (* whether the Makefiles' and npm's release tools are used *)

ASSUME ReleaseAssumption ==
  /\ MaxCommits \in Nat
  /\ Versions \subseteq Nat /\ 1 \in Versions
  /\ Orchestrated \in BOOLEAN /\ ByHand \in BOOLEAN

Lines == {"ts", "go"}

VARIABLES
  history,   (* history[c]: the version commit c's ts/package.json names    *)
  tip,       (* main's last commit                                          *)
  stray,     (* the commits whose push to main was refused                  *)
  byHand,    (* history variable: the versions make publish-go has tagged   *)
  npm,       (* npm[v]: the commit npm's v was built from, 0 for none       *)
  tags,      (* tags[l][v]: the commit l/v names on the remote, 0 for none  *)
  crate,     (* crate[v]: the commit crates.io's v was built from           *)
  pc,
  commit,    (* commit[r]: the commit run r checked out                     *)
  asked,     (* asked[r]: the tags r is to write; none on the push path     *)
  seen,      (* seen[r]: the tags of its version when r checked out         *)
  missing,
  anchor

repo       == <<history, tip, stray, byHand>>
registries == <<npm, tags, crate>>
inputs     == <<commit, asked>>
local      == <<seen, missing, anchor>>
vars       == <<repo, registries, pc, inputs, local>>

Goto(r, from, to) == pc[r] = from /\ pc' = [pc EXCEPT ![r] = to]

Commits == 1..Len(history)

V(r) == history[commit[r]]

-------------------------------------------------------------------------------
(* External: a merge leaves the version or bumps it. *)
Merge ==
  /\ Len(history) < MaxCommits
  /\ \E v \in Versions :
       v \in {history[tip], history[tip] + 1} /\ history' = Append(history, v)
  /\ tip' = Len(history) + 1
  /\ UNCHANGED <<stray, byHand, registries, pc, inputs, local>>

(* make publish-go: a commit that leaves ts/package.json as it was, on the *)
(* maintainer's last commit, and a Go tag of any version at it, pushed     *)
(* together but not atomically.  Where main has moved on it is refused,    *)
(* and the tag is pushed all the same.  (Where the tag is refused, what    *)
(* main got is a Merge.)                                                   *)
PublishGo(v) ==
  /\ ByHand
  /\ tags["go"][v] = 0
  /\ Len(history) < MaxCommits
  /\ \E base \in Commits :
       /\ history' = Append(history, history[base])
       /\ \/ base = tip /\ tip' = Len(history) + 1 /\ UNCHANGED stray
          \/ base # tip /\ stray' = stray \cup {Len(history) + 1} /\ UNCHANGED tip
  /\ tags' = [tags EXCEPT !["go"][v] = Len(history) + 1]
  /\ byHand' = byHand \cup {v}
  /\ UNCHANGED <<npm, crate, pc, inputs, local>>

(* make publish-ts, from whatever commit the maintainer has. *)
PublishTs(c) ==
  /\ ByHand
  /\ npm[history[c]] = 0
  /\ npm' = [npm EXCEPT ![history[c]] = c]
  /\ UNCHANGED <<repo, tags, crate, pc, inputs, local>>

(* workflow_dispatch, with or without the Go tag.  A dispatch from         *)
(* anywhere but main is refused before it touches anything.                *)
Dispatch(r) ==
  /\ Goto(r, "idle", "checkout")
  /\ commit' = [commit EXCEPT ![r] = tip]
  /\ \E go \in BOOLEAN :
       asked' = [asked EXCEPT ![r] = IF go THEN {"ts", "go"} ELSE {"ts"}]
  /\ UNCHANGED <<repo, registries, local>>

(* The orchestrator, external, tags main; npm run repo-tag commits, pushes *)
(* and tags its commit, after which main may have moved on.  The tag       *)
(* starts a run at it.                                                     *)
PushTag(r) ==
  /\ \E c \in Commits :
       /\ (Orchestrated /\ c = tip) \/ (ByHand /\ c \notin stray)
       /\ tags["ts"][history[c]] = 0
       /\ tags' = [tags EXCEPT !["ts"][history[c]] = c]
       /\ commit' = [commit EXCEPT ![r] = c]
  /\ Goto(r, "idle", "checkout")
  /\ asked' = [asked EXCEPT ![r] = {}]
  /\ UNCHANGED <<repo, npm, crate, local>>

(* actions/checkout with fetch-depth 0: the tags as they are now. *)
Checkout(r) ==
  /\ Goto(r, "checkout", IF asked[r] = {} THEN "view" ELSE "decide")
  /\ seen' = [seen EXCEPT ![r] = [l \in Lines |-> tags[l][V(r)]]]
  /\ UNCHANGED <<repo, registries, inputs, missing, anchor>>

-------------------------------------------------------------------------------
(* The tags r asks for that it saw. *)
Present(r) == {l \in asked[r] : seen[r][l] # 0}

AnchorAtHead(r) == commit[r]

AnchorAtMain(r) == tip

(* ANCHOR: the commit of the first tag found, ts/v before go/v; else HEAD. *)
Anchor(r) ==
  IF Present(r) = {} THEN commit[r]
  ELSE seen[r][IF "ts" \in Present(r) THEN "ts" ELSE "go"]

(* Decide which tags this run must create.  Nothing left to create is an   *)
(* error (Stop), and so is an anchor that is not HEAD for a version that   *)
(* is not on npm.                                                          *)
Decide(r) ==
  /\ Goto(r, "decide", "view")
  /\ Present(r) # asked[r]
  /\ Anchor(r) # commit[r] => npm[V(r)] # 0
  /\ missing' = [missing EXCEPT ![r] = asked[r] \ Present(r)]
  /\ anchor' = [anchor EXCEPT ![r] = Anchor(r)]
  /\ UNCHANGED <<repo, registries, inputs, seen>>

ViewTagFirst(r) ==
  /\ Goto(r, "view", IF asked[r] = {} THEN "publish" ELSE "tag")
  /\ UNCHANGED <<repo, registries, inputs, local>>

(* npm view: publish only a version npm does not have. *)
View(r) ==
  /\ Goto(r, "view", IF npm[V(r)] = 0 THEN "publish"
                     ELSE IF asked[r] = {} THEN "hand" ELSE "tag")
  /\ UNCHANGED <<repo, registries, inputs, local>>

(* npm publish, which npm refuses for a version it has (Stop). *)
Publish(r) ==
  /\ npm[V(r)] = 0
  /\ npm' = [npm EXCEPT ![V(r)] = commit[r]]
  /\ Goto(r, "publish", IF asked[r] = {} THEN "hand" ELSE "tag")
  /\ UNCHANGED <<repo, tags, crate, inputs, local>>

(* git push --atomic: every missing tag, unless one has come to name       *)
(* another commit (Stop).                                                  *)
Tag(r) ==
  /\ \A l \in missing[r] : tags[l][V(r)] \in {0, anchor[r]}
  /\ Goto(r, "tag", "hand")
  /\ tags' = [l \in Lines |->
                IF l \in missing[r] THEN [tags[l] EXCEPT ![V(r)] = anchor[r]] ELSE tags[l]]
  /\ UNCHANGED <<repo, npm, crate, inputs, local>>

(* Hand the Go tag on, where the remote has it. *)
Hand(r) ==
  /\ Goto(r, "hand", IF tags["go"][V(r)] = 0 THEN "done" ELSE "crate-view")
  /\ UNCHANGED <<repo, registries, inputs, local>>

-------------------------------------------------------------------------------
(* The crates job decides: the tagged commit must name the tag's version,  *)
(* and a version crates.io has is left alone.                              *)
CrateView(r) ==
  /\ Goto(r, "crate-view", IF crate[V(r)] = 0 THEN "crate-publish" ELSE "done")
  /\ history[tags["go"][V(r)]] = V(r)
  /\ UNCHANGED <<repo, registries, inputs, local>>

CratePublishFromCheckout(r) ==
  /\ crate[V(r)] = 0
  /\ crate' = [crate EXCEPT ![V(r)] = commit[r]]
  /\ Goto(r, "crate-publish", "done")
  /\ UNCHANGED <<repo, npm, tags, inputs, local>>

(* cargo publish, from the tag. *)
CratePublish(r) ==
  /\ crate[V(r)] = 0
  /\ crate' = [crate EXCEPT ![V(r)] = tags["go"][V(r)]]
  /\ Goto(r, "crate-publish", "done")
  /\ UNCHANGED <<repo, npm, tags, inputs, local>>

(* A dispatch of the crates job alone, for a tag that exists: a backfill.  *)
DispatchCrates(l, v) ==
  /\ ByHand
  /\ tags[l][v] # 0 /\ history[tags[l][v]] = v
  /\ crate[v] = 0
  /\ crate' = [crate EXCEPT ![v] = tags[l][v]]
  /\ UNCHANGED <<repo, npm, tags, pc, inputs, local>>

(* A step fails: refused by the guard above, or for a reason of its own. *)
Stop(r) ==
  /\ pc[r] \notin {"idle", "failed", "crate-failed", "done"}
  /\ pc' = [pc EXCEPT ![r] = IF pc[r] \in {"crate-view", "crate-publish"}
                             THEN "crate-failed" ELSE "failed"]
  /\ UNCHANGED <<repo, registries, inputs, local>>

(* Re-run the failed job, at the commit of the run. *)
Rerun(r) ==
  /\ Goto(r, "failed", "checkout") \/ Goto(r, "crate-failed", "crate-view")
  /\ UNCHANGED <<repo, registries, inputs, local>>

-------------------------------------------------------------------------------
Init ==
  /\ history = <<1>> /\ tip = 1 /\ stray = {} /\ byHand = {}
  /\ npm = [v \in Versions |-> 0]
  /\ tags = [l \in Lines |-> [v \in Versions |-> 0]]
  /\ crate = [v \in Versions |-> 0]
  /\ pc = [r \in Runs |-> "idle"]
  /\ commit = [r \in Runs |-> 1]
  /\ asked = [r \in Runs |-> {}]
  /\ seen = [r \in Runs |-> [l \in Lines |-> 0]]
  /\ missing = [r \in Runs |-> {}]
  /\ anchor = [r \in Runs |-> 0]

Step(r) ==
  \/ Dispatch(r) \/ PushTag(r) \/ Checkout(r) \/ Decide(r) \/ View(r) \/ Publish(r)
  \/ Tag(r) \/ Hand(r) \/ CrateView(r) \/ CratePublish(r) \/ Stop(r) \/ Rerun(r)

(* What a maintainer does beside the runs. *)
Maintain ==
  \/ Merge
  \/ \E v \in Versions : PublishGo(v)
  \/ \E c \in Commits : PublishTs(c)
  \/ \E l \in Lines, v \in Versions : DispatchCrates(l, v)

Next == Maintain \/ \E r \in Runs : Step(r)

Spec == Init /\ [][Next]_vars

-------------------------------------------------------------------------------
PCs == {"idle", "checkout", "decide", "view", "publish", "tag", "hand",
        "crate-view", "crate-publish", "failed", "crate-failed", "done"}

(* Whatever a registry or a tag holds is a commit. *)
TypeOK ==
  /\ history \in Seq(Versions)
  /\ tip \in Commits /\ stray \subseteq Commits
  /\ byHand \subseteq Versions
  /\ npm \in [Versions -> Commits \cup {0}]
  /\ tags \in [Lines -> [Versions -> Commits \cup {0}]]
  /\ crate \in [Versions -> Commits \cup {0}]
  /\ pc \in [Runs -> PCs]
  /\ commit \in [Runs -> Commits]
  /\ asked \in [Runs -> SUBSET Lines]
  /\ seen \in [Runs -> [Lines -> Commits \cup {0}]]
  /\ missing \in [Runs -> SUBSET Lines]
  /\ anchor \in [Runs -> Commits \cup {0}]

(* release.yml:158-162.  However many runs race, fail and are repaired,    *)
(* whichever commits the orchestrator and repo-tag put ts/v at, ts/v and   *)
(* go/v of one version never name different commits, which for the Go      *)
(* module could not be undone.  A version make publish-go has tagged,      *)
(* beside the runs and whatever ts/v names, is left out.                   *)
TagsNameOneCommit ==
  \A v \in Versions \ byHand :
    tags["ts"][v] # 0 /\ tags["go"][v] # 0 => tags["ts"][v] = tags["go"][v]

(* A tag names a commit whose package.json has the tag's version, as       *)
(* crates-release.yml demands of the tag it is handed; again but for the   *)
(* versions make publish-go has tagged, which never reads package.json.    *)
TagsNameTheirVersion ==
  \A l \in Lines, v \in Versions \ byHand :
    tags[l][v] # 0 => history[tags[l][v]] = v

(* release.yml:194-195: a run tags after it publishes, so no run writes    *)
(* the Go tag of a version npm does not have.  The other writer of Go      *)
(* tags, make publish-go, asks npm nothing: its versions are left out.     *)
GoTagsAreOnNpm ==
  \A v \in Versions \ byHand : tags["go"][v] # 0 => npm[v] # 0

(* crates-release.yml:31-34: the crate is the commit of a tag of its       *)
(* version, never main's or the calling run's, and that commit's           *)
(* package.json names the version: even where make publish-go has put the  *)
(* Go tag at a commit of another version, and where the job is dispatched  *)
(* for ts/v.                                                               *)
CratesAreTheTags ==
  \A v \in Versions : crate[v] # 0 =>
    /\ \E l \in Lines : crate[v] = tags[l][v]
    /\ history[crate[v]] = v

(* release.yml:158-159: a repair names the commit the release actually     *)
(* happened at, not whatever main has become since.  So the tag names the  *)
(* commit npm's package was built from.                                    *)
TagsNameTheRelease ==
  \A v \in Versions : npm[v] # 0 /\ tags["go"][v] # 0 => npm[v] = tags["go"][v]
===============================================================================
