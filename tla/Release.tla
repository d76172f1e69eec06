------------------------------ MODULE Release ------------------------------
(***************************************************************************)
(* scripts/release.mjs: one maintainer's clone, the remote repository, and *)
(* the releases made from it one after another; other people push, any git *)
(* call may fail, those of the rollback too, and the program may be        *)
(* interrupted between any two.                                            *)
(*                                                                         *)
(* A commit is its whole history, a sequence of what each commit left: the *)
(* versions of the packages and the newest version in each changelog.  A   *)
(* tag is a package and a version.                                         *)
(***************************************************************************)
EXTENDS Naturals, FiniteSets, Sequences, SequencesExt

CONSTANTS
  Packages,
  Logged,      \* packages that have a CHANGELOG.md at first
  TopVersion,  \* bound on the versions
  MaxForeign   \* bound on the commits of others

VARIABLES
  local, remote,   \* the branch here and at origin
  work,            \* the working tree
  tags, pushed,    \* tags here and at origin: tag to commit
  others,          \* commits of others so far
  reached, chosen, \* where the program is, and the packages it releases
  createdTags,     \* its createdTags
  pushesBranch,    \* whether this clone's "git push origin" pushes the branch
  atStart,         \* history: local, work and tags when gitRelease began, and
                   \* whether the branch was pushed since
  swallowed        \* history: what the rollback failed to do, and told nobody

relVars == <<local, remote, work, tags, pushed, others, reached, chosen, createdTags, atStart,
             swallowed, pushesBranch>>

(* A package without a changelog has none of its versions in it.           *)
Original == [version |-> [p \in Packages |-> 1],
             log |-> [p \in Packages |-> IF p \in Logged THEN 1 ELSE 0]]
HaveLogs(some, commit) == \A p \in some : commit.log[p] # 0
Tip == Last(local)
NoTag == <<>>
Put(map, tag, commit) ==
  [t \in DOMAIN map \cup {tag} |-> IF t = tag THEN commit ELSE map[t]]
TagOf(p) == <<p, work.version[p]>>
Beginning(branch, files, tagged) ==
  [local |-> branch, work |-> files, tags |-> tagged, pushed |-> FALSE]
NoneLost == [undo |-> FALSE, restore |-> FALSE, tags |-> {}]

RelInit ==
  /\ local = <<Original>> /\ remote = local /\ work = Original
  /\ tags = NoTag /\ pushed = NoTag /\ others = 0
  /\ reached = "idle" /\ chosen = {} /\ createdTags = {}
  /\ atStart = Beginning(local, work, tags) /\ swallowed = NoneLost
  /\ pushesBranch \in BOOLEAN

(* The program is over, and its variables with it.                         *)
Exit ==
  /\ reached' = "idle" /\ chosen' = {} /\ createdTags' = {} /\ swallowed' = NoneLost
  /\ atStart' = Beginning(<<Original>>, Original, NoTag)
  /\ UNCHANGED pushesBranch

(* Someone else pushes; the maintainer pulls, tags included.               *)
OthersPush ==
  /\ others < MaxForeign
  /\ others' = others + 1
  /\ remote' = Append(remote, Last(remote))
  /\ UNCHANGED <<local, work, tags, pushed, reached, chosen, createdTags, atStart,
                 swallowed, pushesBranch>>

(* A fetch brings the tags of the branch it fetches; those here stay.      *)
OfTheBranch == {t \in DOMAIN pushed : IsPrefix(pushed[t], remote)}
FetchTags ==
  tags' = [t \in DOMAIN tags \cup OfTheBranch |->
             IF t \in DOMAIN tags THEN tags[t] ELSE pushed[t]]

Pull ==
  /\ reached = "idle" /\ work = Tip
  /\ IsPrefix(local, remote) /\ local # remote
  /\ local' = remote /\ work' = Last(remote)
  /\ FetchTags
  /\ UNCHANGED <<remote, pushed, others, reached, chosen, createdTags, atStart,
                 swallowed, pushesBranch>>

(* One package, or all of them.                                            *)
Selections == {Packages} \cup {{p} : p \in Packages}
Select ==
  /\ reached = "idle"
  /\ chosen' \in Selections
  /\ reached' = "check" /\ createdTags' = {}
  /\ UNCHANGED <<local, remote, work, tags, pushed, others, atStart,
                 swallowed, pushesBranch>>

(* The sync check never stops a release.  run() without silent returns the *)
(* empty string, so the branch has no name, "git rev-parse origin/" throws *)
(* and the catch takes it for a branch that origin lacks.  What is left of *)
(* it is its fetch, which may fail or be skipped.                          *)
AssertInSyncWithRemote == FetchTags \/ UNCHANGED tags

(* The pre-flight checks: the tree is clean, the tests pass.               *)
AssertCleanWorkingDir == work = Tip
Check ==
  /\ reached = "check" /\ AssertCleanWorkingDir
  /\ AssertInSyncWithRemote
  /\ reached' = "bump"
  /\ UNCHANGED <<local, remote, work, pushed, others, chosen, createdTags, atStart,
                 swallowed, pushesBranch>>

(* selectBumpType, and the last question.                                  *)
SelectBumpType ==
  /\ reached = "bump" /\ \A p \in chosen : work.version[p] < TopVersion
  /\ reached' = "edit"
  /\ UNCHANGED <<local, remote, work, tags, pushed, others, chosen, createdTags, atStart,
                 swallowed, pushesBranch>>

(* A check fails, the answer is no, or it was a dry run.                   *)
Quit ==
  /\ reached \in {"check", "bump"}
  /\ Exit /\ UNCHANGED <<local, remote, work, tags, pushed, others>>

(* updateAllPackageVersions, file by file, then each updateChangelog.      *)
Bumped == {p \in chosen : work.version[p] # Tip.version[p]}
WriteVersion(p) ==
  /\ reached = "edit" /\ p \in chosen \ Bumped
  /\ work' = [work EXCEPT !.version[p] = @ + 1]
  /\ UNCHANGED <<local, remote, tags, pushed, others, reached, chosen, createdTags, atStart,
                 swallowed, pushesBranch>>

Noted == {p \in Bumped : work.log[p] = work.version[p]}
UpdateChangelog(p) ==
  /\ reached = "edit" /\ Bumped = chosen /\ p \in chosen \ Noted
  /\ work' = [work EXCEPT !.log[p] = work.version[p]]
  /\ UNCHANGED <<local, remote, tags, pushed, others, reached, chosen, createdTags, atStart,
                 swallowed, pushesBranch>>

(* gitRelease: add and commit.                                             *)
Commit ==
  /\ reached = "edit" /\ Noted = chosen
  /\ local' = Append(local, work) /\ reached' = "tag"
  /\ atStart' = Beginning(local, Tip, tags)
  /\ UNCHANGED <<remote, work, tags, pushed, others, chosen, createdTags,
                 swallowed, pushesBranch>>

Untagged == {p \in chosen : TagOf(p) \notin createdTags}
Tag(p) ==
  /\ reached = "tag" /\ p \in Untagged /\ TagOf(p) \notin DOMAIN tags
  /\ tags' = Put(tags, TagOf(p), local)
  /\ createdTags' = createdTags \cup {TagOf(p)}
  /\ UNCHANGED <<local, remote, work, pushed, others, reached, chosen, atStart,
                 swallowed, pushesBranch>>

(* assertTagDoesNotExist exits; it is inside the try, but nothing is       *)
(* rolled back.                                                            *)
TagExists(p) ==
  /\ reached = "tag" /\ p \in Untagged /\ TagOf(p) \in DOMAIN tags
  /\ Exit /\ UNCHANGED <<local, remote, work, tags, pushed, others>>

(* Broken variant: the tags are pushed before the branch.                  *)
PushBranchLater ==
  /\ reached = "tag" /\ Untagged = {}
  /\ reached' = "push tags"
  /\ UNCHANGED <<local, remote, work, tags, pushed, others, chosen, createdTags, atStart,
                 swallowed, pushesBranch>>

(* run() gives '' for the branch here too: "git push origin" pushes what   *)
(* push.default and the clone's configuration say, mostly the branch.      *)
PushBranch ==
  /\ reached = "tag" /\ Untagged = {}
  /\ IF pushesBranch
     THEN /\ IsPrefix(remote, local) /\ remote' = local
          /\ atStart' = [atStart EXCEPT !.pushed = TRUE]
     ELSE UNCHANGED <<remote, atStart>>
  /\ reached' = "push tags"
  /\ UNCHANGED <<local, work, tags, pushed, others, chosen, createdTags,
                 swallowed, pushesBranch>>

PushTag(tag) ==
  /\ reached = "push tags" /\ tag \in createdTags
  /\ tag \in DOMAIN pushed => pushed[tag] = tags[tag]
  /\ pushed' = Put(pushed, tag, tags[tag])
  /\ UNCHANGED <<local, remote, work, tags, others, reached, chosen, createdTags, atStart,
                 swallowed, pushesBranch>>

(* Built docs or not, the release is complete.                             *)
Released ==
  /\ reached = "push tags" /\ createdTags \subseteq DOMAIN pushed
  /\ Exit /\ UNCHANGED <<local, remote, work, tags, pushed, others>>

(* A command of gitRelease fails: add or commit, git tag, or a push.       *)
CommitFails ==
  /\ reached = "edit" /\ Noted = chosen
  /\ reached' = "undo"
  /\ atStart' = Beginning(local, Tip, tags)
  /\ UNCHANGED <<local, remote, work, tags, pushed, others, chosen, createdTags,
                 swallowed, pushesBranch>>
StepFails ==
  /\ reached \in {"tag", "push tags"}
  /\ reached' = "undo"
  /\ UNCHANGED <<local, remote, work, tags, pushed, others, chosen, createdTags, atStart,
                 swallowed, pushesBranch>>

(* rollback: each command may fail, and goes unnoticed.  The commit is     *)
(* undone if tags were made.                                               *)
Undo ==
  /\ reached = "undo" /\ reached' = "restore"
  /\ \/ local' = (IF createdTags # {} THEN Front(local) ELSE local) /\ UNCHANGED swallowed
     \/ createdTags # {} /\ swallowed' = [swallowed EXCEPT !.undo = TRUE] /\ UNCHANGED local
  /\ UNCHANGED <<remote, work, tags, pushed, others, chosen, createdTags, atStart, pushesBranch>>

(* The files are checked out, all of them, or none when HEAD lacks one.    *)
Restore ==
  /\ reached = "restore" /\ reached' = "untag"
  /\ \/ HaveLogs(chosen, Tip) /\ work' = Tip /\ UNCHANGED swallowed
     \/ swallowed' = [swallowed EXCEPT !.restore = TRUE] /\ UNCHANGED work
  /\ UNCHANGED <<local, remote, tags, pushed, others, chosen, createdTags, atStart, pushesBranch>>

(* The tags are deleted here, one by one.  What was pushed stays pushed.   *)
Untag ==
  /\ reached = "untag" /\ reached' = "rolled back"
  /\ \E stay \in SUBSET createdTags :
       /\ tags' = [t \in DOMAIN tags \ (createdTags \ stay) |-> tags[t]]
       /\ swallowed' = [swallowed EXCEPT !.tags = stay]
  /\ UNCHANGED <<local, remote, work, pushed, others, chosen, createdTags, atStart, pushesBranch>>

(* The message is read, and whatever was left lying about is cleaned up.   *)
Clean ==
  /\ reached = "rolled back" \/ (reached = "idle" /\ work # Tip)
  /\ work' = Tip
  /\ Exit /\ UNCHANGED <<local, remote, tags, pushed, others>>

Interrupt ==
  /\ reached \in {"edit", "tag", "push tags", "undo", "restore", "untag"}
  /\ Exit /\ UNCHANGED <<local, remote, work, tags, pushed, others>>

RelNext ==
  \/ OthersPush \/ Pull \/ Select \/ Check
  \/ SelectBumpType \/ Quit
  \/ Commit \/ CommitFails \/ PushBranch
  \/ \E p \in Packages : WriteVersion(p) \/ UpdateChangelog(p) \/ Tag(p) \/ TagExists(p)
  \/ \E tag \in createdTags : PushTag(tag)
  \/ Released \/ StepFails \/ Undo \/ Restore \/ Untag \/ Clean \/ Interrupt

RelSpec == RelInit /\ [][RelNext]_relVars

-----------------------------------------------------------------------------
(* Whatever fails or is interrupted, and whoever pushes in between: a tag  *)
(* at origin, from which CI publishes, names a commit that has the tag's   *)
(* version; where the push that names no branch pushes the branch, it is a *)
(* commit of origin's (release.mjs:352-357).                               *)
TagsNameReleases ==
  \A tag \in DOMAIN pushed :
    /\ pushesBranch => IsPrefix(pushed[tag], remote)
    /\ Last(pushed[tag]).version[tag[1]] = tag[2]

(* A failed release whose branch was not pushed leaves the branch, the     *)
(* files and the tags as they were, but for what its own rollback failed   *)
(* to undo, and nobody is told of: a failed command of the rollback costs  *)
(* its own part only, and the files with the commit.  Excepted are a       *)
(* commit that failed before the first tag, whose commit stays, and a      *)
(* package without a changelog (release.mjs:298-316).                      *)
RollbackRestores ==
  reached = "rolled back" /\ ~atStart.pushed
    /\ (createdTags # {} \/ local = atStart.local) =>
      /\ swallowed.undo \/ local = atStart.local
      /\ swallowed.undo \/ swallowed.restore \/ work = atStart.work
      /\ [t \in DOMAIN tags \ swallowed.tags |-> tags[t]] = atStart.tags

(* The two together: no half of a release is left for CI or the next one,  *)
(* but what is named above.                                                *)
ReleaseSound == TagsNameReleases /\ RollbackRestores
=============================================================================
